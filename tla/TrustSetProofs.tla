--------------------------- MODULE TrustSetProofs ---------------------------
(***************************************************************************)
(* Proofs about TrustSet, for every set of admins, every configuration,    *)
(* and any number of failing calls and of new identities.                  *)
(*                                                                         *)
(* Order of the argument: types; TrustInv, which says which admins are     *)
(* done and what is left for the one whose turn it is; from it what holds  *)
(* after Ok, and from its part about removals what a step may take away.   *)
(***************************************************************************)
EXTENDS TrustSet, TLAPS

\* Replacing the identities of one admin by others of that admin.
LEMMA IdentitiesExcept ==
    ASSUME NEW f \in Identities, NEW a \in Admins, NEW S \in SUBSET Numbers[a]
    PROVE  [f EXCEPT ![a] = S] \in Identities
<1>1. S \in SUBSET UNION {Numbers[b] : b \in Admins}
  OBVIOUS
<1>2. QED
  BY <1>1 DEF Identities

\* A call to trust keeps both maps in shape.
LEMMA TrustKeepsIdentities ==
    ASSUME known \in Identities, trusted \in Identities,
           \A a \in Admins : trusted[a] \subseteq known[a],
           admin \in Admins, NEW n \in Numbers[admin], TrustNumber(n)
    PROVE  /\ known' \in Identities /\ trusted' \in Identities
           /\ \A a \in Admins : trusted'[a] \subseteq known'[a]
<1>1. known[admin] \cup {n} \in SUBSET Numbers[admin]
      /\ trusted[admin] \cup {n} \in SUBSET Numbers[admin]
  BY DEF Identities
<1>2. known' \in Identities /\ trusted' \in Identities
  BY <1>1, IdentitiesExcept DEF TrustNumber
<1>3. \A a \in Admins : trusted'[a] \subseteq known'[a]
  BY DEF TrustNumber, Identities
<1>4. QED
  BY <1>2, <1>3

\* Every variable keeps its type.
THEOREM TypeCorrect == Spec => []TypeOK
<1> USE TrustAssumption DEF Configured, signalCli
<1>1. Init => TypeOK
  BY DEF Init, TypeOK
<1>2. TypeOK /\ [Next]_vars => TypeOK'
  <2> SUFFICES ASSUME TypeOK, [Next]_vars PROVE TypeOK'
    OBVIOUS
  <2>1. CASE NextAdmin
    BY <2>1 DEF NextAdmin, TypeOK
  <2>2. CASE Finish
    BY <2>2 DEF Finish, TypeOK
  <2>3. CASE ListOk
    BY <2>3 DEF ListOk, Proceed, Revoked, TypeOK
  <2>4. CASE RemoveOk
    <3>1. admin \in Admins /\ known' \in Identities /\ trusted' \in Identities
      BY <2>4, IdentitiesExcept DEF TypeOK, RemoveOk, Forget
    <3>2. QED
      BY <2>4, <3>1 DEF TypeOK, RemoveOk, Forget, Identities
  <2>5. CASE TrustOk
    <3>1. PICK n \in pending : TrustNumber(n) /\ pending' = pending \ {n}
      BY <2>5 DEF TrustOk
    <3>2. admin \in Admins /\ n \in Numbers[admin]
      BY <2>5, <3>1 DEF TypeOK, TrustOk
    <3>3. known' \in Identities /\ trusted' \in Identities /\ \A a \in Admins : trusted'[a] \subseteq known'[a]
      BY <3>1, <3>2, TrustKeepsIdentities DEF TypeOK
    <3>4. QED
      BY <2>5, <3>1, <3>2, <3>3 DEF TypeOK, TrustOk
  <2>6. CASE LoopDone
    BY <2>6 DEF LoopDone, TypeOK
  <2>7. CASE VerifyOk
    BY <2>7 DEF VerifyOk, Verified, TypeOK
  <2>8. CASE VerifyMismatch
    BY <2>8 DEF VerifyMismatch, Verified, Fail, TypeOK
  <2>9. CASE Retry
    BY <2>9 DEF Retry, Start, TypeOK
  <2>10. CASE ListFail
    BY <2>10 DEF ListFail, Proceed, Revoked, TypeOK
  <2>11. CASE RemoveFail
    <3>1. admin \in Admins
      BY <2>11 DEF TypeOK, RemoveFail
    <3>2. known' \in Identities /\ trusted' \in Identities
      BY <2>11, <3>1, IdentitiesExcept DEF TypeOK, RemoveFail, Forget
    <3>3. QED
      BY <2>11, <3>1, <3>2 DEF TypeOK, RemoveFail, Forget, Fail, Identities
  <2>12. CASE TrustFail
    <3>1. admin \in Admins /\ Config[admin] \subseteq Numbers[admin] /\ pending \subseteq Config[admin]
      BY <2>12 DEF TypeOK, TrustFail
    <3>2. known' \in Identities /\ trusted' \in Identities /\ \A a \in Admins : trusted'[a] \subseteq known'[a]
      <4>1. CASE UNCHANGED <<known, trusted>>
        BY <4>1 DEF TypeOK
      <4>2. CASE \E n \in pending : TrustNumber(n)
        BY <3>1, <4>2, TrustKeepsIdentities DEF TypeOK
      <4>3. QED
        BY <2>12, <4>1, <4>2 DEF TrustFail
    <3>3. QED
      BY <2>12, <3>2 DEF TypeOK, TrustFail, Fail
  <2>13. CASE VerifyFail
    BY <2>13 DEF VerifyFail, Verified, Fail, TypeOK
  <2>14. CASE Reconnect
    BY <2>14 DEF Reconnect, Start, TypeOK
  <2>15. CASE Meet
    <3>1. PICK a \in Admins : \E n \in Numbers[a] \ known[a] :
            /\ known' = [known EXCEPT ![a] = @ \cup {n}]
            /\ \/ trusted' = [trusted EXCEPT ![a] = @ \cup {n}]
               \/ UNCHANGED trusted
            /\ met' = met \cup {a}
      BY <2>15, Zenon DEF Meet
    <3>2. PICK n \in Numbers[a] \ known[a] :
            /\ known' = [known EXCEPT ![a] = @ \cup {n}]
            /\ \/ trusted' = [trusted EXCEPT ![a] = @ \cup {n}]
               \/ UNCHANGED trusted
            /\ met' = met \cup {a}
      BY <3>1
    <3>3. known' \in Identities /\ trusted' \in Identities
      <4>1. known[a] \cup {n} \in SUBSET Numbers[a] /\ trusted[a] \cup {n} \in SUBSET Numbers[a]
        BY <3>2 DEF TypeOK, Identities
      <4>2. /\ [known EXCEPT ![a] = known[a] \cup {n}] \in Identities
            /\ [trusted EXCEPT ![a] = trusted[a] \cup {n}] \in Identities
        BY <4>1, IdentitiesExcept DEF TypeOK
      <4>3. QED
        BY <3>2, <4>2 DEF TypeOK
    <3>4. \A b \in Admins : trusted'[b] \subseteq known'[b]
      BY <3>2 DEF TypeOK, Identities
    <3>5. QED
      BY <2>15, <3>2, <3>3, <3>4 DEF TypeOK, Meet
  <2>16. CASE UNCHANGED vars
    BY <2>16 DEF vars, TypeOK
  <2>17. QED
    BY <2>1, <2>2, <2>3, <2>4, <2>5, <2>6, <2>7, <2>8, <2>9, <2>10, <2>11, <2>12, <2>13, <2>14, <2>15, <2>16 DEF Next, Update, CallFails
<1>3. QED
  BY <1>1, <1>2, PTL DEF Spec

\* The inductive invariant: TrustInv holds of the initial states and every step of
\* update_trust, of a failing call and of signal-cli keeps it.
THEOREM TrustInvCorrect == Spec => []TrustInv
<1> USE TrustAssumption DEF Configured, signalCli, AtAdmin, Handled, Revoked
<1>1. Init => TrustInv
  BY DEF Init, TrustInv
<1>2. TypeOK /\ TrustInv /\ [Next]_vars => TrustInv'
  <2> SUFFICES ASSUME TypeOK, TrustInv, [Next]_vars PROVE TrustInv'
    OBVIOUS
  <2>1. CASE NextAdmin
    BY <2>1 DEF NextAdmin, TypeOK, TrustInv
  <2>2. CASE Finish
    BY <2>2 DEF Finish, TypeOK, TrustInv
  <2>3. CASE ListOk
    BY <2>3 DEF ListOk, Proceed, Revoked, TypeOK, TrustInv
  <2>4. CASE RemoveOk
    BY <2>4 DEF RemoveOk, Forget, TypeOK, TrustInv
  <2>5. CASE TrustOk
    <3>1. PICK n \in pending : TrustNumber(n) /\ pending' = pending \ {n}
      BY <2>5 DEF TrustOk
    <3>2. /\ admin \in Admins /\ admin' = admin /\ n \in Config[admin]
          /\ trusted'[admin] = trusted[admin] \cup {n}
          /\ \A a \in Admins \ {admin} : trusted'[a] = trusted[a]
      BY <2>5, <3>1 DEF TrustOk, TrustNumber, TypeOK, Identities
    <3>3. step' = "add" =>
            /\ Config[admin] \ pending' \subseteq trusted'[admin]
            /\ trusted'[admin] \subseteq Config[admin] \/ admin \in met \/ admin \in unlisted
      BY <2>5, <3>1, <3>2 DEF TrustOk, TrustInv
    <3>4. QED
      BY <2>5, <3>2, <3>3 DEF TrustOk, TrustInv
  <2>6. CASE LoopDone
    BY <2>6 DEF LoopDone, TypeOK, TrustInv
  <2>7. CASE VerifyOk
    BY <2>7 DEF VerifyOk, Verified, TypeOK, TrustInv
  <2>8. CASE VerifyMismatch
    BY <2>8 DEF VerifyMismatch, Verified, Fail, TypeOK, TrustInv
  <2>9. CASE Retry
    BY <2>9 DEF Retry, Start, TypeOK, TrustInv
  <2>10. CASE ListFail
    BY <2>10 DEF ListFail, Proceed, Revoked, TypeOK, TrustInv
  <2>11. CASE RemoveFail
    BY <2>11 DEF RemoveFail, Forget, Fail, TypeOK, TrustInv
  <2>12. CASE TrustFail
    BY <2>12 DEF TrustFail, TrustNumber, Fail, TypeOK, TrustInv
  <2>13. CASE VerifyFail
    BY <2>13 DEF VerifyFail, Verified, Fail, TypeOK, TrustInv
  <2>14. CASE Reconnect
    BY <2>14 DEF Reconnect, Start, TypeOK, TrustInv
  <2>15. CASE Meet
    <3>1. PICK a \in Admins : /\ met' = met \cup {a}
                             /\ trusted[a] \subseteq trusted'[a]
                             /\ \A b \in Admins \ {a} : trusted'[b] = trusted[b]
      BY <2>15 DEF Meet, TypeOK, Identities
    <3>2. \A b \in Configured : Handled(b) => Handled(b)'
      BY <2>15, <3>1 DEF Meet
    <3>3. step = "remove" => Revoked(trusted[admin])' # {}
      BY <2>15, <3>1 DEF Meet, TypeOK, TrustInv
    <3>4. QED
      BY <2>15, <3>1, <3>2, <3>3 DEF Meet, TypeOK, TrustInv
  <2>16. CASE UNCHANGED vars
    BY <2>16 DEF vars, TypeOK, TrustInv
  <2>17. QED
    BY <2>1, <2>2, <2>3, <2>4, <2>5, <2>6, <2>7, <2>8, <2>9, <2>10, <2>11, <2>12, <2>13, <2>14, <2>15, <2>16 DEF Next, Update, CallFails
<1>3. QED
  BY <1>1, <1>2, TypeCorrect, PTL DEF Spec

\* After Ok nothing is trusted that is not configured, apart from what turned up later
\* and what could not be listed.
THEOREM RevokedAlwaysStayOut == Spec => []RevokedStayOut
<1>1. TrustInv => RevokedStayOut
  BY DEF TrustInv, RevokedStayOut, Handled
<1>2. QED
  BY <1>1, TrustInvCorrect, PTL

\* After Ok every configured number is trusted.
THEOREM ConfiguredAlwaysTrusted == Spec => []ConfiguredTrusted
<1>1. TrustInv => ConfiguredTrusted
  BY DEF TrustInv, ConfiguredTrusted, Handled
<1>2. QED
  BY <1>1, TrustInvCorrect, PTL

\* No step takes trust from an admin who has no trusted identity to be revoked.
THEOREM TrustOnlyLostByRevocation == Spec => TrustLostByRevocationOnly
<1> DEFINE NoneLost == \A a \in Admins : ~(trusted[a] \subseteq trusted'[a]) =>
                          Config[a] # {} /\ ~(trusted[a] \subseteq Config[a])
<1>1. TypeOK /\ TrustInv /\ [Next]_vars => [NoneLost]_vars
  <2> SUFFICES ASSUME TypeOK, TrustInv, [Next]_vars PROVE NoneLost
    OBVIOUS
  <2> USE TrustAssumption DEF Configured, signalCli, TypeOK, Identities
  <2>1. CASE NextAdmin
    BY <2>1 DEF NextAdmin
  <2>2. CASE Finish
    BY <2>2 DEF Finish
  <2>3. CASE ListOk
    BY <2>3 DEF ListOk, Proceed, Revoked
  <2>4. CASE RemoveOk
    BY <2>4 DEF RemoveOk, Forget, TrustInv, Revoked
  <2>5. CASE TrustOk
    BY <2>5 DEF TrustOk, TrustNumber
  <2>6. CASE LoopDone
    BY <2>6 DEF LoopDone
  <2>7. CASE VerifyOk
    BY <2>7 DEF VerifyOk, Verified
  <2>8. CASE VerifyMismatch
    BY <2>8 DEF VerifyMismatch, Verified, Fail
  <2>9. CASE Retry
    BY <2>9 DEF Retry, Start
  <2>10. CASE ListFail
    BY <2>10 DEF ListFail, Proceed, Revoked
  <2>11. CASE RemoveFail
    BY <2>11 DEF RemoveFail, Forget, Fail, TrustInv, Revoked
  <2>12. CASE TrustFail
    BY <2>12 DEF TrustFail, TrustNumber, Fail
  <2>13. CASE VerifyFail
    BY <2>13 DEF VerifyFail, Verified, Fail
  <2>14. CASE Reconnect
    BY <2>14 DEF Reconnect, Start
  <2>15. CASE Meet
    BY <2>15 DEF Meet
  <2>16. CASE UNCHANGED vars
    BY <2>16 DEF vars
  <2>17. QED
    BY <2>1, <2>2, <2>3, <2>4, <2>5, <2>6, <2>7, <2>8, <2>9, <2>10, <2>11, <2>12, <2>13, <2>14, <2>15, <2>16 DEF Next, Update, CallFails
<1>2. QED
  BY <1>1, TypeCorrect, TrustInvCorrect, PTL DEF Spec, TrustLostByRevocationOnly

=============================================================================
