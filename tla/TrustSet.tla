------------------------------ MODULE TrustSet ------------------------------
(***************************************************************************)
(* SignalTrustSet::update_trust (signal-cli-jsonrpc-client/src/            *)
(* trust_set.rs) and the loop of the gateway that repeats it until it      *)
(* succeeds (do_run in signal-gateway/src/gateway/mod.rs).  For each admin *)
(* with configured safety numbers it makes signal-cli trust these and no   *)
(* others.  Every call to signal-cli is a step.                            *)
(*                                                                         *)
(* signal-cli is external: it knows identities of each admin and trusts    *)
(* some of them.  A call may fail, before or after it took effect, and     *)
(* between two calls an admin may turn up with a new identity, which       *)
(* signal-cli may trust on first use.                                      *)
(***************************************************************************)
EXTENDS Integers, FiniteSets

CONSTANTS Admins, NoAdmin,
          Numbers,        \* the safety numbers each admin may have
          Config,         \* SignalTrustSet.map; {} for an admin without numbers
          MaxMeetings     \* bound of the new identities that turn up

ASSUME TrustAssumption ==
    /\ NoAdmin \notin Admins
    /\ \A a \in Admins : Config[a] \subseteq Numbers[a]
    /\ MaxMeetings \in Nat

VARIABLES
    known, trusted,  \* signal-cli's identities of each admin, and the trusted ones
    step,            \* how far update_trust has come
    left,            \* the admins the loop has not come to yet
    admin,           \* the admin it is at
    pending,         \* the configured numbers the loops have not come to yet
    meetings,        \* number of new identities so far
    unlisted,        \* history: admins whose identities could not be listed
    met              \* history: admins with a new identity since they were listed

signalCli == <<known, trusted, meetings>>
vars == <<known, trusted, step, left, admin, pending, meetings, unlisted, met>>

\* Only admins with safety numbers are of interest: the others are skipped.
Configured == {a \in Admins : Config[a] # {}}

\* Mutant: a reset whenever the trusted numbers are not exactly the configured ones.
RevokedOrMissing(numbers) == (numbers \ Config[admin]) \cup (Config[admin] \ numbers)

\* has_revoked_identity: what is trusted and not configured.
Revoked(numbers) == numbers \ Config[admin]

Identities == {f \in [Admins -> SUBSET UNION {Numbers[a] : a \in Admins}] :
                  \A a \in Admins : f[a] \subseteq Numbers[a]}

TypeOK ==
    /\ known \in Identities /\ trusted \in Identities
    /\ \A a \in Admins : trusted[a] \subseteq known[a]
    /\ step \in {"next", "list", "remove", "retrust", "verify", "add", "ok", "failed"}
    /\ left \subseteq Configured
    /\ admin \in Configured \cup {NoAdmin}
    /\ step \in {"list", "remove", "retrust", "verify", "add"} =>
        admin # NoAdmin /\ admin \notin left
    /\ pending # {} => step \in {"remove", "retrust", "add"} /\ pending \subseteq Config[admin]
    /\ meetings \in 0..MaxMeetings
    /\ unlisted \subseteq Configured /\ met \subseteq Admins

Init ==
    /\ known \in Identities /\ trusted \in Identities
    /\ \A a \in Admins : trusted[a] \subseteq known[a]
    /\ step = "next" /\ left = Configured /\ admin = NoAdmin
    /\ pending = {}
    /\ meetings = 0 /\ unlisted = {} /\ met = {}

-----------------------------------------------------------------------------
(* The loop over the map's entries, in any order.                           *)

NextAdmin ==
    /\ step = "next"
    /\ \E a \in left : admin' = a /\ left' = left \ {a}
    /\ step' = "list"
    /\ UNCHANGED <<signalCli, pending, unlisted, met>>

Finish ==
    /\ step = "next" /\ left = {}
    /\ step' = "ok" /\ admin' = NoAdmin
    /\ UNCHANGED <<signalCli, left, pending, unlisted, met>>

\* Mutant: any identity that signal-cli knows counts as trusted already.
ProceedUntrustedToo(trustedNow) ==
    /\ IF Revoked(trustedNow) # {}
       THEN step' = "remove" /\ pending' = Config[admin]
       ELSE step' = "add" /\ pending' = Config[admin] \ known[admin]
    /\ UNCHANGED <<signalCli, left, admin>>

\* What follows once current_identities is known: a reset if a revoked identity is
\* trusted, else the loop over the numbers that are not yet trusted.
Proceed(trustedNow) ==
    /\ IF Revoked(trustedNow) # {}
       THEN step' = "remove" /\ pending' = Config[admin]
       ELSE step' = "add" /\ pending' = Config[admin] \ trustedNow
    /\ UNCHANGED <<signalCli, left, admin>>

ListOk ==
    /\ step = "list"
    /\ Proceed(trusted[admin])
    /\ met' = met \ {admin}
    /\ UNCHANGED unlisted

\* A listing that fails, or that cannot be parsed, counts as empty.
ListFail ==
    /\ step = "list"
    /\ Proceed({})
    /\ unlisted' = unlisted \cup {admin}
    /\ UNCHANGED met

-----------------------------------------------------------------------------
(* Calls that change what signal-cli trusts.  When one of them fails,       *)
(* update_trust returns the error at once.                                  *)
Fail == /\ step' = "failed" /\ admin' = NoAdmin /\ pending' = {}
        /\ UNCHANGED <<left, unlisted, met>>

\* remove_contact with forget: all identities of the admin are gone.
Forget ==
    /\ known' = [known EXCEPT ![admin] = {}]
    /\ trusted' = [trusted EXCEPT ![admin] = {}]

\* Mutant: the contact is hidden, not forgotten.
RemoveOkHides ==
    /\ step = "remove"
    /\ step' = "retrust"
    /\ UNCHANGED <<signalCli, left, admin, pending, unlisted, met>>

RemoveOk ==
    /\ step = "remove"
    /\ Forget
    /\ step' = "retrust"
    /\ UNCHANGED <<left, admin, pending, meetings, unlisted, met>>

RemoveFail ==
    /\ step = "remove"
    /\ \/ Forget
       \/ UNCHANGED <<known, trusted>>
    /\ Fail /\ UNCHANGED meetings

\* signal-cli's part of trust, with a safety number.
TrustNumber(n) ==
    /\ known' = [known EXCEPT ![admin] = @ \cup {n}]
    /\ trusted' = [trusted EXCEPT ![admin] = @ \cup {n}]

\* One round of either loop over safety numbers.
TrustOk ==
    /\ step \in {"retrust", "add"}
    /\ \E n \in pending : TrustNumber(n) /\ pending' = pending \ {n}
    /\ UNCHANGED <<step, left, admin, meetings, unlisted, met>>

TrustFail ==
    /\ step \in {"retrust", "add"} /\ pending # {}
    /\ \/ \E n \in pending : TrustNumber(n)
       \/ UNCHANGED <<known, trusted>>
    /\ Fail /\ UNCHANGED meetings

\* After the loop: a reset is verified, the additions are not.
LoopDone ==
    /\ pending = {}
    /\ \/ step = "retrust" /\ step' = "verify"
       \/ step = "add" /\ step' = "next"
    /\ UNCHANGED <<signalCli, left, admin, pending, unlisted, met>>

\* Mutant: the verification only looks for the configured numbers.
VerifiedAtLeast(numbers) == Config[admin] \subseteq numbers

\* Verification: exactly the configured numbers are trusted.
Verified(numbers) == numbers = Config[admin]

VerifyOk ==
    /\ step = "verify"
    /\ Verified(trusted[admin])
    /\ step' = "next"
    /\ met' = met \ {admin}
    /\ UNCHANGED <<signalCli, left, admin, pending, unlisted>>

\* The reset did not work: something else turned up.
VerifyMismatch ==
    /\ step = "verify"
    /\ ~Verified(trusted[admin])
    /\ Fail /\ UNCHANGED signalCli

\* The listing itself fails or cannot be parsed (after a mismatch that makes no difference).
VerifyFail ==
    /\ step = "verify"
    /\ Verified(trusted[admin])
    /\ Fail /\ UNCHANGED signalCli

-----------------------------------------------------------------------------
(* do_run repeats update_trust until it succeeds; after a lost connection   *)
(* it is done again.                                                        *)
Start ==
    /\ step' = "next" /\ left' = Configured
    /\ unlisted' = {} /\ met' = {}
    /\ UNCHANGED <<signalCli, admin, pending>>

Retry     == step = "failed" /\ Start
Reconnect == step = "ok" /\ Start

\* An admin turns up with an identity that signal-cli does not know, and trusts or not.
Meet ==
    /\ meetings < MaxMeetings /\ meetings' = meetings + 1
    /\ \E a \in Admins : \E n \in Numbers[a] \ known[a] :
        /\ known' = [known EXCEPT ![a] = @ \cup {n}]
        /\ \/ trusted' = [trusted EXCEPT ![a] = @ \cup {n}]
           \/ UNCHANGED trusted
        /\ met' = met \cup {a}
    /\ UNCHANGED <<step, left, admin, pending, unlisted>>

CallFails == ListFail \/ RemoveFail \/ TrustFail \/ VerifyFail

Update ==
    \/ NextAdmin \/ Finish \/ ListOk \/ RemoveOk \/ TrustOk \/ LoopDone
    \/ VerifyOk \/ VerifyMismatch \/ Retry

Next == Update \/ CallFails \/ Reconnect \/ Meet

Spec == Init /\ [][Next]_vars

\* update_trust goes on, and at some time signal-cli's calls no longer fail.
FairSpec == Spec /\ WF_vars(Update) /\ <>[][~CallFails]_vars

-----------------------------------------------------------------------------
\* An admin that update_trust is through with: the configured numbers are trusted, and
\* no others but those that turned up since, or that could not be listed.
Handled(a) ==
    /\ Config[a] \subseteq trusted[a]
    /\ trusted[a] \subseteq Config[a] \/ a \in met \/ a \in unlisted

AtAdmin == step \in {"list", "remove", "retrust", "verify", "add"}

\* What RevokedStayOut and ConfiguredTrusted rest on: the admins that the loop is
\* through with are handled, a removal has a reason, and the admin that needed no
\* removal lacks only the pending numbers.
TrustInv ==
    /\ step \in {"next", "ok"} => \A a \in Configured \ left : Handled(a)
    /\ AtAdmin => \A a \in Configured \ (left \cup {admin}) : Handled(a)
    /\ step = "ok" => left = {}
    /\ step = "remove" => Revoked(trusted[admin]) # {}
    /\ step = "add" =>
        /\ Config[admin] \ pending \subseteq trusted[admin]
        /\ trusted[admin] \subseteq Config[admin] \/ admin \in met \/ admin \in unlisted

\* "Remove the contact entirely and re-add only configured ones": after update_trust
\* returned Ok, no admin with configured numbers has another identity that is trusted,
\* unless it turned up after the admin's turn, or the admin could not be listed.
RevokedStayOut ==
    step = "ok" => \A a \in Configured :
        trusted[a] \subseteq Config[a] \/ a \in met \/ a \in unlisted

\* After Ok every configured safety number is trusted, whatever failed, was half done
\* or turned up on the way.
ConfiguredTrusted ==
    step = "ok" => \A a \in Configured : Config[a] \subseteq trusted[a]

\* "Otherwise, just trust any new safety numbers": trust is only taken from an admin
\* with configured numbers who has a trusted identity that is not configured.
TrustLostByRevocationOnly ==
    [][\A a \in Admins : ~(trusted[a] \subseteq trusted'[a]) =>
          Config[a] # {} /\ ~(trusted[a] \subseteq Config[a])]_vars

\* The gateway comes out of the loop: once the calls no longer fail, neither an attempt
\* that failed half-way nor a mismatch is repeated for ever.
UpdateSucceeds == (step = "failed") ~> (step = "ok")

=============================================================================
