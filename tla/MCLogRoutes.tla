------------------------------ MODULE MCLogRoutes ----------------------------
(***************************************************************************)
(* Routes for model checking LogRoutes: one for errors, with a burst detector *)
(* by source location for noisy ones and a global suppressor; and one for  *)
(* noisy warnings of file "a", with a suppressor.  Overall, a suppressor   *)
(* for everything and a stricter one for noisy messages.                   *)
(***************************************************************************)
EXTENDS LogRoutes

Texts(msgs) == [msg |-> msgs, module_equals |-> "", file_equals |-> "", line_equals |-> ""]
All == Texts({"noisy", "quiet"})

Limit(times, window, ge, filter, located) ==
    [times |-> times, window |-> window, ge |-> ge, filter |-> filter,
     by_source_location |-> located]

MCRoutes ==
    << [alert_level |-> 3, filter |-> All, destination |-> "none",
        limits |-> <<Limit(1, 1, TRUE, Texts({"noisy"}), TRUE)>>,
        global_limits |-> <<Limit(1, 2, FALSE, All, FALSE)>>],
       [alert_level |-> 4, filter |-> [Texts({"noisy"}) EXCEPT !.file_equals = "a"],
        destination |-> "group",
        limits |-> <<Limit(1, 2, FALSE, All, FALSE), Limit(1, 1, FALSE, Texts({"quiet"}), FALSE)>>,
        global_limits |-> <<>>] >>
MCOverallLimits ==
    <<Limit(1, 1, FALSE, Texts({"noisy"}), FALSE), Limit(2, 2, FALSE, All, FALSE)>>

Kind(origin, level, msg, file) ==
    [origin |-> origin, level |-> level, msg |-> msg, module |-> "", file |-> file, line |-> ""]
MCMessages ==
    LET Kinds == {Kind("o1", 3, "noisy", "a"), Kind("o1", 3, "noisy", ""),
                  Kind("o2", 4, "noisy", "a"), Kind("o1", 3, "quiet", "")}
    IN  {[origin |-> k.origin, level |-> k.level, msg |-> k.msg, module |-> k.module,
          file |-> k.file, line |-> k.line, ts |-> x] : k \in Kinds, x \in {5, 6, 8}}

\* Threads are interchangeable, and only safety is checked.
ThreadSymmetry == Permutations(Threads)
=============================================================================
