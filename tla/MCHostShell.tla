---------------------------- MODULE MCHostShell ----------------------------
(***************************************************************************)
(* The sessions and the inputs of a small instance of HostShell.           *)
(***************************************************************************)
EXTENDS HostShell

Uploading == [owner |-> FALSE, regression |-> FALSE, othersUpload |-> TRUE,
              maxUploads |-> 2, maxRuns |-> 2, maxCommands |-> 2, maxLost |-> 1,
              maxOthers |-> 2, cycles |-> {1}]

\* A client whose replies get lost; one that others interfere with more; the
\* owner, to whom no reply is lost; and a regression, while others run and stop
\* workloads.
Sessions ==
    {Uploading,
     [Uploading EXCEPT !.maxCommands = 3, !.maxLost = 0, !.maxOthers = 3],
     [Uploading EXCEPT !.owner = TRUE, !.maxCommands = 3, !.maxLost = 0, !.maxOthers = 1],
     [Uploading EXCEPT !.regression = TRUE, !.othersUpload = FALSE, !.maxCommands = 0,
                       !.cycles = {1, 2}]}

\* Every key in short inputs; the keys that edit, that complete and that
\* recall in longer ones.
Typing ==
    {[keys |-> Keyboard, count |-> 2],
     [keys |-> {"x", "left", "delete", "end~", "escape"}, count |-> 3],
     [keys |-> {"x", " ", "tab", "left"}, count |-> 4],
     [keys |-> {"x", "nl", "up", "down"}, count |-> 5]}

\* Two names, so that a word has no, one or two completions.
Completions == {<<"x", "x", "y">>, <<"x", "z">>}
=============================================================================
