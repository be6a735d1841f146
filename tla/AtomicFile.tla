----------------------------- MODULE AtomicFile -----------------------------
(***************************************************************************)
(* What the replace tool promises about one worktree file, without saying  *)
(* how: the update a client asks for is one atomic compare-and-set of the  *)
(* whole content, and a crash leaves a whole content as well, one that was *)
(* current since the last time the file was flushed.  Replace is shown to  *)
(* refine it as long as nobody else writes the file.                       *)
(***************************************************************************)
CONSTANTS Clients, Requests,    \* who asks for which [before, after]
          Nobody,               \* no client
          Start                 \* contents the file may have at first

VARIABLES request,      \* what each client asks for
          value,        \* the content a reader sees
          author,       \* the client whose update that content is
          recoverable   \* the contents a crash may leave

vars == <<request, value, author, recoverable>>

Init ==
    /\ request \in [Clients -> Requests]
    /\ value \in Start
    /\ author = Nobody
    /\ recoverable = {value}

Update(c) ==
    /\ value = request[c].before
    /\ value' = request[c].after
    /\ author' = c
    /\ recoverable' = recoverable \cup {value'}
    /\ UNCHANGED request

Flush ==
    /\ recoverable' = {value}
    /\ UNCHANGED <<request, value, author>>

Crash ==
    /\ value' \in recoverable
    /\ author' = Nobody
    /\ recoverable' = {value'}
    /\ UNCHANGED request

Next == (\E c \in Clients : Update(c)) \/ Flush \/ Crash

Spec == Init /\ [][Next]_vars

=============================================================================
