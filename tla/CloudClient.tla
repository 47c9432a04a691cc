----------------------------- MODULE CloudClient -----------------------------
(***************************************************************************)
(* The transport of the cloud client, with push/complete as the request:   *)
(* the one whose repetition matters, because it commits.  A call makes up  *)
(* to Retries + 1 attempts.  Each is a request that may get lost, or whose *)
(* answer may; an attempt that timed out or was aborted may still be       *)
(* carried out.  On the other side the request is authenticated and then   *)
(* commits if the cursor it carries is the project's.                      *)
(*                                                                         *)
(* The server's side of a commit is modelled in SyncServer; here it is one *)
(* step, and the project is its list of commits, which nobody deletes: the *)
(* cursors of a project that is deleted and pushed again start over, and a *)
(* late attempt could pass the gate once more (GateKnowsDeletion there).   *)
(***************************************************************************)
EXTENDS CloudAccounts, Sequences

CONSTANTS
  Client,     \* callers; KeyOf[c] is the key they send
  KeyOf,
  Retries,    \* retries after the first attempt (2)
  MaxCalls    \* calls of a client considered

ASSUME ClientAssumption ==
  /\ KeyOf \in [Client -> Key]
  /\ Retries \in Nat
  /\ MaxCalls \in Nat

VARIABLES
  call,       \* what each client is doing
  requests,   \* on their way to a handler, or in one
  replies,    \* on their way back
  commits     \* the project: the commits so far

clientVars == <<call, requests, replies, commits>>
vars == <<accountVars, clientVars>>

Outcomes == {"done", "conflict", "busy", "denied", "timeout"}

Call == [pc: {"idle", "send", "wait", "sleep"} \cup Outcomes,
         n: 0 .. MaxCalls,          \* which call of the client
         attempt: 0 .. Retries,
         base: Nat,                 \* the cursor it was given by push
         cancelled: BOOLEAN]        \* the caller's signal

Request == [c: Client, n: 1 .. MaxCalls, attempt: 0 .. Retries, base: Nat,
            in: BOOLEAN]            \* past authentication

Reply == [c: Client, n: 1 .. MaxCalls, attempt: 0 .. Retries,
          status: {"done", "conflict", "busy", "denied"}]

TypeOK ==
  /\ AccountsTypeOK
  /\ call \in [Client -> Call]
  /\ requests \in SUBSET Request
  /\ replies \in SUBSET Reply
  /\ commits \in Seq([c: Client, n: 1 .. MaxCalls])

Idle == [pc |-> "idle", n |-> 0, attempt |-> 0, base |-> 0, cancelled |-> FALSE]

Init ==
  /\ AccountsInit
  /\ call = [c \in Client |-> Idle]
  /\ requests = {}
  /\ replies = {}
  /\ commits = <<>>

Cursor == Len(commits)

------------------------------------------------------------------------------
\* The client calls complete with the cursor that push has just answered.
Begin(c) ==
  /\ call[c].pc \in {"idle"} \cup Outcomes
  /\ call[c].n < MaxCalls
  /\ keys[KeyOf[c]] # "none"
  /\ call' = [call EXCEPT ![c] =
       [pc |-> "send", n |-> call[c].n + 1, attempt |-> 0, base |-> Cursor,
        cancelled |-> FALSE]]
  /\ UNCHANGED <<accountVars, requests, replies, commits>>

\* Errors that may pass are retried: timeouts, lost connections, and statuses
\* in the list, which has 409 and 503 and not 401.
ShouldRetry(c, outcome) ==
  /\ call[c].attempt < Retries
  /\ outcome \in {"conflict", "busy", "timeout"}

\* Variant: a retry that finds its own work done is a success.
ConflictMeansDone(c, outcome) ==
  IF outcome = "conflict" /\ call[c].attempt > 0 THEN "done" ELSE outcome

\* The call ends with the error of its last attempt.
Thrown(c, outcome) == outcome

\* requestOnce has an outcome.
Attempted(c, outcome) ==
  call' = [call EXCEPT ![c].pc =
             IF ShouldRetry(c, outcome) THEN "sleep" ELSE Thrown(c, outcome)]

\* mergeAbortSignals returns the caller's signal if it has fired already, and
\* fetch then rejects without sending anything.
Aborted(c) == call[c].cancelled

Send(c) ==
  /\ call[c].pc = "send"
  /\ ~Aborted(c)
  /\ requests' = requests \cup
       {[c |-> c, n |-> call[c].n, attempt |-> call[c].attempt,
         base |-> call[c].base, in |-> FALSE]}
  /\ call' = [call EXCEPT ![c].pc = "wait"]
  /\ UNCHANGED <<accountVars, replies, commits>>

\* An abort of the caller is taken for the timeout, and retried like it.
SendAborted(c) ==
  /\ call[c].pc = "send"
  /\ Aborted(c)
  /\ Attempted(c, "timeout")
  /\ UNCHANGED <<accountVars, requests, replies, commits>>

\* The caller gives up.  A fetch under way is aborted, a sleep is not.
Cancel(c) ==
  /\ call[c].pc \in {"send", "wait", "sleep"}
  /\ ~call[c].cancelled
  /\ call' = [call EXCEPT ![c].cancelled = TRUE]
  /\ UNCHANGED <<accountVars, requests, replies, commits>>

\* The timer of the attempt fires, its connection breaks, or it is aborted.
\* An answer under way is lost, the request is not called back.
Timeout(c) ==
  /\ call[c].pc = "wait"
  /\ Attempted(c, "timeout")
  /\ replies' = {a \in replies : a.c # c}
  /\ UNCHANGED <<accountVars, requests, commits>>

\* Variant: the loop does not advance.
WakeUncounted(c) ==
  /\ call[c].pc = "sleep"
  /\ call' = [call EXCEPT ![c].pc = "send"]
  /\ UNCHANGED <<accountVars, requests, replies, commits>>

\* The delay is over.
Wake(c) ==
  /\ call[c].pc = "sleep"
  /\ call' = [call EXCEPT ![c].pc = "send", ![c].attempt = @ + 1]
  /\ UNCHANGED <<accountVars, requests, replies, commits>>

\* The answer of the attempt is there.
Receive(c, a) ==
  /\ a \in replies
  /\ a.c = c
  /\ Attempted(c, a.status)
  /\ replies' = {b \in replies : b.c # c}
  /\ UNCHANGED <<accountVars, requests, commits>>

------------------------------------------------------------------------------
\* The client still has the connection of this attempt.
Waits(r) ==
  /\ call[r.c].pc = "wait"
  /\ call[r.c].n = r.n
  /\ call[r.c].attempt = r.attempt

Answer(r, status) ==
  replies' = IF Waits(r)
    THEN replies \cup
           {[c |-> r.c, n |-> r.n, attempt |-> r.attempt, status |-> status]}
    ELSE replies

\* Variant: a key is known by its row.
KnownKey(r) == keys[KeyOf[r.c]] # "none"

\* resolveAccount
LiveKey(r) == keys[KeyOf[r.c]] = "live"

Authenticate(r) ==
  /\ r \in requests
  /\ ~r.in
  /\ IF LiveKey(r)
       THEN /\ requests' = (requests \ {r}) \cup {[r EXCEPT !.in = TRUE]}
            /\ UNCHANGED replies
       ELSE /\ requests' = requests \ {r}
            /\ Answer(r, "denied")
  /\ UNCHANGED <<accountVars, call, commits>>

\* Variant: the gate is left open, as for a client that sends no cursor.
OpenGate(r) == TRUE

\* The cursor is current, inside the lock.
Gate(r) == r.base = Cursor

\* complete.  "busy" stands for every status that is retried and tells nothing of
\* the commit: no lock, the database down, a commit whose acknowledgement got
\* lost.  The refusals that end the call without a commit (402, 403, 422) end
\* it as the "denied" of Authenticate does, and are not modelled again.
Complete(r) ==
  /\ r \in requests
  /\ r.in
  /\ requests' = requests \ {r}
  /\ \/ /\ Gate(r)
        /\ commits' = Append(commits, [c |-> r.c, n |-> r.n])
        /\ \E status \in {"done", "busy"} : Answer(r, status)
     \/ /\ ~Gate(r)
        /\ Answer(r, "conflict")
        /\ UNCHANGED commits
     \/ /\ Answer(r, "busy")
        /\ UNCHANGED commits
  /\ UNCHANGED <<accountVars, call>>

LoseRequest(r) ==
  /\ r \in requests
  /\ requests' = requests \ {r}
  /\ UNCHANGED <<accountVars, call, replies, commits>>

Transport(c) ==
  \/ Send(c) \/ SendAborted(c) \/ Timeout(c) \/ Wake(c)
  \/ \E a \in replies : Receive(c, a)

Server == \E r \in requests : Authenticate(r) \/ Complete(r) \/ LoseRequest(r)

Next ==
  \/ AccountsNext /\ UNCHANGED clientVars
  \/ \E c \in Client : Begin(c) \/ Cancel(c) \/ Transport(c)
  \/ Server

\* Timers fire: every attempt has one, and so has every delay.  Nothing is
\* asked of the network or of the server.
Fairness == \A c \in Client : WF_vars(Transport(c))

Spec == Init /\ [][Next]_vars /\ Fairness

------------------------------------------------------------------------------
\* However often a call was sent, it commits once: the commit of one attempt
\* makes the cursor of the others stale.
CommitsOnce ==
  \A i, j \in DOMAIN commits : commits[i] = commits[j] => i = j

Committed(c, n) == \E i \in DOMAIN commits : commits[i] = [c |-> c, n |-> n]

\* What a call ends with is true of the project: a call that succeeds has
\* committed, so no other client's commit is taken for its own; and a conflict is
\* told only of a project that has moved on from the call's cursor.
AnswersAreTrue ==
  \A c \in Client :
    /\ call[c].pc = "done" => Committed(c, call[c].n)
    /\ call[c].pc = "conflict" => Cursor > call[c].base

\* The key is revoked, and the requests that were let in before are through.
Shut(c) ==
  /\ keys[KeyOf[c]] = "revoked"
  /\ \A r \in requests : r.c = c => ~r.in

\* From then on nothing more is committed with the key, whatever retries and
\* late requests of its clients are still under way.
RevokedStaysOut ==
  [][\A c \in Client : Shut(c) =>
       /\ Shut(c)'
       /\ \A i \in DOMAIN commits' \ DOMAIN commits : commits'[i].c # c]_vars

\* Whatever the network, the server and the other clients do, a call ends.
CallsEnd == \A c \in Client :
  call[c].pc \in {"send", "wait", "sleep"} ~> call[c].pc \in Outcomes
==============================================================================
