-------------------------- MODULE CloudClientProofs --------------------------
(***************************************************************************)
(* What holds of CloudClient and CloudAccounts for every set of clients    *)
(* and keys, any number of retries, calls and provisioning attempts: a     *)
(* call commits once however often it was sent, success and conflict mean  *)
(* what they say, retried provisioning doubles nothing, and revoked keys   *)
(* stay out.                                                               *)
(*                                                                         *)
(* The argument for CommitsOnce: all requests of a call carry the cursor   *)
(* it began with.  A commit raises the project's cursor above it, so the   *)
(* gate is closed for the others.  The invariant therefore says of every   *)
(* commit of a call that its number is above the cursor of the requests    *)
(* that are left of that call, and of the call itself if it still runs.    *)
(***************************************************************************)
EXTENDS CloudClient, SequenceTheorems, TLAPS

\* Provisioning: the second insert follows the first, and the first only when
\* there was no account.
AccountsInv ==
  /\ AccountsTypeOK
  /\ accounts <= 1 /\ accounts <= hooks
  /\ defaults <= accounts
  /\ hook # "none" => hooks >= 1
  /\ hook = "account" => accounts = 0
  /\ hook = "project" => accounts = 1 /\ defaults = 0

LEMMA AccountsInitInv == AccountsInit => AccountsInv
  BY HooksAssumption DEF AccountsInit, AccountsInv, AccountsTypeOK

LEMMA AccountsStep == AccountsInv /\ [AccountsNext]_accountVars => AccountsInv'
<1> SUFFICES ASSUME AccountsInv, [AccountsNext]_accountVars PROVE AccountsInv'
  OBVIOUS
<1> USE HooksAssumption DEF AccountsInv, AccountsTypeOK
<1>1. CASE Provision
  BY <1>1 DEF Provision
<1>2. CASE LookForAccount
  BY <1>2 DEF LookForAccount, Existing
<1>3. CASE InsertAccount
  BY <1>3 DEF InsertAccount
<1>4. CASE InsertProject
  BY <1>4 DEF InsertProject
<1>5. CASE ProvisionFails
  BY <1>5 DEF ProvisionFails
<1>6. ASSUME NEW k \in Key, CreateKey(k) \/ RevokeKey(k) PROVE AccountsInv'
  BY <1>6 DEF CreateKey, RevokeKey
<1>7. CASE UNCHANGED accountVars
  BY <1>7 DEF accountVars
<1> QED
  BY <1>1, <1>2, <1>3, <1>4, <1>5, <1>6, <1>7 DEF AccountsNext

------------------------------------------------------------------------------
\* What is true of a call ...
CallOK(c) ==
  /\ call[c].base <= Cursor
  /\ call[c].pc \in {"send", "wait", "sleep"} => call[c].n >= 1
  /\ call[c].pc = "sleep" => call[c].attempt < Retries
  /\ call[c].pc = "done" => Committed(c, call[c].n)
  /\ call[c].pc = "conflict" => Cursor > call[c].base

\* ... of a commit: no later call has made it, and it is above the cursor of
\* its call ...
CommitOK(i) ==
  /\ commits[i].n <= call[commits[i].c].n
  /\ commits[i].n = call[commits[i].c].n => call[commits[i].c].base < i

\* ... of a request ...
RequestOK(r) ==
  /\ r.base <= Cursor
  /\ r.n <= call[r.c].n
  /\ r.n = call[r.c].n => r.base = call[r.c].base
  /\ \A i \in DOMAIN commits : commits[i] = [c |-> r.c, n |-> r.n] => r.base < i

\* ... and of an answer.
ReplyOK(a) ==
  /\ call[a.c].pc = "wait"
  /\ a.status = "done" => Committed(a.c, call[a.c].n)
  /\ a.status = "conflict" => Cursor > call[a.c].base

ClientTypes ==
  /\ call \in [Client -> Call]
  /\ requests \in SUBSET Request
  /\ replies \in SUBSET Reply
  /\ commits \in Seq([c: Client, n: 1 .. MaxCalls])

Inv ==
  /\ ClientTypes
  /\ \A c \in Client : CallOK(c)
  /\ \A i \in DOMAIN commits : CommitOK(i)
  /\ \A r \in requests : RequestOK(r)
  /\ \A a \in replies : ReplyOK(a)
  /\ CommitsOnce

LEMMA InitInv == Init => Inv
<1> SUFFICES ASSUME Init PROVE Inv
  OBVIOUS
<1>1. DOMAIN commits = {} /\ Cursor = 0
  BY DEF Init, Cursor
<1>2. ClientTypes
  BY ClientAssumption DEF Init, ClientTypes, Call, Idle
<1>3. \A c \in Client : CallOK(c)
  BY <1>1 DEF Init, CallOK, Idle
<1> QED
  BY <1>1, <1>2, <1>3 DEF Init, Inv, CommitsOnce

\* What the commits of a project are.
LEMMA CommitTypes ==
  ASSUME Inv
  PROVE  /\ Cursor \in Nat
         /\ DOMAIN commits = 1 .. Cursor
         /\ \A i \in DOMAIN commits : /\ i \in 1 .. Cursor
                                     /\ commits[i].c \in Client
                                     /\ commits[i].n \in 1 .. MaxCalls
<1>1. commits \in Seq([c: Client, n: 1 .. MaxCalls])
  BY DEF Inv, ClientTypes
<1>2. Cursor \in Nat /\ DOMAIN commits = 1 .. Cursor
  BY <1>1, LenProperties DEF Cursor
<1>3. \A i \in 1 .. Cursor : commits[i] \in [c: Client, n: 1 .. MaxCalls]
  BY <1>1, <1>2, ElementOfSeq DEF Cursor
<1> QED
  BY <1>2, <1>3

\* A step that moves one call of a client on, to k: the call and its cursor
\* stay the same, no commit is made, and answers are left only to calls that
\* wait for them.
LEMMA CallMoves ==
  ASSUME Inv, NEW c \in Client, NEW k \in Call,
         call' = [call EXCEPT ![c] = k],
         k.n = call[c].n, k.base = call[c].base,
         k.pc \in {"send", "wait", "sleep"} => k.n >= 1,
         k.pc = "sleep" => k.attempt < Retries,
         k.pc = "done" => Committed(c, k.n),
         k.pc = "conflict" => Cursor > k.base,
         replies' \subseteq replies,
         \A a \in replies' : a.c = c => k.pc = "wait",
         requests' \subseteq requests,
         UNCHANGED commits
  PROVE  Inv'
<1>1. Cursor' = Cursor /\ Cursor \in Nat
  BY LenProperties DEF Cursor, Inv, ClientTypes
<1>2. \A d \in Client : call'[d] = IF d = c THEN k ELSE call[d]
  BY DEF Inv, ClientTypes
<1>3. \A d \in Client : call'[d].n = call[d].n /\ call'[d].base = call[d].base
  BY <1>2
<1>4. \A d \in Client, n \in Nat : Committed(d, n)' <=> Committed(d, n)
  BY DEF Committed
<1>5. ClientTypes'
  BY DEF Inv, ClientTypes
<1>6. \A d \in Client : CallOK(d)'
  <2> SUFFICES ASSUME NEW d \in Client PROVE CallOK(d)'
    OBVIOUS
  <2>1. CASE d = c
    BY <1>1, <1>2, <2>1 DEF CallOK, Inv, Committed
  <2>2. CASE d # c
    BY <1>1, <1>2, <2>2 DEF CallOK, Inv, Committed
  <2> QED
    BY <2>1, <2>2
<1>7. \A i \in DOMAIN commits : commits[i].c \in Client
  BY CommitTypes
<1>8. \A i \in DOMAIN commits' : CommitOK(i)'
  BY <1>3, <1>7 DEF CommitOK, Inv
<1>9. \A r \in requests' : RequestOK(r)'
  BY <1>1, <1>3 DEF RequestOK, Inv, ClientTypes, Request
<1>10. \A a \in replies' : ReplyOK(a)'
  <2> SUFFICES ASSUME NEW a \in replies' PROVE ReplyOK(a)'
    OBVIOUS
  <2>1. a \in replies /\ a.c \in Client /\ ReplyOK(a)
    BY DEF Inv, ClientTypes, Reply
  <2>2. call'[a.c].pc = "wait"
    BY <1>2, <2>1 DEF ReplyOK
  <2> QED
    BY <1>1, <1>3, <2>1, <2>2 DEF ReplyOK, Committed
<1>11. CommitsOnce'
  BY DEF CommitsOnce, Inv
<1> QED
  BY <1>5, <1>6, <1>8, <1>9, <1>10, <1>11 DEF Inv

\* An attempt that ends as one outcome, for which the caller has the facts.
LEMMA AttemptedMoves ==
  ASSUME Inv, NEW c \in Client, NEW outcome \in Outcomes, Attempted(c, outcome),
         call[c].pc \in {"send", "wait"},
         outcome = "done" => Committed(c, call[c].n),
         outcome = "conflict" => Cursor > call[c].base,
         replies' = {a \in replies : a.c # c},
         UNCHANGED <<requests, commits>>
  PROVE  Inv'
<1> DEFINE pc == IF ShouldRetry(c, outcome) THEN "sleep" ELSE outcome
           k == [call[c] EXCEPT !.pc = pc]
<1>1. call[c] \in Call /\ call[c].n >= 1 /\ call' = [call EXCEPT ![c] = k]
  BY DEF Inv, ClientTypes, CallOK, Attempted, Thrown
<1>2. pc \in {"sleep"} \cup Outcomes /\ (pc # "sleep" => pc = outcome)
  BY DEF Outcomes
<1>3. pc = "sleep" => call[c].attempt < Retries
  BY DEF ShouldRetry, Outcomes
<1> HIDE DEF pc
<1>4. /\ k \in Call /\ k.n = call[c].n /\ k.base = call[c].base
      /\ k.pc = pc /\ k.attempt = call[c].attempt
  BY <1>1, <1>2 DEF Call
<1> HIDE DEF k
<1>5. k.pc # "wait" /\ k.pc # "send"
  BY <1>2, <1>4 DEF Outcomes
<1> QED
  BY <1>1, <1>2, <1>3, <1>4, <1>5, CallMoves

------------------------------------------------------------------------------
\* A new call: whatever was sent or committed before belongs to earlier ones.
LEMMA BeginKeeps ==
  ASSUME Inv, NEW c \in Client, Begin(c)
  PROVE  Inv'
<1> DEFINE k == [pc |-> "send", n |-> call[c].n + 1, attempt |-> 0,
                 base |-> Cursor, cancelled |-> FALSE]
<1>1. Cursor' = Cursor /\ Cursor \in Nat /\ UNCHANGED <<requests, replies, commits>>
  BY CommitTypes DEF Begin, Cursor
<1>2. call[c] \in Call /\ call[c].n \in Nat /\ call[c].n < MaxCalls
  BY ClientAssumption DEF Inv, ClientTypes, Begin, Call
<1>3. k \in Call
  BY <1>1, <1>2, ClientAssumption DEF Call
<1>4. /\ call' = [call EXCEPT ![c] = k] /\ k.n = call[c].n + 1
      /\ k.base = Cursor /\ k.pc = "send"
  BY DEF Begin
<1> HIDE DEF k
<1>5. \A d \in Client : call'[d] = IF d = c THEN k ELSE call[d]
  BY <1>4 DEF Inv, ClientTypes
<1>6. ClientTypes'
  BY <1>1, <1>3, <1>4 DEF Inv, ClientTypes
<1>7. \A d \in Client : CallOK(d)'
  <2> SUFFICES ASSUME NEW d \in Client PROVE CallOK(d)'
    OBVIOUS
  <2>1. CASE d = c
    BY <1>1, <1>2, <1>4, <1>5, <2>1 DEF CallOK, Outcomes
  <2>2. CASE d # c
    BY <1>1, <1>5, <2>2 DEF CallOK, Inv, Committed
  <2> QED
    BY <2>1, <2>2
<1>8. \A i \in DOMAIN commits' : CommitOK(i)'
  <2> SUFFICES ASSUME NEW i \in DOMAIN commits PROVE CommitOK(i)'
    BY <1>1
  <2>1. commits[i].c \in Client /\ commits[i].n \in Nat /\ CommitOK(i)
    BY CommitTypes, ClientAssumption DEF Inv
  <2> QED
    BY <1>1, <1>2, <1>4, <1>5, <2>1 DEF CommitOK
<1>9. \A r \in requests' : RequestOK(r)'
  <2> SUFFICES ASSUME NEW r \in requests PROVE RequestOK(r)'
    BY <1>1
  <2>1. r.c \in Client /\ r.n \in Nat /\ RequestOK(r)
    BY ClientAssumption DEF Inv, ClientTypes, Request
  <2> QED
    BY <1>1, <1>2, <1>4, <1>5, <2>1 DEF RequestOK
<1>10. \A a \in replies' : ReplyOK(a)'
  <2> SUFFICES ASSUME NEW a \in replies PROVE ReplyOK(a)'
    BY <1>1
  <2>1. a.c \in Client /\ ReplyOK(a)
    BY DEF Inv, ClientTypes, Reply
  <2>2. a.c # c
    BY <2>1 DEF ReplyOK, Begin, Outcomes
  <2> QED
    BY <1>1, <1>5, <2>1, <2>2 DEF ReplyOK, Committed
<1>11. CommitsOnce'
  BY <1>1 DEF CommitsOnce, Inv
<1> QED
  BY <1>6, <1>7, <1>8, <1>9, <1>10, <1>11 DEF Inv

\* A request carries the number and the cursor of its call.
LEMMA SendKeeps ==
  ASSUME Inv, NEW c \in Client, Send(c)
  PROVE  Inv'
<1> DEFINE r == [c |-> c, n |-> call[c].n, attempt |-> call[c].attempt,
                 base |-> call[c].base, in |-> FALSE]
           k == [call[c] EXCEPT !.pc = "wait"]
<1>1. call[c] \in Call /\ CallOK(c) /\ call[c].pc = "send" /\ call[c].n \in Nat
  BY ClientAssumption DEF Inv, ClientTypes, Send, Call
<1>2. r \in Request /\ RequestOK(r)
  <2>1. r \in Request
    BY <1>1, ClientAssumption DEF CallOK, Call, Request
  <2>2. \A i \in DOMAIN commits : commits[i] = [c |-> c, n |-> call[c].n] => call[c].base < i
    BY DEF Inv, CommitOK
  <2> QED
    BY <1>1, <2>1, <2>2 DEF CallOK, RequestOK
<1>3. requests' = requests \cup {r} /\ UNCHANGED <<replies, commits>>
  BY DEF Send
<1>4. call' = [call EXCEPT ![c] = k] /\ k \in Call
  BY <1>1 DEF Send, Call
<1>5. k.pc = "wait" /\ k.n = call[c].n /\ k.base = call[c].base
  BY <1>1 DEF Call
<1> HIDE DEF r, k
<1>6. \A d \in Client : call'[d] = IF d = c THEN k ELSE call[d]
  BY <1>4 DEF Inv, ClientTypes
<1>7. \A d \in Client : call'[d].n = call[d].n /\ call'[d].base = call[d].base
  BY <1>5, <1>6
<1>8. Cursor' = Cursor
  BY <1>3 DEF Cursor
<1>9. ClientTypes'
  BY <1>2, <1>3, <1>4 DEF Inv, ClientTypes
<1>10. \A d \in Client : CallOK(d)'
  BY <1>1, <1>3, <1>5, <1>6, <1>8 DEF CallOK, Inv, Committed
<1>11. \A i \in DOMAIN commits' : CommitOK(i)'
  BY <1>3, <1>7, CommitTypes DEF CommitOK, Inv
<1>12. \A q \in requests' : RequestOK(q)'
  <2> SUFFICES ASSUME NEW q \in requests' PROVE RequestOK(q)'
    OBVIOUS
  <2>1. q \in Request /\ RequestOK(q)
    BY <1>2, <1>3 DEF Inv, ClientTypes
  <2> QED
    BY <1>3, <1>7, <1>8, <2>1 DEF RequestOK, Request
<1>13. \A a \in replies' : ReplyOK(a)'
  <2> SUFFICES ASSUME NEW a \in replies PROVE ReplyOK(a)'
    BY <1>3
  <2>1. a.c \in Client /\ ReplyOK(a)
    BY DEF Inv, ClientTypes, Reply
  <2> QED
    BY <1>3, <1>5, <1>6, <1>7, <1>8, <2>1 DEF ReplyOK, Committed
<1>14. CommitsOnce'
  BY <1>3 DEF CommitsOnce, Inv
<1> QED
  BY <1>9, <1>10, <1>11, <1>12, <1>13, <1>14 DEF Inv

\* The other steps of the transport move the call and send nothing.
LEMMA TransportKeeps ==
  ASSUME Inv, NEW c \in Client, Transport(c) \/ Cancel(c)
  PROVE  Inv'
<1>1. call[c] \in Call /\ CallOK(c)
  BY DEF Inv, ClientTypes
<1>2. CASE Send(c)
  BY <1>2, SendKeeps
<1>3. CASE SendAborted(c)
  <2>1. replies' = {a \in replies : a.c # c}
    BY <1>3 DEF SendAborted, Inv, ReplyOK
  <2> QED
    BY <1>3, <2>1, AttemptedMoves DEF SendAborted, Outcomes
<1>4. CASE Timeout(c)
  BY <1>4, AttemptedMoves DEF Timeout, Outcomes
<1>5. CASE Wake(c)
  <2> DEFINE k == [call[c] EXCEPT !.pc = "send", !.attempt = call[c].attempt + 1]
  <2>0. call[c].pc = "sleep" /\ call[c].n >= 1 /\ call[c].attempt + 1 \in 0 .. Retries
    BY <1>1, <1>5, ClientAssumption DEF Wake, CallOK, Call
  <2>1. /\ k \in Call /\ k.pc = "send" /\ k.n = call[c].n /\ k.base = call[c].base
        /\ k.n >= 1
    BY <1>1, <2>0 DEF Call
  <2>2. call' = [call EXCEPT ![c] = k] /\ UNCHANGED <<requests, replies, commits>>
    BY <1>5 DEF Wake
  <2>3. \A a \in replies : a.c # c
    BY <1>5 DEF Wake, Inv, ReplyOK
  <2> HIDE DEF k
  <2> QED
    BY <2>1, <2>2, <2>3, CallMoves
<1>6. ASSUME NEW a \in replies, Receive(c, a) PROVE Inv'
  <2>1. a.c = c /\ ReplyOK(a) /\ a.status \in Outcomes
    BY <1>6 DEF Receive, Inv, ClientTypes, Reply, Outcomes
  <2> QED
    BY <1>6, <2>1, AttemptedMoves DEF Receive, ReplyOK
<1>7. CASE Cancel(c)
  <2> DEFINE k == [call[c] EXCEPT !.cancelled = TRUE]
  <2>1. /\ k \in Call /\ k.pc = call[c].pc /\ k.n = call[c].n
        /\ k.base = call[c].base /\ k.attempt = call[c].attempt
    BY <1>1 DEF Call
  <2>2. call' = [call EXCEPT ![c] = k] /\ UNCHANGED <<requests, replies, commits>>
    BY <1>7 DEF Cancel
  <2>3. \A a \in replies : a.c = c => k.pc = "wait"
    BY <2>1 DEF Inv, ReplyOK
  <2> HIDE DEF k
  <2> QED
    BY <1>1, <2>1, <2>2, <2>3, CallMoves DEF CallOK
<1> QED
  BY <1>2, <1>3, <1>4, <1>5, <1>6, <1>7 DEF Transport

------------------------------------------------------------------------------
\* Steps of the server leave the calls alone.  A request that goes on or away
\* and an answer that is true keep the invariant.
LEMMA ServerMoves ==
  ASSUME Inv, UNCHANGED <<call, commits>>,
         requests' \in SUBSET Request, replies' \in SUBSET Reply,
         \A r \in requests' : \E q \in requests :
            r.c = q.c /\ r.n = q.n /\ r.base = q.base,
         \A a \in replies' : a \in replies \/ ReplyOK(a)
  PROVE  Inv'
<1>1. Cursor' = Cursor
  BY DEF Cursor
<1>2. ClientTypes' /\ CommitsOnce'
  BY DEF Inv, ClientTypes, CommitsOnce
<1>3. \A c \in Client : CallOK(c)'
  BY <1>1 DEF Inv, CallOK, Committed
<1>4. \A i \in DOMAIN commits' : CommitOK(i)'
  BY DEF Inv, CommitOK
<1>5. \A r \in requests' : RequestOK(r)'
  BY <1>1 DEF Inv, RequestOK
<1>6. \A a \in replies' : ReplyOK(a)'
  BY <1>1 DEF Inv, ReplyOK, Committed
<1> QED
  BY <1>2, <1>3, <1>4, <1>5, <1>6 DEF Inv

\* Only a waiting call is answered, and the answer carries its numbers.
LEMMA AnswerTypes ==
  ASSUME Inv, NEW r \in requests, NEW status \in {"done", "conflict", "busy", "denied"},
         Answer(r, status)
  PROVE  /\ replies' \in SUBSET Reply
         /\ \A a \in replies' : a \in replies \/ (Waits(r) /\ a.c = r.c /\ a.status = status)
  BY DEF Answer, Inv, ClientTypes, Request, Reply

LEMMA AuthenticateKeeps ==
  ASSUME Inv, NEW r \in requests, Authenticate(r)
  PROVE  Inv'
<1>1. r \in Request /\ UNCHANGED <<call, commits>>
  BY DEF Inv, ClientTypes, Authenticate
<1>2. CASE LiveKey(r)
  <2> DEFINE q == [r EXCEPT !.in = TRUE]
  <2>1. /\ q \in Request /\ q.c = r.c /\ q.n = r.n /\ q.base = r.base
        /\ requests' = (requests \ {r}) \cup {q} /\ replies' = replies
    BY <1>1, <1>2 DEF Authenticate, Request
  <2> HIDE DEF q
  <2> QED
    BY <1>1, <2>1, ServerMoves DEF Inv, ClientTypes
<1>3. CASE ~LiveKey(r)
  <2>1. requests' = requests \ {r} /\ Answer(r, "denied")
    BY <1>3 DEF Authenticate
  <2>2. \A a \in replies' : a \in replies \/ ReplyOK(a)
    BY <2>1, AnswerTypes DEF Waits, ReplyOK
  <2> QED
    BY <1>1, <2>1, <2>2, AnswerTypes, ServerMoves DEF Inv, ClientTypes
<1> QED
  BY <1>2, <1>3

\* The gate is closed: the project is past the cursor of the request.
LEMMA RefusedKeeps ==
  ASSUME Inv, NEW r \in requests, NEW status \in {"conflict", "busy"},
         status = "conflict" => ~Gate(r),
         requests' = requests \ {r}, Answer(r, status),
         UNCHANGED <<call, commits>>
  PROVE  Inv'
<1>1. r.c \in Client /\ RequestOK(r) /\ r.base \in Nat /\ Cursor \in Nat
  BY CommitTypes DEF Inv, ClientTypes, Request
<1>2. ASSUME NEW a \in replies', a \notin replies PROVE ReplyOK(a)
  <2>1. Waits(r) /\ a.c = r.c /\ a.status = status
    BY <1>2, AnswerTypes
  <2>2. call[r.c].pc = "wait" /\ r.base = call[r.c].base
    BY <1>1, <2>1 DEF Waits, RequestOK
  <2>3. status = "conflict" => Cursor > call[r.c].base
    BY <1>1, <2>2 DEF Gate, RequestOK
  <2> QED
    BY <2>1, <2>2, <2>3 DEF ReplyOK
<1> QED
  BY <1>2, AnswerTypes, ServerMoves DEF Inv, ClientTypes

\* The gate is open: the commit is above every cursor that was given out, and
\* no commit of the same call came before it.
LEMMA CommitKeeps ==
  ASSUME Inv, NEW r \in requests, Gate(r), NEW status \in {"done", "busy"},
         commits' = Append(commits, [c |-> r.c, n |-> r.n]),
         requests' = requests \ {r}, Answer(r, status), UNCHANGED call
  PROVE  Inv'
<1> DEFINE e == [c |-> r.c, n |-> r.n]
<1>1. /\ r \in Request /\ r.c \in Client /\ r.n \in 1 .. MaxCalls /\ RequestOK(r)
      /\ r.base = Cursor
  BY DEF Inv, ClientTypes, Request, Gate
<1>2. Cursor \in Nat /\ DOMAIN commits = 1 .. Cursor
  BY CommitTypes
<1>3. e \in [c: Client, n: 1 .. MaxCalls]
  BY <1>1
<1>4. /\ commits' \in Seq([c: Client, n: 1 .. MaxCalls])
      /\ Cursor' = Cursor + 1 /\ DOMAIN commits' = 1 .. (Cursor + 1)
      /\ \A i \in 1 .. Cursor : commits'[i] = commits[i]
      /\ commits'[Cursor + 1] = e
  BY <1>2, <1>3, AppendProperties, LenProperties DEF Inv, ClientTypes, Cursor
<1>5. \A i \in DOMAIN commits : commits[i] # e
  BY <1>1, <1>2 DEF RequestOK
<1>6. \A c \in Client, n \in Nat : Committed(c, n) => Committed(c, n)'
  <2> SUFFICES ASSUME NEW c \in Client, NEW n \in Nat, Committed(c, n)
               PROVE  Committed(c, n)'
    OBVIOUS
  <2>1. PICK i \in 1 .. Cursor : commits[i] = [c |-> c, n |-> n]
    BY <1>2 DEF Committed
  <2>2. i \in DOMAIN commits' /\ commits'[i] = [c |-> c, n |-> n]
    BY <1>2, <1>4, <2>1
  <2> QED
    BY <2>2 DEF Committed
<1>7. Committed(r.c, r.n)'
  <2>1. Cursor + 1 \in DOMAIN commits'
    BY <1>2, <1>4
  <2> QED
    BY <1>4, <2>1 DEF Committed
<1> HIDE DEF e
<1>8. ClientTypes'
  BY <1>4, AnswerTypes DEF Inv, ClientTypes
<1>9. \A c \in Client : CallOK(c)'
  <2> SUFFICES ASSUME NEW c \in Client PROVE CallOK(c)'
    OBVIOUS
  <2>1. CallOK(c) /\ call[c].n \in Nat /\ call[c].base \in Nat
    BY ClientAssumption DEF Inv, ClientTypes, Call
  <2> QED
    BY <1>2, <1>4, <1>6, <2>1 DEF CallOK
<1>10. \A i \in DOMAIN commits' : CommitOK(i)'
  <2> SUFFICES ASSUME NEW i \in 1 .. (Cursor + 1) PROVE CommitOK(i)'
    BY <1>4
  <2>1. CASE i \in 1 .. Cursor
    BY <1>2, <1>4, <2>1 DEF Inv, CommitOK
  <2>2. CASE i = Cursor + 1
    <3>1. commits'[i].c = r.c /\ commits'[i].n = r.n
      BY <1>4, <2>2 DEF e
    <3>2. CallOK(r.c) /\ call[r.c].base \in Nat
      BY <1>1 DEF Inv, ClientTypes, Call
    <3> QED
      BY <1>1, <1>2, <2>2, <3>1, <3>2 DEF CommitOK, RequestOK, CallOK
  <2> QED
    BY <1>2, <2>1, <2>2
<1>11. \A q \in requests' : RequestOK(q)'
  <2> SUFFICES ASSUME NEW q \in requests PROVE RequestOK(q)'
    OBVIOUS
  <2>1. RequestOK(q) /\ q.base \in Nat
    BY DEF Inv, ClientTypes, Request
  <2>2. \A i \in 1 .. (Cursor + 1) : commits'[i] = [c |-> q.c, n |-> q.n] => q.base < i
    <3> SUFFICES ASSUME NEW i \in 1 .. (Cursor + 1),
                        commits'[i] = [c |-> q.c, n |-> q.n]
                 PROVE  q.base < i
      OBVIOUS
    <3>1. CASE i \in 1 .. Cursor
      BY <1>2, <1>4, <2>1, <3>1 DEF RequestOK
    <3>2. CASE i = Cursor + 1
      BY <1>2, <2>1, <3>2 DEF RequestOK
    <3> QED
      BY <1>2, <3>1, <3>2
  <2> QED
    BY <1>2, <1>4, <2>1, <2>2 DEF RequestOK
<1>12. \A a \in replies' : ReplyOK(a)'
  <2> SUFFICES ASSUME NEW a \in replies' PROVE ReplyOK(a)'
    OBVIOUS
  <2>1. CASE a \in replies
    <3>1. a.c \in Client /\ ReplyOK(a) /\ call[a.c].n \in Nat /\ call[a.c].base \in Nat
      BY <2>1, ClientAssumption DEF Inv, ClientTypes, Reply, Call
    <3> QED
      BY <1>2, <1>4, <1>6, <3>1 DEF ReplyOK
  <2>2. CASE a \notin replies
    <3>1. Waits(r) /\ a.c = r.c /\ a.status \in {"done", "busy"}
      BY <2>2, AnswerTypes
    <3> QED
      BY <1>7, <3>1 DEF ReplyOK, Waits
  <2> QED
    BY <2>1, <2>2
<1>13. CommitsOnce'
  <2> SUFFICES ASSUME NEW i \in 1 .. (Cursor + 1), NEW j \in 1 .. (Cursor + 1),
                      commits'[i] = commits'[j]
               PROVE  i = j
    BY <1>4 DEF CommitsOnce
  <2>1. CASE i \in 1 .. Cursor /\ j \in 1 .. Cursor
    BY <1>2, <1>4, <2>1 DEF CommitsOnce, Inv
  <2>2. CASE i \in 1 .. Cursor /\ j = Cursor + 1
    BY <1>2, <1>4, <1>5, <2>2
  <2>3. CASE i = Cursor + 1 /\ j \in 1 .. Cursor
    BY <1>2, <1>4, <1>5, <2>3
  <2> QED
    BY <1>2, <2>1, <2>2, <2>3
<1> QED
  BY <1>8, <1>9, <1>10, <1>11, <1>12, <1>13 DEF Inv

LEMMA ServerKeeps ==
  ASSUME Inv, Server
  PROVE  Inv'
<1> SUFFICES ASSUME NEW r \in requests,
                    Authenticate(r) \/ Complete(r) \/ LoseRequest(r)
             PROVE  Inv'
  BY DEF Server
<1>1. CASE Authenticate(r)
  BY <1>1, AuthenticateKeeps
<1>2. CASE Complete(r)
  <2>1. requests' = requests \ {r} /\ UNCHANGED call
    BY <1>2 DEF Complete
  <2>2. CASE Gate(r) /\ commits' = Append(commits, [c |-> r.c, n |-> r.n])
             /\ \E status \in {"done", "busy"} : Answer(r, status)
    BY <2>1, <2>2, CommitKeeps
  <2>3. CASE ~Gate(r) /\ Answer(r, "conflict") /\ UNCHANGED commits
    BY <2>1, <2>3, RefusedKeeps
  <2>4. CASE Answer(r, "busy") /\ UNCHANGED commits
    BY <2>1, <2>4, RefusedKeeps
  <2> QED
    BY <1>2, <2>2, <2>3, <2>4 DEF Complete
<1>3. CASE LoseRequest(r)
  BY <1>3, ServerMoves DEF LoseRequest, Inv, ClientTypes
<1> QED
  BY <1>1, <1>2, <1>3

------------------------------------------------------------------------------
LEMMA NextInv == Inv /\ AccountsInv /\ [Next]_vars => Inv' /\ AccountsInv'
<1> SUFFICES ASSUME Inv, AccountsInv, [Next]_vars PROVE Inv' /\ AccountsInv'
  OBVIOUS
<1>1. CASE AccountsNext /\ UNCHANGED clientVars
  <2>1. UNCHANGED <<call, requests, replies, commits>>
    BY <1>1 DEF clientVars
  <2> QED
    BY <1>1, <2>1, ServerMoves, AccountsStep DEF Inv, ClientTypes
<1>2. ASSUME NEW c \in Client, Begin(c) PROVE Inv' /\ UNCHANGED accountVars
  BY <1>2, BeginKeeps DEF Begin
<1>3. ASSUME NEW c \in Client, Cancel(c) \/ Transport(c)
      PROVE  Inv' /\ UNCHANGED accountVars
  <2>1. UNCHANGED accountVars
    BY <1>3 DEF Cancel, Transport, Send, SendAborted, Timeout, Wake, Receive
  <2> QED
    BY <1>3, <2>1, TransportKeeps
<1>4. CASE Server
  <2>1. UNCHANGED accountVars
    BY <1>4 DEF Server, Authenticate, Complete, LoseRequest
  <2> QED
    BY <1>4, <2>1, ServerKeeps, AccountsStep
<1>5. CASE UNCHANGED vars
  <2>1. UNCHANGED <<call, requests, replies, commits>> /\ UNCHANGED accountVars
    BY <1>5 DEF vars, clientVars
  <2> QED
    BY <2>1, ServerMoves, AccountsStep DEF Inv, ClientTypes
<1> QED
  BY <1>1, <1>2, <1>3, <1>4, <1>5, AccountsStep DEF Next

THEOREM ClientInvariant == Spec => [](Inv /\ AccountsInv)
<1>1. Init => Inv /\ AccountsInv
  BY InitInv, AccountsInitInv DEF Init
<1> QED
  BY <1>1, NextInv, PTL DEF Spec

\* The types of accounts, calls, requests, answers and commits.
THEOREM ClientTypeCorrect == Spec => []TypeOK
<1>1. Inv /\ AccountsInv => TypeOK
  BY DEF Inv, ClientTypes, AccountsInv, TypeOK
<1> QED
  BY <1>1, ClientInvariant, PTL

\* A call of complete commits once, however often the transport sent it.
THEOREM ClientCommitsOnce == Spec => []CommitsOnce
<1>1. Inv => CommitsOnce
  BY DEF Inv
<1> QED
  BY <1>1, ClientInvariant, PTL

\* Success and conflict say what has happened.
THEOREM ClientAnswersTrue == Spec => []AnswersAreTrue
<1>1. Inv => AnswersAreTrue
  BY DEF Inv, CallOK, AnswersAreTrue
<1> QED
  BY <1>1, ClientInvariant, PTL

\* Retried provisioning makes no second account and no second default project.
THEOREM ProvisionedOnce == Spec => []RetryNeverDoubles
<1>1. AccountsInv => RetryNeverDoubles
  BY DEF AccountsInv, AccountsTypeOK, RetryNeverDoubles
<1> QED
  BY <1>1, ClientInvariant, PTL

------------------------------------------------------------------------------
(***************************************************************************)
(* Keys.  A revoked key stays revoked, and where every request that was    *)
(* let in with it is through, no other one gets in.                        *)
(***************************************************************************)
\* What one step leaves of a client that is shut out.
LEMMA ShutStep ==
  ASSUME TypeOK, Next, NEW c \in Client, Shut(c)
  PROVE  /\ Shut(c)'
         /\ \A i \in DOMAIN commits' \ DOMAIN commits : commits'[i].c # c
<1>1. /\ keys \in [Key -> {"none", "live", "revoked"}] /\ KeyOf[c] \in Key
      /\ keys[KeyOf[c]] = "revoked" /\ requests \subseteq Request
      /\ \A r \in requests : r.c = c => ~r.in
      /\ commits \in Seq([c : Client, n : 1 .. MaxCalls])
  BY ClientAssumption DEF TypeOK, AccountsTypeOK, Shut
<1>2. CASE AccountsNext /\ UNCHANGED clientVars
  <2>1. keys'[KeyOf[c]] = "revoked"
    BY <1>1, <1>2 DEF AccountsNext, Provision, LookForAccount, InsertAccount, InsertProject,
                      ProvisionFails, CreateKey, RevokeKey
  <2> QED
    BY <1>1, <1>2, <2>1 DEF Shut, clientVars
<1>3. ASSUME NEW d \in Client, Begin(d) \/ Cancel(d) \/ Transport(d)
      PROVE  Shut(c)' /\ commits' = commits
  <2>1. CASE Send(d)
    <3>1. \A r \in requests' : r \in requests \/ ~r.in
      BY <2>1 DEF Send
    <3> QED
      BY <1>1, <2>1, <3>1 DEF Send, Shut, accountVars
  <2>2. CASE ~Send(d)
    BY <1>1, <1>3, <2>2 DEF Begin, Cancel, Transport, SendAborted, Timeout, Wake, Receive,
                           Shut, accountVars
  <2> QED
    BY <2>1, <2>2
<1>4. ASSUME NEW r \in requests, Authenticate(r)
      PROVE  Shut(c)' /\ commits' = commits
  <2>1. CASE r.c = c
    <3>1. requests' = requests \ {r}
      BY <1>1, <1>4, <2>1 DEF Authenticate, LiveKey
    <3> QED
      BY <1>1, <1>4, <3>1 DEF Authenticate, Shut, accountVars
  <2>2. CASE r.c # c
    <3>1. [r EXCEPT !.in = TRUE].c # c
      BY <1>1, <2>2 DEF Request
    <3>2. \A q \in requests' : q \in requests \/ q.c # c
      BY <1>4, <3>1 DEF Authenticate
    <3> QED
      BY <1>1, <1>4, <3>2 DEF Authenticate, Shut, accountVars
  <2> QED
    BY <2>1, <2>2
<1>5. ASSUME NEW r \in requests, Complete(r)
      PROVE  /\ Shut(c)'
             /\ \A i \in DOMAIN commits' \ DOMAIN commits : commits'[i].c # c
  <2>1. Shut(c)' /\ r.c # c
    BY <1>1, <1>5 DEF Complete, Shut, accountVars
  <2>2. CASE UNCHANGED commits
    BY <2>1, <2>2
  <2>3. CASE commits' = Append(commits, [c |-> r.c, n |-> r.n])
    <3>1. [c |-> r.c, n |-> r.n] \in [c : Client, n : 1 .. MaxCalls]
      BY <1>1 DEF Request
    <3>2. /\ DOMAIN commits' = 1 .. Len(commits) + 1 /\ DOMAIN commits = 1 .. Len(commits)
          /\ commits'[Len(commits) + 1] = [c |-> r.c, n |-> r.n] /\ Len(commits) \in Nat
      BY <1>1, <2>3, <3>1, AppendProperties, LenProperties
    <3>3. \A i \in DOMAIN commits' \ DOMAIN commits : i = Len(commits) + 1
      BY <3>2
    <3> QED
      BY <2>1, <3>2, <3>3
  <2> QED
    BY <1>5, <2>2, <2>3 DEF Complete
<1>6. ASSUME NEW r \in requests, LoseRequest(r)
      PROVE  Shut(c)' /\ commits' = commits
  BY <1>1, <1>6 DEF LoseRequest, Shut, accountVars
<1> QED
  BY <1>2, <1>3, <1>4, <1>5, <1>6 DEF Next, Server, clientVars

\* Once a key is revoked and the requests let in before are through, nothing is
\* committed with it (revokeApiKey, resolveAccount).
THEOREM RevokedKeysStayOut == Spec => RevokedStaysOut
<1>1. TypeOK /\ [Next]_vars =>
        [\A c \in Client : Shut(c) =>
           /\ Shut(c)'
           /\ \A i \in DOMAIN commits' \ DOMAIN commits : commits'[i].c # c]_vars
  BY ShutStep
<1> QED
  BY <1>1, ClientTypeCorrect, PTL DEF Spec, RevokedStaysOut
=============================================================================
