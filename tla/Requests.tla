------------------------------- MODULE Requests -------------------------------
(***************************************************************************)
(* Signed requests and what becomes of them: requests are delayed, lost    *)
(* and delivered more than once; the server admits each by its timestamp   *)
(* and nonce and runs the subrequests of its batch or sequence one by one; *)
(* it may stop in between.  The subrequests here are those of the inbox of *)
(* direct messages, which clients poll by id.                              *)
(***************************************************************************)
EXTENDS Integers, Sequences, FiniteSets, FiniteSetsExt

CONSTANTS
    Users,
    RequestIds, \* with the nonce of each
    Bodies,     \* what each may ask for in a request: [subs, sequential], a batch or sequence
    Workers,
    None,
    Window,     \* how old a timestamp may be, and how long a nonce is remembered: a day
    Ahead,      \* how far the clock of each user may be ahead of the server's
    DMExpiry,
    Limit,      \* messages in one answer
    MaxTime     \* bound: the clock

ASSUME RequestsAssumption ==
    /\ None \notin RequestIds
    /\ Window \in Nat /\ DMExpiry \in Nat /\ MaxTime \in Nat
    /\ Ahead \in [Users -> Nat]
    /\ Limit \in Nat \ {0}
    /\ \A u \in Users : \A body \in Bodies[u] :
         /\ Len(body.subs) \in Nat /\ body.sequential \in BOOLEAN
         /\ \A i \in 1 .. Len(body.subs) :
              body.subs[i].do = "send" => body.subs[i].to \in Users

VARIABLES
    sent,       \* the requests signed so far: each may arrive at any time, any number of times, or never
    nonces,     \* user_request_nonces: the expiry of each
    work,       \* what each worker is about: a run of a request, and the next of its subrequests
    rows,       \* what the answer of each will hold: the messages, by id
    runs,       \* history: when each request was let in, and what its subrequests came to
    banned,     \* users.banned; the users are known, from earlier requests
    inbox,      \* the rows of `inbox`
    waiting,    \* the request each client waits for
    seen,       \* the id each client polls its inbox since
    got,        \* what it has received
    given,      \* history: the ids given to messages
    reused,     \* history: those given to more than one
    now

netVars == <<sent, waiting>>
authVars == <<nonces, banned>>
inboxVars == <<inbox, given, reused>>
clientVars == <<seen, got>>
workVars == <<work, rows>>
requestVars == <<netVars, authVars, inboxVars, clientVars, workVars, runs, now>>

Idle == [req |-> None, run |-> 0, next |-> 1]

RequestsInit ==
    /\ sent = <<>>
    /\ nonces = <<>>
    /\ work = [w \in Workers |-> Idle]
    /\ rows = [w \in Workers |-> <<>>]
    /\ runs = [r \in RequestIds |-> <<>>]
    /\ banned = {}
    /\ inbox = <<>>
    /\ waiting = [u \in Users |-> None]
    /\ seen = [u \in Users |-> 0]
    /\ got = [u \in Users |-> {}]
    /\ given = {}
    /\ reused = {}
    /\ now = 0

-----------------------------------------------------------------------------
(* Clients and the network.                                                *)

\* A client signs a request: X-SOGS-Timestamp by its clock, a nonce never used before,
\* and polls for what comes after the last message it has.  It no longer waits for an
\* answer that has not come.
Sign(u, r, body) ==
    /\ r \notin DOMAIN sent
    /\ \E at \in now..(now + Ahead[u]) :
         sent' = [q \in DOMAIN sent \cup {r} |->
                    IF q = r THEN [by |-> u, at |-> at, since |-> seen[u],
                                   subs |-> body.subs, sequential |-> body.sequential]
                    ELSE sent[q]]
    /\ waiting' = [waiting EXCEPT ![u] = r]
    /\ UNCHANGED <<authVars, inboxVars, clientVars, workVars, runs, now>>

-----------------------------------------------------------------------------
(* handle_http_auth.                                                       *)

InTime(r) == sent[r].at \in (now - Window)..(now + Window)

\* The nonce is remembered before the signature is verified and the handler runs;
\* the column is UNIQUE for all users.  The request may arrive again later.
Authenticate(w, r) ==
    /\ work[w].req = None
    /\ r \in DOMAIN sent
    /\ InTime(r)
    /\ sent[r].by \notin banned
    /\ r \notin DOMAIN nonces
    /\ nonces' = [n \in DOMAIN nonces \cup {r} |->
                    IF n = r THEN now + Window ELSE nonces[n]]
    /\ runs' = [runs EXCEPT ![r] = Append(@, [at |-> now, ran |-> <<>>])]
    /\ work' = [work EXCEPT ![w] = [req |-> r, run |-> Len(runs'[r]), next |-> 1]]
    /\ rows' = [rows EXCEPT ![w] = <<>>]
    /\ UNCHANGED <<netVars, banned, inboxVars, clientVars, now>>

-----------------------------------------------------------------------------
(* The inbox.                                                              *)

Largest(S) == IF S = {} THEN 0 ELSE Max(S)

\* A primary key of SQLite's.
NextMessageId == Largest(DOMAIN inbox) + 1

InboxOf(u) == {i \in DOMAIN inbox : inbox[i].to = u}

\* Altered form: the newest ones.
Page_Newest(u, since) ==
    LET ids == {i \in InboxOf(u) : i > since}
    IN  {i \in ids : Cardinality({j \in ids : j > i}) < Limit}

\* Message.to
Page(u, since) ==
    LET ids == {i \in InboxOf(u) : i > since}
    IN  {i \in ids : Cardinality({j \in ids : j < i}) < Limit}

\* POST /inbox/B: 404 if the recipient is banned.
SendInbox(sub, r, i) ==
    /\ sub.do = "send" /\ sub.to \notin banned
    /\ LET id == NextMessageId
       IN  /\ inbox' = [j \in DOMAIN inbox \cup {id} |->
                 IF j = id THEN [to |-> sub.to, msg |-> <<r, i>>, expiry |-> now + DMExpiry]
                 ELSE inbox[j]]
           /\ given' = given \cup {id}
           /\ reused' = reused \cup ({id} \cap given)

\* DELETE /inbox
DeleteInbox(sub, u) ==
    /\ sub.do = "clear"
    /\ inbox' = [j \in DOMAIN inbox \ InboxOf(u) |-> inbox[j]]
    /\ UNCHANGED <<given, reused>>

\* 404, and 304 for a poll that finds nothing: neither is a success.
Refused(sub) == sub.do = "send" /\ sub.to \in banned
NotModified(sub, u, since) == sub.do = "poll" /\ Page(u, since) = {}

-----------------------------------------------------------------------------
(* Subrequests: /batch, /sequence and make_subrequest.                     *)

Ran(w, ok) ==
    [runs EXCEPT ![work[w].req][work[w].run].ran = Append(@, [sub |-> work[w].next, ok |-> ok])]

\* Altered form: a sequence goes on after a failure, as a batch does.
Advance_OnFailure(w, ok) ==
    /\ runs' = Ran(w, ok)
    /\ work' = [work EXCEPT ![w].next = @ + 1]

\* The result of a subrequest; a sequence ends with the first that fails.
Advance(w, ok) ==
    LET r == work[w].req
    IN  /\ runs' = Ran(w, ok)
        /\ work' = [work EXCEPT ![w].next = IF ok \/ ~sent[r].sequential THEN @ + 1
                                            ELSE Len(sent[r].subs) + 1]

\* One subrequest, with the user of the outer request.
RunSubrequest(w) ==
    LET r == work[w].req
        i == work[w].next
        sub == sent[r].subs[i]
        u == sent[r].by
    IN  /\ r # None
        /\ i <= Len(sent[r].subs)
        /\ Advance(w, ~Refused(sub) /\ ~NotModified(sub, u, sent[r].since))
        /\ \/ SendInbox(sub, r, i) /\ UNCHANGED rows
           \/ DeleteInbox(sub, u) /\ UNCHANGED rows
           \/ /\ sub.do = "poll"
              /\ rows' = [rows EXCEPT ![w] = [j \in Page(u, sent[r].since) |-> inbox[j].msg]]
              /\ UNCHANGED inboxVars
           \/ Refused(sub) /\ UNCHANGED <<rows, inboxVars>>
        /\ UNCHANGED <<netVars, authVars, clientVars, now>>

\* The answer reaches the client, if it still waits, or is lost.
Answer(w) ==
    LET r == work[w].req
        u == sent[r].by
    IN  /\ r # None
        /\ work[w].next > Len(sent[r].subs)
        /\ work' = [work EXCEPT ![w] = Idle]
        /\ rows' = [rows EXCEPT ![w] = <<>>]
        /\ \/ /\ waiting[u] = r
              /\ got' = [got EXCEPT ![u] = @ \cup {rows[w][i] : i \in DOMAIN rows[w]}]
              /\ seen' = [seen EXCEPT ![u] = Largest({@} \cup DOMAIN rows[w])]
              /\ waiting' = [waiting EXCEPT ![u] = None]
           \/ UNCHANGED <<clientVars, waiting>>
        /\ UNCHANGED <<sent, authVars, inboxVars, runs, now>>

-----------------------------------------------------------------------------
(* A moderator, who bans one user; the mule; the clock; a restart.         *)

Ban(u) ==
    /\ banned = {}
    /\ banned' = banned \cup {u}
    /\ UNCHANGED <<netVars, nonces, inboxVars, clientVars, workVars, runs, now>>

\* Altered form: a nonce goes with the end of its day, not after it.
ExpireNonces_AtOnce == [n \in {m \in DOMAIN nonces : nonces[m] > now} |-> nonces[n]]

\* expire_nonce_history
ExpireNonces == [n \in {m \in DOMAIN nonces : nonces[m] >= now} |-> nonces[n]]

\* cleanup(): the inbox first; an exception in a step between (of the rooms' activity or
\* the permission changes) leaves the nonces to a later run.
Cleanup ==
    /\ inbox' = [i \in {j \in DOMAIN inbox : inbox[j].expiry >= now} |-> inbox[i]]
    /\ nonces' \in {nonces, ExpireNonces}
    /\ <<inbox, nonces>>' # <<inbox, nonces>>
    /\ UNCHANGED <<netVars, banned, given, reused, clientVars, workVars, runs, now>>

TickTime ==
    /\ now < MaxTime
    /\ now' = now + 1
    /\ UNCHANGED <<netVars, authVars, inboxVars, clientVars, workVars, runs>>

Restart ==
    /\ \E w \in Workers : work[w] # Idle
    /\ work' = [w \in Workers |-> Idle]
    /\ rows' = [w \in Workers |-> <<>>]
    /\ UNCHANGED <<netVars, authVars, inboxVars, clientVars, runs, now>>

RequestsNext ==
    \/ \E u \in Users, r \in RequestIds : \E body \in Bodies[u] : Sign(u, r, body)
    \/ \E u \in Users : Ban(u)
    \/ \E w \in Workers, r \in RequestIds : Authenticate(w, r)
    \/ \E w \in Workers : RunSubrequest(w) \/ Answer(w)
    \/ Cleanup
    \/ TickTime
    \/ Restart

RequestsSpec == RequestsInit /\ [][RequestsNext]_requestVars

-----------------------------------------------------------------------------
(* Properties.                                                             *)

\* However often a request arrives, and wherever the server stops, it is run once; and
\* only if its timestamp was still to come when it was let in, once more when that has
\* passed: its nonce is forgotten first (handle_http_auth, expire_nonce_history).
RanOnce ==
    \A r \in DOMAIN sent : \A i, j \in DOMAIN runs[r] :
        i < j => runs[r][i].at < sent[r].at /\ sent[r].at <= runs[r][j].at

\* Of a sequence nothing is run after what failed, nor before what has not been run, and
\* an inbox that is polled in vain is not emptied (POST /sequence); of a batch nothing is
\* skipped.
SequencesStop ==
    \A r \in DOMAIN sent : \A k \in DOMAIN runs[r] :
        LET ran == runs[r][k].ran
        IN  \A i \in DOMAIN ran :
              /\ ran[i].sub = i
              /\ sent[r].sequential /\ ~ran[i].ok => i = Len(ran)

\* A message that its recipient's polls pass over has an id that was used again: but for
\* that nothing is missed, with answers lost, late and cut off at the limit.
OnlyReusedMissed ==
    \A i \in DOMAIN inbox :
        LET u == inbox[i].to
        IN  i <= seen[u] => inbox[i].msg \in got[u] \/ i \in reused

\* routes/auth.py: a nonce "may not be reused with this pubkey (within a reasonable time
\* frame)".  The code forgets it before a timestamp that was ahead is too old.
AdmittedOnce == \A r \in RequestIds : Len(runs[r]) <= 1

\* Says poll_inbox: "Polls for any DMs received since the given id."
InboxComplete ==
    \A i \in DOMAIN inbox : i <= seen[inbox[i].to] => inbox[i].msg \in got[inbox[i].to]

===============================================================================
