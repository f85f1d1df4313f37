---------------------------- MODULE RequestsProofs ----------------------------
(* Theorems about Requests, for any users, requests, bodies, workers, window, *)
(* clocks of the clients and clock of the server.                             *)
EXTENDS Requests, FiniteSetTheorems, SequenceTheorems, WellFoundedInduction, TLAPS

USE RequestsAssumption

Result == [sub : Nat, ok : BOOLEAN]
Run == [at : Nat, ran : Seq(Result)]

Types ==
    /\ DOMAIN sent \subseteq RequestIds
    /\ \A r \in DOMAIN sent : /\ sent[r].at \in Nat
                              /\ Len(sent[r].subs) \in Nat
                              /\ sent[r].sequential \in BOOLEAN
    /\ DOMAIN nonces \subseteq DOMAIN sent
    /\ \A r \in DOMAIN nonces : nonces[r] \in Nat
    /\ work \in [Workers -> [req : RequestIds \cup {None}, run : Nat, next : Nat]]
    /\ runs \in [RequestIds -> Seq(Run)]
    /\ now \in Nat

\* What has run was signed; a worker has a run of its own.
Known ==
    /\ \A r \in RequestIds : runs[r] # <<>> => r \in DOMAIN sent
    /\ \A w \in Workers : work[w].req # None => work[w].run \in DOMAIN runs[work[w].req]
    /\ \A v, w \in Workers :
         work[v].req # None /\ work[v].req = work[w].req /\ work[v].run = work[w].run => v = w

\* A request was not too early when it was let in, and its nonce is remembered until what
\* was in time then, and not ahead, is too old.
Remembered ==
    \A r \in RequestIds : \A k \in DOMAIN runs[r] :
        /\ sent[r].at <= runs[r][k].at + Window
        /\ (r \in DOMAIN nonces /\ nonces[r] >= runs[r][k].at + Window)
             \/ now > runs[r][k].at + Window

\* What a worker is to run next is what comes after all that was run, if nothing failed
\* in a sequence.
InOrder(r, k) ==
    \A i \in DOMAIN runs[r][k].ran :
        /\ runs[r][k].ran[i].sub = i
        /\ sent[r].sequential /\ ~runs[r][k].ran[i].ok => i = Len(runs[r][k].ran)

Progress(w) ==
    LET r == work[w].req
        ran == runs[r][work[w].run].ran
    IN  r # None /\ work[w].next <= Len(sent[r].subs) =>
          /\ work[w].next = Len(ran) + 1
          /\ sent[r].sequential => \A i \in DOMAIN ran : ran[i].ok

Ordered ==
    /\ \A r \in DOMAIN sent : \A k \in DOMAIN runs[r] : InOrder(r, k)
    /\ \A w \in Workers : Progress(w)

Inv == Types /\ Known /\ Remembered /\ RanOnce /\ Ordered

-----------------------------------------------------------------------------

LEMMA IdleType == Idle \in [req : RequestIds \cup {None}, run : Nat, next : Nat] /\ Idle.req = None
  BY DEF Idle

LEMMA InitInv == RequestsInit => Inv
<1> SUFFICES ASSUME RequestsInit PROVE Inv
  OBVIOUS
<1>1. \A r \in RequestIds : runs[r] = <<>> /\ DOMAIN runs[r] = {}
  BY DEF RequestsInit
<1>2. \A w \in Workers : work[w].req = None
  BY IdleType DEF RequestsInit
<1>3. DOMAIN sent = {} /\ DOMAIN nonces = {}
  BY DEF RequestsInit
<1>4. Types
  BY <1>3, IdleType DEF RequestsInit, Types
<1>5. Known /\ Remembered /\ RanOnce
  BY <1>1, <1>2, <1>3 DEF Known, Remembered, RanOnce
<1>6. Ordered
  BY <1>2, <1>3 DEF Ordered, Progress
<1> QED
  BY <1>4, <1>5, <1>6 DEF Inv

\* A new request has not been run before, and changes nothing for those that have.
LEMMA SignInv ==
    ASSUME Inv, NEW u \in Users, NEW r \in RequestIds, NEW body \in Bodies[u], Sign(u, r, body)
    PROVE  Inv'
<1>1. PICK at \in now .. (now + Ahead[u]) :
        sent' = [q \in DOMAIN sent \cup {r} |->
                   IF q = r THEN [by |-> u, at |-> at, since |-> seen[u],
                                  subs |-> body.subs, sequential |-> body.sequential]
                   ELSE sent[q]]
  BY DEF Sign
<1>2. at \in Nat
  <2>1. now \in Nat /\ Ahead[u] \in Nat
    BY DEF Inv, Types
  <2> QED
    BY <2>1
<1>3. /\ r \notin DOMAIN sent
      /\ UNCHANGED <<nonces, work, runs, now>>
  BY DEF Sign, authVars, workVars
<1>4. /\ DOMAIN sent' = DOMAIN sent \cup {r}
      /\ \A q \in DOMAIN sent : sent'[q] = sent[q]
      /\ sent'[r].at = at /\ sent'[r].subs = body.subs /\ sent'[r].sequential = body.sequential
  BY <1>1, <1>3
<1>5. Types'
  BY <1>2, <1>3, <1>4 DEF Inv, Types
<1>6. runs[r] = <<>> /\ DOMAIN runs[r] = {}
  BY <1>3 DEF Inv, Known
<1>7. \A w \in Workers : work[w].req # None => work[w].req \in DOMAIN sent
  BY DEF Inv, Known, Types
<1>8. Known'
  BY <1>3, <1>4 DEF Inv, Known
<1>9. Remembered'
  <2>1. \A q \in RequestIds : \A k \in DOMAIN runs[q] : q \in DOMAIN sent
    BY DEF Inv, Known, Types
  <2> QED
    BY <1>3, <1>4, <2>1 DEF Inv, Remembered
<1>10. RanOnce' /\ Ordered'
  <2>1. RanOnce'
    BY <1>3, <1>4, <1>6 DEF Inv, RanOnce
  <2>2. \A q \in DOMAIN sent' : \A k \in DOMAIN runs'[q] : InOrder(q, k)'
    BY <1>3, <1>4, <1>6 DEF Inv, Ordered, InOrder
  <2>3. \A w \in Workers : Progress(w)'
    BY <1>3, <1>4, <1>7 DEF Inv, Ordered, Progress
  <2> QED
    BY <2>1, <2>2, <2>3 DEF Ordered
<1> QED
  BY <1>5, <1>8, <1>9, <1>10 DEF Inv

\* Whoever is let in again has a timestamp that was ahead before, and is not any more.
LEMMA AuthenticateInv ==
    ASSUME Inv, NEW w \in Workers, NEW r \in RequestIds, Authenticate(w, r)
    PROVE  Inv'
<1> DEFINE n == Len(runs[r])
           run == [at |-> now, ran |-> <<>>]
<1>1. /\ r \in DOMAIN sent /\ r \notin DOMAIN nonces
      /\ sent[r].at + Window >= now /\ sent[r].at <= now + Window
      /\ UNCHANGED <<sent, now>>
      /\ sent[r].at \in Nat /\ now \in Nat
  BY DEF Authenticate, InTime, netVars, Inv, Types
<1>2. /\ DOMAIN nonces' = DOMAIN nonces \cup {r}
      /\ nonces'[r] = now + Window
      /\ \A q \in DOMAIN nonces : nonces'[q] = nonces[q]
  BY <1>1 DEF Authenticate
<1>3. run \in Run /\ run.at = now /\ run.ran = <<>>
  BY <1>1 DEF Run
<1>4. runs' = [runs EXCEPT ![r] = Append(runs[r], run)]
  BY DEF Authenticate
<1> HIDE DEF run
<1>5. runs[r] \in Seq(Run) /\ n \in Nat /\ DOMAIN runs[r] = 1 .. n
  BY DEF Inv, Types
<1>6. /\ runs'[r] = Append(runs[r], run)
      /\ runs'[r] \in Seq(Run)
      /\ Len(runs'[r]) = n + 1
      /\ DOMAIN runs'[r] = 1 .. n + 1
      /\ \A k \in 1 .. n : runs'[r][k] = runs[r][k]
      /\ runs'[r][n + 1] = run
      /\ \A q \in RequestIds \ {r} : runs'[q] = runs[q]
  <2>1. runs'[r] = Append(runs[r], run) /\ \A q \in RequestIds \ {r} : runs'[q] = runs[q]
    BY <1>4 DEF Inv, Types
  <2>2. /\ Append(runs[r], run) \in Seq(Run)
        /\ Len(Append(runs[r], run)) = n + 1
        /\ \A k \in 1 .. n : Append(runs[r], run)[k] = runs[r][k]
        /\ Append(runs[r], run)[n + 1] = run
    BY <1>3, <1>5, AppendProperties
  <2>3. DOMAIN runs'[r] = 1 .. n + 1
    BY <2>1, <2>2
  <2> QED
    BY <2>1, <2>2, <2>3
<1>7. work' = [work EXCEPT ![w] = [req |-> r, run |-> n + 1, next |-> 1]]
  BY <1>6 DEF Authenticate
<1> HIDE DEF n
<1>8. Types'
  <2>1. runs' \in [RequestIds -> Seq(Run)]
    BY <1>4, <1>6 DEF Inv, Types
  <2>2. [req |-> r, run |-> n + 1, next |-> 1] \in [req : RequestIds \cup {None}, run : Nat, next : Nat]
    BY <1>5
  <2>3. work' \in [Workers -> [req : RequestIds \cup {None}, run : Nat, next : Nat]]
    BY <1>7, <2>2 DEF Inv, Types
  <2> QED
    BY <1>1, <1>2, <2>1, <2>3 DEF Inv, Types
<1>9. \A v \in Workers : IF v = w THEN work'[v] = [req |-> r, run |-> n + 1, next |-> 1]
                                  ELSE work'[v] = work[v]
  BY <1>7 DEF Inv, Types
<1>10. Known'
  <2>1. \A q \in RequestIds : runs'[q] # <<>> => q \in DOMAIN sent'
    BY <1>1, <1>6 DEF Inv, Known
  <2>2. \A q \in RequestIds : DOMAIN runs[q] \subseteq DOMAIN runs'[q]
    BY <1>5, <1>6
  <2>3. \A v \in Workers : work[v].req \in RequestIds \cup {None}
    BY DEF Inv, Types
  <2>4. \A v \in Workers : work'[v].req # None => work'[v].run \in DOMAIN runs'[work'[v].req]
    BY <1>5, <1>6, <1>9, <2>2, <2>3 DEF Inv, Known
  <2>5. \A v \in Workers : work[v].req = r => work[v].run # n + 1
    BY <1>1, <1>5 DEF Inv, Known, Types
  <2>6. \A v, x \in Workers :
          work'[v].req # None /\ work'[v].req = work'[x].req /\ work'[v].run = work'[x].run => v = x
    <3> SUFFICES ASSUME NEW v \in Workers, NEW x \in Workers, work'[v].req # None,
                        work'[v].req = work'[x].req, work'[v].run = work'[x].run
                 PROVE  v = x
      OBVIOUS
    <3>1. CASE v # w /\ x # w
      BY <1>9, <3>1 DEF Inv, Known
    <3>2. CASE v = w \/ x = w
      BY <1>9, <2>5, <3>2
    <3> QED
      BY <3>1, <3>2
  <2> QED
    BY <2>1, <2>4, <2>6 DEF Known
<1>11. \A k \in 1 .. n : /\ runs[r][k].at \in Nat
                         /\ runs[r][k].at < sent[r].at
                         /\ runs[r][k].at + Window < now
  <2> TAKE k \in 1 .. n
  <2>1. runs[r][k] \in Run
    BY <1>5, ElementOfSeq DEF n
  <2>2. runs[r][k].at \in Nat
    BY <2>1 DEF Run
  <2>3. now > runs[r][k].at + Window
    BY <1>1, <1>5 DEF Inv, Remembered
  <2> QED
    BY <1>1, <2>2, <2>3
<1>12. Remembered'
  <2> SUFFICES ASSUME NEW q \in RequestIds, NEW k \in DOMAIN runs'[q]
               PROVE  /\ sent[q].at <= runs'[q][k].at + Window
                      /\ (q \in DOMAIN nonces' /\ nonces'[q] >= runs'[q][k].at + Window)
                           \/ now > runs'[q][k].at + Window
    BY <1>1 DEF Remembered
  <2>1. CASE q # r
    BY <1>2, <1>6, <2>1 DEF Inv, Remembered
  <2>2. CASE q = r /\ k = n + 1
    BY <1>1, <1>2, <1>3, <1>6, <2>2
  <2>3. CASE q = r /\ k \in 1 .. n
    BY <1>5, <1>6, <1>11, <2>3 DEF Inv, Remembered
  <2> QED
    BY <1>5, <1>6, <2>1, <2>2, <2>3
<1>13. RanOnce'
  <2> SUFFICES ASSUME NEW q \in DOMAIN sent, NEW i \in DOMAIN runs'[q], NEW j \in DOMAIN runs'[q], i < j
               PROVE  runs'[q][i].at < sent[q].at /\ sent[q].at <= runs'[q][j].at
    BY <1>1 DEF RanOnce
  <2>0. q \in RequestIds
    BY DEF Inv, Types
  <2>1. CASE q # r
    BY <1>6, <2>0, <2>1 DEF Inv, RanOnce
  <2>2. CASE q = r /\ j = n + 1
    <3>1. i \in 1 .. n
      BY <1>5, <1>6, <2>2
    <3>2. sent[r].at <= runs[r][i].at + Window
      BY <1>5, <3>1 DEF Inv, Remembered
    <3>3. sent[r].at <= now
      BY <1>1, <1>11, <3>1, <3>2
    <3> QED
      BY <1>3, <1>6, <1>11, <2>2, <3>1, <3>3
  <2>3. CASE q = r /\ j # n + 1
    <3>1. i \in 1 .. n /\ j \in 1 .. n
      BY <1>5, <1>6, <2>3
    <3> QED
      BY <1>5, <1>6, <2>3, <3>1 DEF Inv, RanOnce
  <2> QED
    BY <2>1, <2>2, <2>3
<1>14. Ordered'
  <2>1. ASSUME NEW q \in DOMAIN sent, NEW k \in DOMAIN runs'[q] PROVE InOrder(q, k)'
    <3>0. q \in RequestIds
      BY DEF Inv, Types
    <3>1. CASE q = r /\ k = n + 1
      <4>1. runs'[q][k].ran = <<>>
        BY <1>3, <1>6, <3>1
      <4> QED
        BY <4>1 DEF InOrder
    <3>2. CASE ~(q = r /\ k = n + 1)
      <4>1. k \in DOMAIN runs[q] /\ runs'[q][k] = runs[q][k]
        BY <1>5, <1>6, <3>0, <3>2
      <4> QED
        BY <1>1, <4>1 DEF Inv, Ordered, InOrder
    <3> QED
      BY <3>1, <3>2
  <2>2. Progress(w)'
    <3>1. work'[w].req = r /\ work'[w].run = n + 1 /\ work'[w].next = 1
      BY <1>9
    <3>2. runs'[r][n + 1].ran = <<>>
      BY <1>3, <1>6
    <3>3. Len(<<>>) = 0 /\ DOMAIN <<>> = {}
      OBVIOUS
    <3> QED
      BY <3>1, <3>2, <3>3 DEF Progress
  <2>3. ASSUME NEW v \in Workers \ {w} PROVE Progress(v)'
    <3>1. work'[v] = work[v] /\ work[v].req \in RequestIds \cup {None}
      BY <1>9 DEF Inv, Types
    <3>2. work[v].req # None => runs'[work[v].req][work[v].run] = runs[work[v].req][work[v].run]
      BY <1>5, <1>6, <3>1 DEF Inv, Known
    <3> QED
      BY <1>1, <3>1, <3>2 DEF Inv, Ordered, Progress
  <2> QED
    BY <1>1, <2>1, <2>2, <2>3 DEF Ordered
<1> QED
  BY <1>8, <1>10, <1>12, <1>13, <1>14 DEF Inv

\* One result is added to the run of one worker.
LEMMA RanFacts ==
    ASSUME Inv, NEW w \in Workers, work[w].req # None, NEW ok \in BOOLEAN
    PROVE  LET r == work[w].req
               k == work[w].run
               ran == runs[r][k].ran
               x == [sub |-> work[w].next, ok |-> ok]
           IN  /\ r \in RequestIds /\ r \in DOMAIN sent /\ k \in DOMAIN runs[r]
               /\ ran \in Seq(Result) /\ Append(ran, x) \in Seq(Result)
               /\ Ran(w, ok) \in [RequestIds -> Seq(Run)]
               /\ \A q \in RequestIds \ {r} : Ran(w, ok)[q] = runs[q]
               /\ DOMAIN Ran(w, ok)[r] = DOMAIN runs[r]
               /\ \A j \in DOMAIN runs[r] : Ran(w, ok)[r][j].at = runs[r][j].at
               /\ \A j \in DOMAIN runs[r] \ {k} : Ran(w, ok)[r][j] = runs[r][j]
               /\ Ran(w, ok)[r][k].ran = Append(ran, x)
<1> DEFINE r == work[w].req
           k == work[w].run
           ran == runs[r][k].ran
           x == [sub |-> work[w].next, ok |-> ok]
           e == [runs[r][k] EXCEPT !.ran = Append(runs[r][k].ran, x)]
<1>1. r \in RequestIds /\ k \in DOMAIN runs[r] /\ x \in Result
  BY DEF Inv, Types, Known, Result
<1>2. runs[r] \in Seq(Run) /\ DOMAIN runs[r] = 1 .. Len(runs[r])
  BY <1>1 DEF Inv, Types
<1>3. runs[r][k] \in Run
  BY <1>1, <1>2, ElementOfSeq
<1>4. r \in DOMAIN sent
  <2>1. runs[r] # <<>>
    BY <1>1, <1>2
  <2> QED
    BY <1>1, <2>1 DEF Inv, Known
<1>5. ran \in Seq(Result)
  BY <1>3 DEF Run
<1>6. Append(ran, x) \in Seq(Result)
  BY <1>1, <1>5, AppendProperties
<1>7. Ran(w, ok) = [runs EXCEPT ![r] = [runs[r] EXCEPT ![k] = e]]
  BY DEF Ran
<1>8. e \in Run /\ e.at = runs[r][k].at /\ e.ran = Append(ran, x)
  <2> HIDE DEF x
  <2> QED
    BY <1>3, <1>6 DEF Run
<1> HIDE DEF e, x
<1>9. /\ [runs[r] EXCEPT ![k] = e] \in Seq(Run)
      /\ Len([runs[r] EXCEPT ![k] = e]) = Len(runs[r])
      /\ \A j \in 1 .. Len(runs[r]) : [runs[r] EXCEPT ![k] = e][j] = IF j = k THEN e ELSE runs[r][j]
  <2> HIDE DEF r, k
  <2> QED
    BY <1>1, <1>2, <1>8, ExceptSeq
<1>10. /\ Ran(w, ok) \in [RequestIds -> Seq(Run)]
       /\ Ran(w, ok)[r] = [runs[r] EXCEPT ![k] = e]
       /\ \A q \in RequestIds \ {r} : Ran(w, ok)[q] = runs[q]
  <2> HIDE DEF r, k
  <2> QED
    BY <1>1, <1>7, <1>9 DEF Inv, Types
<1>11. DOMAIN Ran(w, ok)[r] = DOMAIN runs[r]
  BY <1>2, <1>9, <1>10
<1>12. \A j \in DOMAIN runs[r] : Ran(w, ok)[r][j] = IF j = k THEN e ELSE runs[r][j]
  BY <1>2, <1>9, <1>10
<1> HIDE DEF r, k, ran
<1>13. /\ \A j \in DOMAIN runs[r] : Ran(w, ok)[r][j].at = runs[r][j].at
       /\ \A j \in DOMAIN runs[r] \ {k} : Ran(w, ok)[r][j] = runs[r][j]
       /\ Ran(w, ok)[r][k].ran = Append(ran, x)
  BY <1>1, <1>8, <1>12
<1> QED
  BY <1>1, <1>4, <1>5, <1>6, <1>10, <1>11, <1>13 DEF r, k, ran, x

LEMMA RunSubrequestInv ==
    ASSUME Inv, NEW w \in Workers, RunSubrequest(w)
    PROVE  Inv'
<1> DEFINE r == work[w].req
           k == work[w].run
           i == work[w].next
           sub == sent[r].subs[i]
           ok == ~Refused(sub) /\ ~NotModified(sub, sent[r].by, sent[r].since)
           ran == runs[r][k].ran
           x == [sub |-> i, ok |-> ok]
           n == IF ok \/ ~sent[r].sequential THEN i + 1 ELSE Len(sent[r].subs) + 1
<1>1. ok \in BOOLEAN /\ r # None
  BY DEF RunSubrequest
<1>2. /\ runs' = Ran(w, ok)
      /\ work' = [work EXCEPT ![w].next = n]
      /\ i <= Len(sent[r].subs)
      /\ UNCHANGED <<sent, nonces, now>>
  BY DEF RunSubrequest, Advance, netVars, authVars
<1> HIDE DEF ok, n
<1>3. /\ r \in RequestIds /\ r \in DOMAIN sent /\ k \in DOMAIN runs[r]
      /\ ran \in Seq(Result) /\ Append(ran, x) \in Seq(Result)
      /\ runs' \in [RequestIds -> Seq(Run)]
      /\ \A q \in RequestIds \ {r} : runs'[q] = runs[q]
      /\ DOMAIN runs'[r] = DOMAIN runs[r]
      /\ \A j \in DOMAIN runs[r] : runs'[r][j].at = runs[r][j].at
      /\ \A j \in DOMAIN runs[r] \ {k} : runs'[r][j] = runs[r][j]
      /\ runs'[r][k].ran = Append(ran, x)
  <2>1. LET rr == work[w].req
            kk == work[w].run
            rran == runs[rr][kk].ran
            xx == [sub |-> work[w].next, ok |-> ok]
        IN  /\ rr \in RequestIds /\ rr \in DOMAIN sent /\ kk \in DOMAIN runs[rr]
            /\ rran \in Seq(Result) /\ Append(rran, xx) \in Seq(Result)
            /\ Ran(w, ok) \in [RequestIds -> Seq(Run)]
            /\ \A q \in RequestIds \ {rr} : Ran(w, ok)[q] = runs[q]
            /\ DOMAIN Ran(w, ok)[rr] = DOMAIN runs[rr]
            /\ \A j \in DOMAIN runs[rr] : Ran(w, ok)[rr][j].at = runs[rr][j].at
            /\ \A j \in DOMAIN runs[rr] \ {kk} : Ran(w, ok)[rr][j] = runs[rr][j]
            /\ Ran(w, ok)[rr][kk].ran = Append(rran, xx)
    BY <1>1, RanFacts
  <2> QED
    BY <1>2, <2>1
<1>4. i \in Nat /\ Len(sent[r].subs) \in Nat /\ sent[r].sequential \in BOOLEAN
  BY <1>3 DEF Inv, Types
<1>5. n \in Nat
  BY <1>4 DEF n
<1>6. /\ work'[w].req = r /\ work'[w].run = k /\ work'[w].next = n
      /\ \A v \in Workers \ {w} : work'[v] = work[v]
      /\ work' \in [Workers -> [req : RequestIds \cup {None}, run : Nat, next : Nat]]
  BY <1>2, <1>5 DEF Inv, Types
<1>7. Types'
  BY <1>2, <1>3, <1>6 DEF Inv, Types
<1>8. Known'
  <2>1. \A q \in RequestIds : DOMAIN runs'[q] = DOMAIN runs[q]
    BY <1>3
  <2>2. \A q \in RequestIds : runs'[q] # <<>> => q \in DOMAIN sent
    BY <1>3 DEF Inv, Known
  <2>3. \A v \in Workers : work'[v].req = work[v].req /\ work'[v].run = work[v].run
    BY <1>6
  <2>4. \A v \in Workers : work[v].req \in RequestIds \cup {None}
    BY DEF Inv, Types
  <2> QED
    BY <1>2, <2>1, <2>2, <2>3, <2>4 DEF Inv, Known
<1>9. \A q \in RequestIds : /\ DOMAIN runs'[q] = DOMAIN runs[q]
                            /\ \A j \in DOMAIN runs[q] : runs'[q][j].at = runs[q][j].at
  BY <1>3
<1>10. Remembered' /\ RanOnce'
  <2>1. Remembered'
    BY <1>2, <1>9 DEF Inv, Remembered
  <2>2. RanOnce'
    BY <1>2, <1>9 DEF Inv, RanOnce, Types
  <2> QED
    BY <2>1, <2>2
<1>11. /\ i = Len(ran) + 1
       /\ sent[r].sequential => \A j \in DOMAIN ran : ran[j].ok
  BY <1>1, <1>2 DEF Inv, Ordered, Progress
<1>12. /\ Len(Append(ran, x)) = Len(ran) + 1 /\ Len(ran) \in Nat
       /\ DOMAIN Append(ran, x) = 1 .. Len(ran) + 1 /\ DOMAIN ran = 1 .. Len(ran)
       /\ \A j \in 1 .. Len(ran) : Append(ran, x)[j] = ran[j]
       /\ Append(ran, x)[Len(ran) + 1] = x
       /\ x.sub = i /\ x.ok = ok
  <2> HIDE DEF ran
  <2>1. x \in Result
    BY <1>1, <1>4 DEF Result
  <2>2. x.sub = i /\ x.ok = ok
    OBVIOUS
  <2> HIDE DEF x
  <2> QED
    BY <1>3, <2>1, <2>2, AppendProperties
<1> HIDE DEF x
<1>13. ASSUME NEW j \in DOMAIN Append(ran, x)
       PROVE  /\ Append(ran, x)[j].sub = j
              /\ sent[r].sequential /\ ~Append(ran, x)[j].ok => j = Len(Append(ran, x))
  <2> HIDE DEF i
  <2>1. CASE j = Len(ran) + 1
    BY <1>11, <1>12, <2>1
  <2>2. CASE j # Len(ran) + 1
    <3>1. j \in 1 .. Len(ran)
      <4> HIDE DEF ran
      <4> QED
        BY <1>12, <1>13, <2>2
    <3>2. InOrder(r, k)
      BY <1>3 DEF Inv, Ordered
    <3>3. ran[j].sub = j /\ (sent[r].sequential => ran[j].ok)
      BY <1>11, <1>12, <3>1, <3>2 DEF InOrder
    <3> HIDE DEF ran, r
    <3> QED
      BY <1>12, <3>1, <3>3
  <2> QED
    BY <2>1, <2>2
<1>14. Progress(w)'
  <2>1. ASSUME n <= Len(sent[r].subs)
        PROVE  /\ n = Len(Append(ran, x)) + 1
               /\ sent[r].sequential => \A j \in DOMAIN Append(ran, x) : Append(ran, x)[j].ok
    <3>1. (ok \/ ~sent[r].sequential) /\ n = i + 1
      <4>1. CASE ok \/ ~sent[r].sequential
        <5>1. n = i + 1
          BY <4>1 DEF n
        <5> QED BY <4>1, <5>1
      <4>2. CASE ~(ok \/ ~sent[r].sequential)
        <5>1. n = Len(sent[r].subs) + 1
          BY <4>2 DEF n
        <5> HIDE DEF n, r
        <5>2. FALSE
          BY <1>4, <2>1, <5>1
        <5> QED BY <5>2
      <4> QED BY <4>1, <4>2
    <3> HIDE DEF ran, r, i
    <3> QED
      BY <1>11, <1>12, <3>1
  <2>2. /\ work'[w].req = r /\ work'[w].run = k /\ work'[w].next = n
        /\ sent' = sent
        /\ runs'[r][k].ran = Append(ran, x)
    BY <1>2, <1>3, <1>6
  <2> HIDE DEF r, k, i, ran
  <2> QED
    BY <2>1, <2>2 DEF Progress
<1>15. Ordered'
  <2>1. ASSUME NEW q \in DOMAIN sent, NEW j \in DOMAIN runs[q] PROVE InOrder(q, j)'
    <3>0. q \in RequestIds /\ InOrder(q, j)
      BY DEF Inv, Types, Ordered
    <3>1. CASE q = r /\ j = k
      <4>1. runs'[q][j].ran = Append(ran, x) /\ sent' = sent
        BY <1>2, <1>3, <3>1
      <4> HIDE DEF r, k, ran
      <4> QED
        BY <1>13, <3>1, <4>1 DEF InOrder
    <3>2. CASE ~(q = r /\ j = k)
      <4>1. runs'[q][j] = runs[q][j]
        BY <1>3, <3>0, <3>2
      <4> QED
        BY <1>2, <3>0, <4>1 DEF InOrder
    <3> QED
      BY <3>1, <3>2
  <2>2. ASSUME NEW v \in Workers \ {w} PROVE Progress(v)'
    <3>1. work'[v] = work[v] /\ work[v].req \in RequestIds \cup {None} /\ Progress(v)
      BY <1>6 DEF Inv, Types, Ordered
    <3>2. work[v].req # None => runs'[work[v].req][work[v].run] = runs[work[v].req][work[v].run]
      BY <1>1, <1>3, <3>1 DEF Inv, Known
    <3> QED
      BY <1>2, <3>1, <3>2 DEF Progress
  <2>3. \A q \in DOMAIN sent : q \in RequestIds
    BY DEF Inv, Types
  <2> QED
    BY <1>2, <1>9, <1>14, <2>1, <2>2, <2>3 DEF Ordered
<1> QED
  BY <1>7, <1>8, <1>10, <1>15 DEF Inv

\* A worker is done, or all of them are gone.
LEMMA EndInv ==
    ASSUME Inv,
           UNCHANGED <<sent, nonces, runs, now>>,
           \A w \in Workers : work'[w] \in {work[w], Idle},
           work' \in [Workers -> [req : RequestIds \cup {None}, run : Nat, next : Nat]]
    PROVE  Inv'
<1>1. Types' /\ Remembered' /\ RanOnce'
  BY DEF Inv, Types, Remembered, RanOnce
<1>2. \A w \in Workers : work'[w].req # None => work'[w] = work[w]
  BY IdleType
<1>3. Known'
  BY <1>2 DEF Inv, Known
<1>4. \A r \in DOMAIN sent : \A k \in DOMAIN runs[r] : InOrder(r, k)'
  BY DEF Inv, Ordered, InOrder
<1>5. ASSUME NEW w \in Workers PROVE Progress(w)'
  <2>1. CASE work'[w] = work[w]
    BY <2>1 DEF Inv, Ordered, Progress
  <2>2. CASE work'[w].req = None
    BY <2>2 DEF Progress
  <2> QED
    BY <1>2, <2>1, <2>2
<1>6. Ordered'
  BY <1>4, <1>5 DEF Ordered
<1> QED
  BY <1>1, <1>3, <1>6 DEF Inv

\* A nonce that goes has been remembered for its day.
LEMMA CleanupInv ==
    ASSUME Inv, Cleanup
    PROVE  Inv'
<1>1. UNCHANGED <<sent, work, runs, now>>
  BY DEF Cleanup, netVars, workVars
<1>2. /\ DOMAIN nonces' \subseteq DOMAIN nonces
      /\ \A r \in DOMAIN nonces' : nonces'[r] = nonces[r]
      /\ \A r \in DOMAIN nonces \ DOMAIN nonces' : nonces[r] < now
  BY DEF Cleanup, ExpireNonces, Inv, Types
<1>3. Types' /\ Known' /\ RanOnce' /\ Ordered'
  BY <1>1, <1>2 DEF Inv, Types, Known, RanOnce, Ordered, InOrder, Progress
<1>4. Remembered'
  <2> SUFFICES ASSUME NEW r \in RequestIds, NEW k \in DOMAIN runs[r]
               PROVE  /\ sent[r].at <= runs[r][k].at + Window
                      /\ (r \in DOMAIN nonces' /\ nonces'[r] >= runs[r][k].at + Window)
                           \/ now > runs[r][k].at + Window
    BY <1>1 DEF Remembered
  <2>1. runs[r][k].at \in Nat
    <3>1. runs[r] \in Seq(Run) /\ DOMAIN runs[r] = 1 .. Len(runs[r])
      BY DEF Inv, Types
    <3>2. runs[r][k] \in Run
      BY <3>1, ElementOfSeq
    <3> QED
      BY <3>2 DEF Run
  <2>2. /\ sent[r].at <= runs[r][k].at + Window
        /\ (r \in DOMAIN nonces /\ nonces[r] >= runs[r][k].at + Window)
             \/ now > runs[r][k].at + Window
    BY DEF Inv, Remembered
  <2>3. now \in Nat /\ (r \in DOMAIN nonces => nonces[r] \in Nat)
    BY DEF Inv, Types
  <2> QED
    BY <1>2, <2>1, <2>2, <2>3
<1> QED
  BY <1>3, <1>4 DEF Inv

LEMMA TickInv ==
    ASSUME Inv, TickTime
    PROVE  Inv'
<1>1. now' = now + 1 /\ UNCHANGED <<sent, nonces, work, runs>> /\ now \in Nat
  BY DEF TickTime, netVars, authVars, workVars, Inv, Types
<1>2. Types' /\ Known' /\ RanOnce' /\ Ordered'
  BY <1>1 DEF Inv, Types, Known, RanOnce, Ordered, InOrder, Progress
<1>3. Remembered'
  <2> SUFFICES ASSUME NEW r \in RequestIds, NEW k \in DOMAIN runs[r]
               PROVE  /\ sent[r].at <= runs[r][k].at + Window
                      /\ (r \in DOMAIN nonces /\ nonces[r] >= runs[r][k].at + Window)
                           \/ now + 1 > runs[r][k].at + Window
    BY <1>1 DEF Remembered
  <2>1. runs[r][k].at \in Nat
    <3>1. runs[r] \in Seq(Run) /\ DOMAIN runs[r] = 1 .. Len(runs[r])
      BY DEF Inv, Types
    <3>2. runs[r][k] \in Run
      BY <3>1, ElementOfSeq
    <3> QED
      BY <3>2 DEF Run
  <2> QED
    BY <1>1, <2>1 DEF Inv, Remembered
<1> QED
  BY <1>2, <1>3 DEF Inv

LEMMA NextInv ==
    ASSUME Inv, [RequestsNext]_requestVars
    PROVE  Inv'
<1>0. ASSUME UNCHANGED <<sent, nonces, work, runs, now>> PROVE Inv'
  BY <1>0, EndInv DEF Inv, Types
<1>1. CASE \E u \in Users, r \in RequestIds : \E body \in Bodies[u] : Sign(u, r, body)
  BY <1>1, SignInv
<1>2. CASE \E u \in Users : Ban(u)
  BY <1>2, <1>0 DEF Ban, netVars, workVars
<1>3. CASE \E w \in Workers, r \in RequestIds : Authenticate(w, r)
  BY <1>3, AuthenticateInv
<1>4. CASE \E w \in Workers : RunSubrequest(w)
  BY <1>4, RunSubrequestInv
<1>5. CASE \E w \in Workers : Answer(w)
  <2>1. PICK w \in Workers : Answer(w)
    BY <1>5
  <2>2. /\ work' = [work EXCEPT ![w] = Idle]
        /\ UNCHANGED <<sent, nonces, runs, now>>
    BY <2>1 DEF Answer, authVars
  <2> QED
    BY <2>2, IdleType, EndInv DEF Inv, Types
<1>6. CASE Cleanup
  BY <1>6, CleanupInv
<1>7. CASE TickTime
  BY <1>7, TickInv
<1>8. CASE Restart
  <2>1. /\ work' = [w \in Workers |-> Idle]
        /\ UNCHANGED <<sent, nonces, runs, now>>
    BY <1>8 DEF Restart, netVars, authVars
  <2> QED
    BY <2>1, IdleType, EndInv
<1>9. CASE UNCHANGED requestVars
  BY <1>9, <1>0 DEF requestVars, netVars, authVars, workVars
<1> QED
  BY <1>1, <1>2, <1>3, <1>4, <1>5, <1>6, <1>7, <1>8, <1>9 DEF RequestsNext

-----------------------------------------------------------------------------
(* Theorems.                                                                 *)

\* What nonces remember, and in which order subrequests run.
THEOREM InvHolds == RequestsSpec => []Inv
<1>1. Inv /\ [RequestsNext]_requestVars => Inv'
  BY NextInv
<1> QED
  BY InitInv, <1>1, PTL DEF RequestsSpec

\* However often a request arrives, it is let in once, or if its timestamp was ahead of
\* the server's clock then, once more when it is not any more (handle_http_auth).
THEOREM NothingRunsTwice == RequestsSpec => []RanOnce
<1>1. Inv => RanOnce
  BY DEF Inv
<1> QED
  BY InvHolds, <1>1, PTL

\* Nothing runs after a failure in a sequence, and nothing is skipped before it
\* (POST /sequence).
THEOREM SequencesEnd == RequestsSpec => []SequencesStop
<1>1. Inv => SequencesStop
  BY DEF Inv, Ordered, InOrder, SequencesStop
<1> QED
  BY InvHolds, <1>1, PTL

-----------------------------------------------------------------------------
(* The inbox.                                                                *)

InboxTypes ==
    /\ work \in [Workers -> [req : RequestIds \cup {None}, run : Nat, next : Nat \ {0}]]
    /\ DOMAIN sent \subseteq RequestIds
    /\ \A r \in DOMAIN sent :
         /\ sent[r].by \in Users /\ sent[r].since \in Nat
         /\ Len(sent[r].subs) \in Nat
         /\ \A i \in 1 .. Len(sent[r].subs) :
              sent[r].subs[i].do = "send" => sent[r].subs[i].to \in Users
    /\ waiting \in [Users -> RequestIds \cup {None}]
    /\ seen \in [Users -> Nat]
    /\ DOMAIN got = Users
    /\ DOMAIN rows = Workers
    /\ \A i \in DOMAIN inbox : inbox[i].to \in Users

\* Ids are given one after the other: one that has not been given is above all that have.
IdsGiven ==
    /\ \E n \in Nat : given = 1 .. n
    /\ DOMAIN inbox \subseteq given
    /\ \A u \in Users : seen[u] \in given \cup {0}
    /\ \A w \in Workers : DOMAIN rows[w] \subseteq given

\* Who waits has received nothing since it asked.
WaitsFromSeen ==
    \A u \in Users : waiting[u] # None =>
        /\ waiting[u] \in DOMAIN sent
        /\ sent[waiting[u]].by = u /\ sent[waiting[u]].since = seen[u]

\* Up to the last row of an answer, nothing that came after what was asked from is left
\* out, but under an id used again.
AnswerIsFull(w) ==
    LET r == work[w].req
    IN  r # None =>
          /\ r \in DOMAIN sent
          /\ \A i \in DOMAIN inbox, j \in DOMAIN rows[w] :
               inbox[i].to = sent[r].by /\ sent[r].since < i /\ i <= j =>
                   \/ i \in DOMAIN rows[w] /\ rows[w][i] = inbox[i].msg
                   \/ i \in reused

InboxInv ==
    /\ InboxTypes /\ IdsGiven /\ WaitsFromSeen
    /\ \A w \in Workers : AnswerIsFull(w)
    /\ OnlyReusedMissed

-----------------------------------------------------------------------------
(* Numbers.                                                                  *)

\* A set of numbers up to a bound, if not empty, has a greatest one.
LEMMA LargestFacts ==
    ASSUME NEW S \in SUBSET Nat, NEW n \in Nat, \A i \in S : i <= n
    PROVE  /\ Largest(S) \in S \cup {0}
           /\ \A i \in S : i <= Largest(S)
           /\ Largest(S) <= n
<1>1. CASE S = {}
  BY <1>1 DEF Largest
<1>2. CASE S # {}
  <2> DEFINE gaps == {g \in Nat : n - g \in S}
  <2>1. \A i \in S : n - i \in gaps /\ n - (n - i) = i
    OBVIOUS
  <2>2. gaps \in SUBSET Nat /\ gaps # {}
    BY <1>2, <2>1
  <2>3. PICK g \in gaps : \A h \in gaps : ~ (<<h, g>> \in OpToRel(<, Nat))
    <3> HIDE DEF gaps, OpToRel, IsWellFoundedOn
    <3> QED BY <2>2, NatLessThanWellFounded, WFMin, Zenon
  <2>4. \A h \in gaps : g <= h
    <3> HIDE DEF gaps
    <3>1. \A h \in gaps : ~ (h < g)
      BY <2>2, <2>3 DEF OpToRel
    <3> QED BY <2>2, <3>1
  <2>5. n - g \in S /\ \A i \in S : n - g >= i
    BY <2>1, <2>4
  <2>6. \E x \in S : \A y \in S : x >= y
    BY <2>5
  <2>7. Max(S) \in S /\ \A y \in S : Max(S) >= y
    BY <2>6, Zenon DEF Max
  <2>8. Largest(S) = Max(S)
    BY <1>2 DEF Largest
  <2>9. Max(S) \in Nat /\ Max(S) <= n
    BY <2>7
  <2> HIDE DEF gaps
  <2> QED BY <2>7, <2>8, <2>9
<1> QED BY <1>1, <1>2

\* An id that has not been given is the next one, above all that have.
LEMMA NextIdFacts ==
    ASSUME IdsGiven, NEW n \in Nat, given = 1 .. n
    PROVE  /\ NextMessageId \in 1 .. n + 1
           /\ given \cup {NextMessageId} = IF NextMessageId \in given THEN 1 .. n ELSE 1 .. n + 1
           /\ NextMessageId \notin given => \A i \in given \cup {0} : i < NextMessageId
<1>1. DOMAIN inbox \in SUBSET Nat /\ \A i \in DOMAIN inbox : i <= n
  BY DEF IdsGiven
<1>2. Largest(DOMAIN inbox) \in Nat /\ Largest(DOMAIN inbox) <= n
  BY <1>1, LargestFacts
<1>3. NextMessageId \in 1 .. n + 1
  BY <1>2 DEF NextMessageId
<1> QED BY <1>3

\* A page is the ids from the lowest one on.
LEMMA PageFacts ==
    ASSUME IdsGiven, NEW u, NEW since \in Nat
    PROVE  /\ Page(u, since) \subseteq InboxOf(u)
           /\ \A i \in InboxOf(u), j \in Page(u, since) : since < i /\ i <= j => i \in Page(u, since)
<1> DEFINE ids == {i \in InboxOf(u) : i > since}
<1>1. Page(u, since) = {i \in ids : Cardinality({j \in ids : j < i}) < Limit}
  BY DEF Page
<1>2. PICK n \in Nat : given = 1 .. n
  BY DEF IdsGiven
<1>3. ids \in SUBSET (1 .. n)
  BY <1>2 DEF IdsGiven, InboxOf
<1>4. IsFiniteSet(ids)
  <2>1. IsFiniteSet(1 .. n)
    BY FS_Interval
  <2> HIDE DEF ids
  <2> QED BY <1>3, <2>1, FS_Subset
<1>5. ASSUME NEW i \in ids, NEW j \in ids, i <= j, Cardinality({k \in ids : k < j}) < Limit
      PROVE  Cardinality({k \in ids : k < i}) < Limit
  <2>1. \A k \in ids : k \in Nat
    BY <1>3
  <2> HIDE DEF ids
  <2>2. {k \in ids : k < i} \in SUBSET {k \in ids : k < j}
    BY <1>5, <2>1
  <2>3. {k \in ids : k < j} \in SUBSET ids
    OBVIOUS
  <2>4. IsFiniteSet({k \in ids : k < j})
    BY <1>4, <2>3, FS_Subset
  <2>5. Cardinality({k \in ids : k < i}) <= Cardinality({k \in ids : k < j})
    BY <2>2, <2>4, FS_Subset
  <2>6. Cardinality({k \in ids : k < i}) \in Nat /\ Cardinality({k \in ids : k < j}) \in Nat
    BY <2>2, <2>4, FS_Subset, FS_CardinalityType
  <2> QED BY <1>5, <2>5, <2>6
<1>6. Page(u, since) \subseteq InboxOf(u)
  BY <1>1
<1>7. ASSUME NEW i \in InboxOf(u), NEW j \in Page(u, since), since < i, i <= j
      PROVE  i \in Page(u, since)
  <2>1. i \in ids /\ j \in ids /\ Cardinality({k \in ids : k < j}) < Limit
    BY <1>1, <1>2, <1>7 DEF IdsGiven, InboxOf
  <2>2. Cardinality({k \in ids : k < i}) < Limit
    BY <1>5, <1>7, <2>1
  <2> QED BY <1>1, <2>1, <2>2
<1> QED BY <1>6, <1>7

-----------------------------------------------------------------------------
(* The steps.                                                                *)

LEMMA InboxInitInv == RequestsInit => InboxInv
<1> SUFFICES ASSUME RequestsInit PROVE InboxInv
  OBVIOUS
<1>1. InboxTypes
  BY DEF RequestsInit, InboxTypes, Idle
<1>2. IdsGiven
  <2>1. given = 1 .. 0
    BY DEF RequestsInit
  <2>2. \E n \in Nat : given = 1 .. n
    BY <2>1
  <2>3. DOMAIN <<>> = {}
    OBVIOUS
  <2> QED BY <2>2, <2>3 DEF RequestsInit, IdsGiven
<1>3. WaitsFromSeen /\ (\A w \in Workers : AnswerIsFull(w)) /\ OnlyReusedMissed
  BY DEF RequestsInit, WaitsFromSeen, AnswerIsFull, OnlyReusedMissed, Idle
<1> QED BY <1>1, <1>2, <1>3 DEF InboxInv

\* Messages may go, workers begin with nothing to answer or stop; nothing is received.
LEMMA QuietStep ==
    ASSUME InboxInv,
           UNCHANGED <<sent, waiting, seen, got, given, reused>>,
           DOMAIN inbox' \subseteq DOMAIN inbox,
           \A i \in DOMAIN inbox' : inbox'[i] = inbox[i],
           work' \in [Workers -> [req : RequestIds \cup {None}, run : Nat, next : Nat \ {0}]],
           DOMAIN rows' = Workers,
           \A w \in Workers :
               \/ rows'[w] = rows[w] /\ work'[w].req = work[w].req
               \/ rows'[w] = <<>> /\ work'[w].req \in DOMAIN sent \cup {None}
    PROVE  InboxInv'
<1>1. InboxTypes'
  BY DEF InboxInv, InboxTypes
<1>2. IdsGiven'
  <2>1. \A w \in Workers : DOMAIN rows'[w] \subseteq given
    <3>1. DOMAIN <<>> = {}
      OBVIOUS
    <3> QED BY <3>1 DEF InboxInv, IdsGiven
  <2> QED BY <2>1 DEF InboxInv, IdsGiven
<1>3. WaitsFromSeen'
  BY DEF InboxInv, WaitsFromSeen
<1>4. ASSUME NEW w \in Workers PROVE AnswerIsFull(w)'
  <2>1. CASE rows'[w] = rows[w] /\ work'[w].req = work[w].req
    BY <2>1 DEF InboxInv, AnswerIsFull
  <2>2. CASE rows'[w] = <<>> /\ work'[w].req \in DOMAIN sent \cup {None}
    BY <2>2 DEF AnswerIsFull
  <2> QED BY <2>1, <2>2
<1>5. OnlyReusedMissed'
  BY DEF InboxInv, OnlyReusedMissed
<1> QED BY <1>1, <1>2, <1>3, <1>4, <1>5 DEF InboxInv

\* Who asks waits for what comes after the last message it has.
LEMMA SignInbox ==
    ASSUME InboxInv, NEW u \in Users, NEW r \in RequestIds, NEW body \in Bodies[u],
           Sign(u, r, body)
    PROVE  InboxInv'
<1>1. /\ r \notin DOMAIN sent
      /\ DOMAIN sent' = DOMAIN sent \cup {r}
      /\ \A q \in DOMAIN sent : sent'[q] = sent[q]
      /\ sent'[r].by = u /\ sent'[r].since = seen[u] /\ sent'[r].subs = body.subs
      /\ waiting' = [waiting EXCEPT ![u] = r]
      /\ UNCHANGED <<inbox, given, reused, seen, got, work, rows>>
  BY DEF Sign, inboxVars, clientVars, workVars
<1>2. /\ Len(body.subs) \in Nat
      /\ \A i \in 1 .. Len(body.subs) : body.subs[i].do = "send" => body.subs[i].to \in Users
  OBVIOUS
<1>3. InboxTypes'
  BY <1>1, <1>2 DEF InboxInv, InboxTypes
<1>4. IdsGiven'
  BY <1>1 DEF InboxInv, IdsGiven
<1>5. WaitsFromSeen'
  <2>1. \A v \in Users : waiting'[v] = IF v = u THEN r ELSE waiting[v]
    BY <1>1 DEF InboxInv, InboxTypes
  <2> QED BY <1>1, <2>1 DEF InboxInv, WaitsFromSeen
<1>6. \A w \in Workers : AnswerIsFull(w)'
  BY <1>1 DEF InboxInv, AnswerIsFull
<1>7. OnlyReusedMissed'
  BY <1>1 DEF InboxInv, OnlyReusedMissed
<1> QED BY <1>3, <1>4, <1>5, <1>6, <1>7 DEF InboxInv

\* A message that comes is above all that was received or is being sent, or has an id
\* used again.
LEMMA SendStep ==
    ASSUME InboxInv, NEW sub, NEW r, NEW i, SendInbox(sub, r, i), sub.to \in Users,
           UNCHANGED <<sent, waiting, seen, got, rows>>,
           work' \in [Workers -> [req : RequestIds \cup {None}, run : Nat, next : Nat \ {0}]],
           \A w \in Workers : work'[w].req = work[w].req
    PROVE  InboxInv'
<1> DEFINE id == NextMessageId
<1>1. PICK n \in Nat : given = 1 .. n
  BY DEF InboxInv, IdsGiven
<1>2. /\ id \in 1 .. n + 1
      /\ given \cup {id} = IF id \in given THEN 1 .. n ELSE 1 .. n + 1
      /\ id \notin given => \A j \in given \cup {0} : j < id
  BY <1>1, NextIdFacts DEF InboxInv
<1>3. /\ DOMAIN inbox' = DOMAIN inbox \cup {id}
      /\ \A j \in DOMAIN inbox \ {id} : inbox'[j] = inbox[j]
      /\ inbox'[id].to = sub.to
      /\ given' = given \cup {id}
      /\ reused' = reused \cup ({id} \cap given)
  BY DEF SendInbox
<1> HIDE DEF id
<1>4. InboxTypes'
  BY <1>3 DEF InboxInv, InboxTypes
<1>5. IdsGiven'
  <2>1. \E k \in Nat : given' = 1 .. k
    <3>1. n + 1 \in Nat
      OBVIOUS
    <3> QED BY <1>2, <1>3, <3>1
  <2> QED BY <1>3, <2>1 DEF InboxInv, IdsGiven
<1>6. WaitsFromSeen'
  BY DEF InboxInv, WaitsFromSeen
<1>7. ASSUME NEW w \in Workers, work'[w].req # None,
             NEW k \in DOMAIN inbox', NEW j \in DOMAIN rows[w],
             inbox'[k].to = sent[work[w].req].by, sent[work[w].req].since < k, k <= j
      PROVE  \/ k \in DOMAIN rows[w] /\ rows[w][k] = inbox'[k].msg
             \/ k \in reused'
  <2>1. CASE k = id
    <3>1. j \in given /\ j \in Nat /\ id \in Nat
      BY <1>1, <1>2 DEF InboxInv, IdsGiven
    <3>2. id \in given
      BY <1>2, <1>7, <2>1, <3>1
    <3> QED BY <1>3, <2>1, <3>2
  <2>2. CASE k # id
    BY <1>3, <1>7, <2>2 DEF InboxInv, AnswerIsFull
  <2> QED BY <2>1, <2>2
<1>8. \A w \in Workers : AnswerIsFull(w)'
  BY <1>7 DEF InboxInv, AnswerIsFull
<1>9. OnlyReusedMissed'
  <2> SUFFICES ASSUME NEW k \in DOMAIN inbox', k <= seen[inbox'[k].to]
               PROVE  inbox'[k].msg \in got[inbox'[k].to] \/ k \in reused'
    BY DEF OnlyReusedMissed
  <2>1. CASE k = id
    <3>1. seen[sub.to] \in given \cup {0} /\ seen[sub.to] \in Nat /\ id \in Nat
      BY <1>2 DEF InboxInv, IdsGiven, InboxTypes
    <3>2. id \in given
      BY <1>2, <1>3, <2>1, <3>1
    <3> QED BY <1>3, <2>1, <3>2
  <2>2. CASE k # id
    BY <1>3, <2>2 DEF InboxInv, OnlyReusedMissed
  <2> QED BY <2>1, <2>2
<1> QED BY <1>4, <1>5, <1>6, <1>8, <1>9 DEF InboxInv

\* A poll finds all that came after what was asked from, from the lowest id on.
LEMMA PollStep ==
    ASSUME InboxInv, NEW w \in Workers, work[w].req # None,
           rows' = [rows EXCEPT ![w] =
               [j \in Page(sent[work[w].req].by, sent[work[w].req].since) |-> inbox[j].msg]],
           sent[work[w].req].since \in Nat,
           UNCHANGED <<sent, waiting, seen, got, inbox, given, reused>>,
           work' \in [Workers -> [req : RequestIds \cup {None}, run : Nat, next : Nat \ {0}]],
           \A v \in Workers : work'[v].req = work[v].req
    PROVE  InboxInv'
<1> DEFINE u == sent[work[w].req].by
           since == sent[work[w].req].since
<1>1. /\ DOMAIN rows' = Workers
      /\ \A v \in Workers \ {w} : rows'[v] = rows[v]
      /\ rows'[w] = [j \in Page(u, since) |-> inbox[j].msg]
  BY DEF InboxInv, InboxTypes
<1>2. /\ Page(u, since) \subseteq InboxOf(u)
      /\ \A i \in InboxOf(u), j \in Page(u, since) : since < i /\ i <= j => i \in Page(u, since)
  BY PageFacts DEF InboxInv
<1>3. InboxTypes'
  BY <1>1 DEF InboxInv, InboxTypes
<1>4. IdsGiven'
  <2>1. DOMAIN rows'[w] \subseteq given
    BY <1>1, <1>2 DEF InboxInv, IdsGiven, InboxOf
  <2> QED BY <1>1, <2>1 DEF InboxInv, IdsGiven
<1>5. WaitsFromSeen'
  BY DEF InboxInv, WaitsFromSeen
<1>6. AnswerIsFull(w)'
  <2>1. work[w].req \in DOMAIN sent
    BY DEF InboxInv, AnswerIsFull
  <2>2. ASSUME NEW i \in DOMAIN inbox, NEW j \in DOMAIN rows'[w], inbox[i].to = u, since < i, i <= j
        PROVE  i \in DOMAIN rows'[w] /\ rows'[w][i] = inbox[i].msg
    BY <1>1, <1>2, <2>2 DEF InboxOf
  <2> QED BY <2>1, <2>2 DEF AnswerIsFull
<1>7. ASSUME NEW v \in Workers \ {w} PROVE AnswerIsFull(v)'
  <2>1. AnswerIsFull(v) /\ rows'[v] = rows[v] /\ work'[v].req = work[v].req
    BY <1>1 DEF InboxInv
  <2> HIDE DEF u, since
  <2> QED BY <2>1 DEF AnswerIsFull
<1>8. OnlyReusedMissed'
  BY DEF InboxInv, OnlyReusedMissed
<1> QED BY <1>3, <1>4, <1>5, <1>6, <1>7, <1>8 DEF InboxInv

LEMMA SubrequestInbox ==
    ASSUME InboxInv, NEW w \in Workers, RunSubrequest(w)
    PROVE  InboxInv'
<1> DEFINE r == work[w].req
           i == work[w].next
           sub == sent[r].subs[i]
           u == sent[r].by
           ok == ~Refused(sub) /\ ~NotModified(sub, u, sent[r].since)
<1>1. /\ r \in DOMAIN sent /\ r # None
      /\ i \in 1 .. Len(sent[r].subs) /\ Len(sent[r].subs) \in Nat
  <2>1. r # None /\ i <= Len(sent[r].subs)
    BY DEF RunSubrequest
  <2>2. r \in DOMAIN sent
    BY <2>1 DEF InboxInv, AnswerIsFull
  <2>3. Len(sent[r].subs) \in Nat
    BY <2>2 DEF InboxInv, InboxTypes
  <2>4. work[w] \in [req : RequestIds \cup {None}, run : Nat, next : Nat \ {0}]
    BY DEF InboxInv, InboxTypes
  <2>5. i \in Nat \ {0}
    BY <2>4
  <2> HIDE DEF r, i
  <2> QED BY <2>1, <2>2, <2>3, <2>5
<1>2. UNCHANGED <<sent, waiting, seen, got>>
  BY DEF RunSubrequest, netVars, clientVars
<1>3. /\ work' \in [Workers -> [req : RequestIds \cup {None}, run : Nat, next : Nat \ {0}]]
      /\ \A v \in Workers : work'[v].req = work[v].req
  <2>1. work' = [work EXCEPT ![w].next =
            IF ok \/ ~sent[r].sequential THEN i + 1 ELSE Len(sent[r].subs) + 1]
    BY DEF RunSubrequest, Advance
  <2>2. \A v \in Workers :
            /\ work[v] \in [req : RequestIds \cup {None}, run : Nat, next : Nat \ {0}]
            /\ work'[v] \in [req : RequestIds \cup {None}, run : Nat, next : Nat \ {0}]
            /\ work'[v].req = work[v].req
    <3>1. work \in [Workers -> [req : RequestIds \cup {None}, run : Nat, next : Nat \ {0}]]
      BY DEF InboxInv, InboxTypes
    <3> DEFINE next == IF ok \/ ~sent[r].sequential THEN i + 1 ELSE Len(sent[r].subs) + 1
    <3>2. next \in Nat \ {0}
      BY <1>1
    <3>3. work' = [work EXCEPT ![w].next = next]
      BY <2>1
    <3> HIDE DEF next, r, i, ok
    <3> QED BY <3>1, <3>2, <3>3
  <2>3. work' = [v \in Workers |-> work'[v]]
    BY <2>1 DEF InboxInv, InboxTypes
  <2> QED BY <2>2, <2>3
<1>4. CASE SendInbox(sub, r, i) /\ UNCHANGED rows
  <2>1. sub.to \in Users
    BY <1>1, <1>4 DEF SendInbox, InboxInv, InboxTypes
  <2> HIDE DEF sub, r, i
  <2> QED BY <1>2, <1>3, <1>4, <2>1, SendStep
<1>5. CASE DeleteInbox(sub, u) /\ UNCHANGED rows
  BY <1>2, <1>3, <1>5, QuietStep DEF DeleteInbox, InboxInv, InboxTypes
<1>6. CASE /\ sub.do = "poll"
           /\ rows' = [rows EXCEPT ![w] = [j \in Page(u, sent[r].since) |-> inbox[j].msg]]
           /\ UNCHANGED inboxVars
  <2>1. sent[r].since \in Nat
    BY <1>1 DEF InboxInv, InboxTypes
  <2> QED BY <1>1, <1>2, <1>3, <1>6, <2>1, PollStep DEF inboxVars
<1>7. CASE Refused(sub) /\ UNCHANGED <<rows, inboxVars>>
  BY <1>2, <1>3, <1>7, QuietStep DEF InboxInv, InboxTypes, inboxVars
<1> QED BY <1>4, <1>5, <1>6, <1>7 DEF RunSubrequest

\* An answer that is waited for was asked from what its client has now.
LEMMA AnswerInbox ==
    ASSUME InboxInv, NEW w \in Workers, Answer(w)
    PROVE  InboxInv'
<1> DEFINE r == work[w].req
           u == sent[r].by
<1>1. /\ r # None /\ r \in DOMAIN sent /\ u \in Users
      /\ work' = [work EXCEPT ![w] = Idle]
      /\ rows' = [rows EXCEPT ![w] = <<>>]
      /\ UNCHANGED <<sent, inbox, given, reused>>
  BY DEF Answer, inboxVars, InboxInv, InboxTypes, AnswerIsFull
<1>2. /\ work' \in [Workers -> [req : RequestIds \cup {None}, run : Nat, next : Nat \ {0}]]
      /\ DOMAIN rows' = Workers
      /\ rows'[w] = <<>> /\ work'[w].req = None
      /\ \A v \in Workers \ {w} : rows'[v] = rows[v] /\ work'[v] = work[v]
  BY <1>1 DEF Idle, InboxInv, InboxTypes
<1>3. CASE UNCHANGED <<clientVars, waiting>>
  BY <1>1, <1>2, <1>3, QuietStep DEF clientVars
<1>4. CASE /\ waiting[u] = r
           /\ got' = [got EXCEPT ![u] = @ \cup {rows[w][i] : i \in DOMAIN rows[w]}]
           /\ seen' = [seen EXCEPT ![u] = Largest({@} \cup DOMAIN rows[w])]
           /\ waiting' = [waiting EXCEPT ![u] = None]
  <2> DEFINE ids == {seen[u]} \cup DOMAIN rows[w]
             top == Largest(ids)
  <2>1. seen[u] \in Nat /\ sent[r].since = seen[u]
    BY <1>1, <1>4 DEF InboxInv, InboxTypes, WaitsFromSeen
  <2>2. PICK n \in Nat : given = 1 .. n
    BY DEF InboxInv, IdsGiven
  <2>3. ids \in SUBSET Nat /\ (\A i \in ids : i <= n) /\ ids \subseteq given \cup {0}
    BY <1>1, <2>2 DEF InboxInv, IdsGiven
  <2>4. top \in ids \cup {0} /\ \A i \in ids : i <= top
    <3> HIDE DEF ids
    <3> QED BY <2>2, <2>3, LargestFacts
  <2>5. top \in Nat /\ top \in given \cup {0} /\ seen[u] <= top
    <3> HIDE DEF top
    <3> QED BY <2>3, <2>4
  <2>6. /\ seen' = [seen EXCEPT ![u] = top]
        /\ got'[u] = got[u] \cup {rows[w][i] : i \in DOMAIN rows[w]}
        /\ \A v \in Users \ {u} : got'[v] = got[v]
        /\ DOMAIN got' = Users
    BY <1>1, <1>4 DEF InboxInv, InboxTypes
  <2>7. top = seen[u] \/ top \in DOMAIN rows[w]
    <3> HIDE DEF top
    <3> QED BY <2>1, <2>4, <2>5
  <2> HIDE DEF top, ids
  <2>8. /\ \A v \in Users : seen'[v] = IF v = u THEN top ELSE seen[v]
        /\ \A v \in Users : waiting'[v] = IF v = u THEN None ELSE waiting[v]
    <3>1. DOMAIN seen = Users /\ DOMAIN waiting = Users
      BY DEF InboxInv, InboxTypes
    <3>2. waiting' = [waiting EXCEPT ![u] = None]
      BY <1>4
    <3> HIDE DEF u, r
    <3> QED BY <2>6, <3>1, <3>2
  <2>9. InboxTypes'
    BY <1>1, <1>2, <1>4, <2>5, <2>6 DEF InboxInv, InboxTypes
  <2>10. IdsGiven'
    <3>1. \A v \in Users : seen'[v] \in given \cup {0}
      BY <2>5, <2>8 DEF InboxInv, IdsGiven
    <3>2. \A v \in Workers : DOMAIN rows'[v] \subseteq given
      <4>1. DOMAIN <<>> = {}
        OBVIOUS
      <4> QED BY <1>2, <4>1 DEF InboxInv, IdsGiven
    <3> QED BY <1>1, <3>1, <3>2 DEF InboxInv, IdsGiven
  <2>11. WaitsFromSeen'
    BY <1>1, <2>8 DEF InboxInv, WaitsFromSeen
  <2>12. \A v \in Workers : AnswerIsFull(v)'
    BY <1>1, <1>2 DEF InboxInv, AnswerIsFull
  <2>13. OnlyReusedMissed'
    <3> SUFFICES ASSUME NEW i \in DOMAIN inbox, i <= seen'[inbox[i].to]
                 PROVE  inbox[i].msg \in got'[inbox[i].to] \/ i \in reused
      BY <1>1 DEF OnlyReusedMissed
    <3>0. inbox[i].to \in Users /\ i \in Nat
      BY <2>2 DEF InboxInv, InboxTypes, IdsGiven
    <3>1. CASE inbox[i].to # u
      BY <2>6, <2>8, <3>0, <3>1 DEF InboxInv, OnlyReusedMissed
    <3>2. CASE inbox[i].to = u /\ i <= seen[u]
      BY <2>6, <3>2 DEF InboxInv, OnlyReusedMissed
    <3>3. CASE inbox[i].to = u /\ ~ (i <= seen[u])
      <4>1. sent[r].since < i /\ i <= top /\ top \in DOMAIN rows[w]
        BY <2>1, <2>7, <2>8, <3>0, <3>3
      <4>2. (i \in DOMAIN rows[w] /\ rows[w][i] = inbox[i].msg) \/ i \in reused
        BY <1>1, <3>3, <4>1 DEF InboxInv, AnswerIsFull
      <4> QED BY <2>6, <3>3, <4>2
    <3> QED BY <3>1, <3>2, <3>3
  <2> QED BY <2>9, <2>10, <2>11, <2>12, <2>13 DEF InboxInv
<1> QED BY <1>3, <1>4 DEF Answer

LEMMA InboxNextInv ==
    ASSUME Inv', InboxInv, [RequestsNext]_requestVars
    PROVE  InboxInv'
<1>0. ASSUME UNCHANGED <<sent, waiting, seen, got, given, reused, inbox, work, rows>>
      PROVE  InboxInv'
  BY <1>0, QuietStep DEF InboxInv, InboxTypes
<1>1. CASE \E u \in Users, r \in RequestIds : \E body \in Bodies[u] : Sign(u, r, body)
  BY <1>1, SignInbox
<1>2. CASE \E u \in Users : Ban(u)
  BY <1>2, <1>0 DEF Ban, netVars, inboxVars, clientVars, workVars
<1>3. CASE \E w \in Workers, r \in RequestIds : Authenticate(w, r)
  <2>1. PICK w \in Workers, r \in RequestIds : Authenticate(w, r)
    BY <1>3
  <2>2. /\ r \in DOMAIN sent
        /\ work' = [work EXCEPT ![w] = [req |-> r, run |-> Len(runs'[r]), next |-> 1]]
        /\ rows' = [rows EXCEPT ![w] = <<>>]
        /\ UNCHANGED <<sent, waiting, seen, got, given, reused, inbox>>
    <3>1. r \in DOMAIN sent
      BY <2>1 DEF Authenticate
    <3>2. work' = [work EXCEPT ![w] = [req |-> r, run |-> Len(runs'[r]), next |-> 1]]
      BY <2>1 DEF Authenticate
    <3>3. rows' = [rows EXCEPT ![w] = <<>>]
      BY <2>1 DEF Authenticate
    <3>4. UNCHANGED netVars /\ UNCHANGED inboxVars /\ UNCHANGED clientVars
      BY <2>1 DEF Authenticate
    <3>5. UNCHANGED <<sent, waiting, seen, got, given, reused, inbox>>
      BY <3>4 DEF netVars, inboxVars, clientVars
    <3> QED BY <3>1, <3>2, <3>3, <3>5
  <2>3. Len(runs'[r]) \in Nat
    BY DEF Inv, Types
  <2> DEFINE Work == [req : RequestIds \cup {None}, run : Nat, next : Nat \ {0}]
             started == [req |-> r, run |-> Len(runs'[r]), next |-> 1]
  <2>4. /\ work \in [Workers -> Work] /\ DOMAIN rows = Workers /\ r \in RequestIds
        /\ None \notin RequestIds
    BY <2>2, RequestsAssumption DEF InboxInv, InboxTypes
  <2>5. started \in Work /\ started.req = r
    BY <2>3, <2>4
  <2>6. work' = [work EXCEPT ![w] = started]
    BY <2>2
  <2> HIDE DEF Work, started
  <2>7. work' \in [Workers -> Work] /\ DOMAIN rows' = Workers
    BY <2>2, <2>4, <2>5, <2>6
  <2>8. ASSUME NEW v \in Workers
        PROVE  \/ rows'[v] = rows[v] /\ work'[v].req = work[v].req
               \/ rows'[v] = <<>> /\ work'[v].req \in DOMAIN sent \cup {None}
    <3>1. CASE v = w
      BY <2>2, <2>4, <2>5, <2>6, <3>1
    <3>2. CASE v # w
      <4>1. rows'[v] = rows[v] /\ work'[v] = work[v]
        BY <2>2, <2>4, <2>6, <3>2
      <4> QED BY <4>1
    <3> QED BY <3>1, <3>2
  <2> USE DEF Work
  <2> QED BY <2>2, <2>7, <2>8, QuietStep
<1>4. CASE \E w \in Workers : RunSubrequest(w)
  BY <1>4, SubrequestInbox
<1>5. CASE \E w \in Workers : Answer(w)
  BY <1>5, AnswerInbox
<1>6. CASE Cleanup
  BY <1>6, QuietStep DEF Cleanup, netVars, clientVars, workVars, InboxInv, InboxTypes
<1>7. CASE TickTime
  BY <1>7, <1>0 DEF TickTime, netVars, inboxVars, clientVars, workVars
<1>8. CASE Restart
  <2>1. /\ work' = [w \in Workers |-> Idle]
        /\ rows' = [w \in Workers |-> <<>>]
        /\ UNCHANGED <<sent, waiting, seen, got, given, reused, inbox>>
    BY <1>8 DEF Restart, netVars, inboxVars, clientVars
  <2>2. Idle \in [req : RequestIds \cup {None}, run : Nat, next : Nat \ {0}] /\ Idle.req = None
    BY DEF Idle
  <2> QED BY <2>1, <2>2, QuietStep
<1>9. CASE UNCHANGED requestVars
  BY <1>9, <1>0 DEF requestVars, netVars, inboxVars, clientVars, workVars
<1> QED
  BY <1>1, <1>2, <1>3, <1>4, <1>5, <1>6, <1>7, <1>8, <1>9 DEF RequestsNext

-----------------------------------------------------------------------------

\* The invariant of the inbox: ids in their order, answers without gaps.
THEOREM InboxInvHolds == RequestsSpec => []InboxInv
<1>1. Inv' /\ InboxInv /\ [RequestsNext]_requestVars => InboxInv'
  BY InboxNextInv
<1> QED BY InvHolds, InboxInitInv, <1>1, PTL DEF RequestsSpec

\* Clients that poll their inbox by id (poll_inbox, Message.to) miss only messages with
\* an id that was used again, whatever answers are lost or late, however small the limit,
\* whatever requests arrive again, and whatever the clocks of the clients.
THEOREM OthersAreReceived == RequestsSpec => []OnlyReusedMissed
<1>1. InboxInv => OnlyReusedMissed
  BY DEF InboxInv
<1> QED BY InboxInvHolds, <1>1, PTL

=============================================================================
