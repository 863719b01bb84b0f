----------------------- MODULE AdapterTransportProofs -----------------------
(***************************************************************************)
(* Proofs about the adapter's transport, for any number of connections,    *)
(* requests, attempts, events and frames.                                  *)
(***************************************************************************)
EXTENDS AdapterTransport, TLAPS

(***************************************************************************)
(* The inductive invariant.                                                *)
(***************************************************************************)

\* How many of a request's n events its buffer still holds.
Kept(n) == IF n < MaxEvents THEN n ELSE MaxEvents

\* A buffer holds the last events of a request that has had n, in order.
Window(s, n) ==
    /\ s \in Seq(Event) /\ Len(s) = Kept(n)
    /\ \A i \in 1 .. Kept(n) : s[i].id = n - Kept(n) + i - 1

BufferInv == \A r \in Requests : Window(buffer[r], nextSeq[r])

\* A request id nobody has brought has left no trace.
UnseenInv ==
    \A r \in Requests : digest[r] = None => nextSeq[r] = 0 /\ ran[r] = 0

\* A connection whose request has the digest d and has gone upstream a times:
\* an attempt begins with a call, and no more calls were made than attempts.
Admitted(k, d, a) ==
    /\ k.pc \in {"running", "waiting", "orphan"} => k.new
    /\ k.pc \in {"free", "waiting", "ended"} => k.stage = "none"
    /\ k.pc = "free" => ~k.new
    /\ k.new => k.req \in Requests /\ k.mode \in Modes /\ d # None /\ k.last >= -1
    /\ k.pc \in {"running", "waiting"} => k.tries < MaxAttempts
    /\ k.pc = "waiting" \/ k.stage = "call" => a <= k.tries
    /\ k.pc = "running" => a <= k.tries + 1

AdmittedInv == \A c \in Conns : Admitted(conn[c], digest[conn[c].req], ran[conn[c].req])

\* One generator per request id.
Alone == \A c, d \in Conns : conn[c].new /\ conn[d].new /\ conn[c].req = conn[d].req => c = d

RanInv == \A r \in Requests : ran[r] <= MaxAttempts

\* What a connection has written, its request having gone upstream a times: a
\* live stream everything after its client's last event, all of one call if it
\* began at the first; any other a run of the window.
Told(k, a) ==
    IF k.new /\ k.mode = "sse"
    THEN /\ \A i \in 1 .. Len(k.got) : k.got[i].id = k.last + i
         /\ k.cursor = k.last + Len(k.got)
         /\ k.last = -1 => \A i \in 1 .. Len(k.got) : k.got[i].att = a
    ELSE /\ \A i \in 1 .. Len(k.got) - 1 : k.got[i + 1].id = k.got[i].id + 1
         /\ k.got # <<>> => k.got[1].id = k.last + 1 \/ Len(k.got) = MaxEvents

\* A live stream that goes on has written all of the n events there are, and
\* nothing before an attempt that is yet to be made.
Streamed(k, n, a) ==
    /\ Told(k, a)
    /\ k.new /\ k.mode = "sse" =>
         /\ k.pc \in {"running", "waiting"} => k.cursor >= n - 1
         /\ k.last = -1 /\ (k.pc = "waiting" \/ k.stage = "call") => k.got = <<>>

StreamInv == \A c \in Conns : Streamed(conn[c], nextSeq[conn[c].req], ran[conn[c].req])

RequestInv == BufferInv /\ UnseenInv /\ AdmittedInv /\ Alone /\ RanInv

TransportInv == TypeOK /\ RequestInv /\ StreamInv

\* Connection k drives the generator that reads r's tunnel.
Reads(k, r) == k.new /\ k.req = r /\ k.pc \in {"running", "orphan"} /\ k.stage = "body"

\* A registered tunnel is one, and the generator that opened it is reading it.
TunnelInv ==
    \A r \in Requests :
        /\ sock[r] \in {"open", "dying"} => r \in tunnels
        /\ r \in tunnels => Op[r] = "tunnel" /\ \E c \in Conns : Reads(conn[c], r)

\* The frames of connection c among the first m that went into s.
FramesOf(s, c, m) == {s[j][2] : j \in {i \in 1 .. m : s[i][1] = c}}

\* Connection c has put its first n frames into s, in order.
InOrder(s, c, n) ==
    /\ FramesOf(s, c, Len(s)) = 1 .. n
    /\ \A i \in DOMAIN s : s[i][1] = c => FramesOf(s, c, i - 1) = 1 .. s[i][2] - 1

\* The send that connection c runs has come to its n-th frame.
Sends(k, c, s) ==
    /\ k.stage \in {"none", "call", "feed"}
    /\ k.pc = "waiting" \/ k.stage = "call" => k.n = 0
    /\ k.n <= Batch
    /\ k.end = "completed" => k.n = Batch
    /\ InOrder(s, c, k.n)

IsSend(k) == k.new /\ Op[k.req] = "send"

\* Only the generator of a send feeds a tunnel.
FrameInv ==
    /\ \A t \in Requests : \A i \in DOMAIN fed[t] :
         IsSend(conn[fed[t][i][1]]) /\ Target[conn[fed[t][i][1]].req] = t
    /\ \A c \in Conns : IsSend(conn[c]) => Sends(conn[c], c, fed[Target[conn[c].req]])
    /\ \A c \in Conns : conn[c].stage = "feed" => IsSend(conn[c])

(***************************************************************************)
(* Buffers.                                                                *)
(***************************************************************************)

LEMMA Bounds == MaxEvents \in Nat /\ MaxEvents >= 3 /\ MaxAttempts \in Nat /\ MaxAttempts >= 1
                /\ MaxChunks \in Nat /\ MaxChunks <= MaxEvents /\ Batch \in Nat /\ Deltas \in Nat
                /\ MaxDeaths \in Nat
BY ConstantsAssumption

\* What EventBuffer.after returns: a run of the window, all of it after id if
\* the window reaches back that far.
LEMMA AfterWindow ==
    ASSUME NEW n \in Nat, NEW s, Window(s, n), NEW id \in Int, id >= -1
    PROVE  /\ After(s, id) \in Seq(Event)
           /\ \A i \in 1 .. Len(After(s, id)) - 1 : After(s, id)[i + 1].id = After(s, id)[i].id + 1
           /\ After(s, id) # <<>> => \/ After(s, id)[1].id = id + 1
                                     \/ Len(After(s, id)) = MaxEvents
           /\ id >= n - Kept(n) - 1 =>
                /\ \A i \in 1 .. Len(After(s, id)) : After(s, id)[i].id = id + i
                /\ id + Len(After(s, id)) >= n - 1
           /\ \A i \in 1 .. Len(After(s, id)) : \E j \in 1 .. Len(s) : After(s, id)[i] = s[j]
<1> DEFINE L == Kept(n)
           p == Above(s, id)
           first == n - L
<1>1. L \in Nat /\ L <= n /\ L <= MaxEvents /\ (L < n => L = MaxEvents)
  BY Bounds DEF Kept
<1>2. s \in Seq(Event) /\ Len(s) = L /\ \A i \in 1 .. L : s[i].id = first + i - 1
  BY DEF Window
<1> HIDE DEF L
<1>3. first \in Nat
  BY <1>1
<1> HIDE DEF first
<1>4. \E q \in 1 .. Len(s) + 1 : \A j \in DOMAIN s : s[j].id > id <=> j >= q
  <2> DEFINE q == IF id < first THEN 1 ELSE IF id - first + 2 > L + 1 THEN L + 1 ELSE id - first + 2
  <2>1. q \in 1 .. L + 1
    BY <1>1, <1>3
  <2>2. ASSUME NEW j \in 1 .. L PROVE first + j - 1 > id <=> j >= q
    BY <1>1, <1>3
  <2> HIDE DEF q
  <2>3. DOMAIN s = 1 .. L
    BY <1>2
  <2> QED
    BY <2>1, <2>2, <2>3, <1>2
<1>5. p \in 1 .. L + 1 /\ \A j \in 1 .. L : first + j - 1 > id <=> j >= p
  <2>1. p \in 1 .. Len(s) + 1 /\ \A j \in DOMAIN s : s[j].id > id <=> j >= p
    BY <1>4 DEF Above
  <2>2. DOMAIN s = 1 .. L
    BY <1>2
  <2> QED
    BY <2>1, <2>2, <1>2
<1>6. After(s, id) = SubSeq(s, p, L)
  BY <1>2 DEF After
<1> HIDE DEF p
<1>7. /\ After(s, id) \in Seq(Event) /\ Len(After(s, id)) = L - p + 1
      /\ \A i \in 1 .. L - p + 1 : After(s, id)[i] = s[p + i - 1]
  BY <1>1, <1>2, <1>5, <1>6
<1>8. \A i \in 1 .. L - p + 1 : After(s, id)[i].id = first + p + i - 2
  <2> TAKE i \in 1 .. L - p + 1
  <2>1. p + i - 1 \in 1 .. L
    BY <1>1, <1>5
  <2>2. s[p + i - 1].id = first + (p + i - 1) - 1
    BY <1>2, <2>1
  <2> QED
    BY <1>1, <1>3, <1>5, <1>7, <2>2
<1>9. \A i \in 1 .. Len(After(s, id)) - 1 : After(s, id)[i + 1].id = After(s, id)[i].id + 1
  BY <1>1, <1>3, <1>5, <1>7, <1>8
<1>10. \A i \in 1 .. Len(After(s, id)) : \E j \in 1 .. Len(s) : After(s, id)[i] = s[j]
  <2> TAKE i \in 1 .. Len(After(s, id))
  <2>1. p + i - 1 \in 1 .. L
    BY <1>1, <1>5, <1>7
  <2> QED
    BY <2>1, <1>2, <1>7
<1>11. ASSUME After(s, id) # <<>>, After(s, id)[1].id # id + 1 PROVE Len(After(s, id)) = MaxEvents
  <2>1. L - p + 1 >= 1
    BY <1>1, <1>5, <1>7, <1>11
  <2>2. After(s, id)[1].id = first + p - 1
    BY <1>1, <1>3, <1>5, <1>8, <2>1
  <2>3. p = 1
    <3> SUFFICES ASSUME p # 1 PROVE FALSE
      OBVIOUS
    <3>1. p \in 1 .. L /\ p - 1 \in 1 .. L
      BY <1>1, <1>5, <2>1
    <3>2. first + p - 1 > id /\ ~(first + (p - 1) - 1 > id)
      BY <1>1, <1>5, <3>1
    <3> QED
      BY <1>3, <1>11, <2>2, <3>1, <3>2
  <2>4. first > id + 1
    <3>1. 1 \in 1 .. L /\ first + 1 - 1 > id
      BY <1>1, <1>5, <2>1, <2>3
    <3> QED
      BY <1>3, <1>11, <2>2, <2>3, <3>1
  <2> QED
    BY <1>1, <1>3, <1>7, <2>3, <2>4 DEF first
<1>12. ASSUME id >= first - 1
       PROVE  /\ \A i \in 1 .. Len(After(s, id)) : After(s, id)[i].id = id + i
              /\ id + Len(After(s, id)) >= n - 1
  <2>1. p <= L => p = id - first + 2
    BY <1>1, <1>3, <1>5, <1>12
  <2>2. p = L + 1 => id >= n - 1
    BY <1>1, <1>3, <1>5, <1>12 DEF first
  <2> QED
    BY <1>1, <1>3, <1>5, <1>7, <1>8, <2>1, <2>2 DEF first
<1> QED
  BY <1>7, <1>9, <1>10, <1>11, <1>12 DEF first, L

\* What is delivered after an event: a run of ids that joins on to it, or the
\* whole of a window that has dropped its beginning.
JoinsOn(g, id) ==
    /\ g \in Seq(Event)
    /\ \A i \in 1 .. Len(g) - 1 : g[i + 1].id = g[i].id + 1
    /\ g # <<>> => g[1].id = id + 1 \/ Len(g) = MaxEvents

LEMMA AfterJoins ==
    ASSUME NEW n \in Nat, NEW s, Window(s, n), NEW id \in Int, id >= -1
    PROVE  JoinsOn(After(s, id), id)
BY AfterWindow DEF JoinsOn

\* Two sequences, one after the other.
LEMMA Joined ==
    ASSUME NEW S, NEW s \in Seq(S), NEW u \in Seq(S)
    PROVE  /\ s \o u \in Seq(S) /\ Len(s \o u) = Len(s) + Len(u)
           /\ \A i \in 1 .. Len(s) : (s \o u)[i] = s[i]
           /\ \A i \in 1 .. Len(u) : (s \o u)[Len(s) + i] = u[i]
<1>1. s \o u \in Seq(S) /\ Len(s \o u) = Len(s) + Len(u)
  OBVIOUS
<1>2. \A i \in 1 .. Len(s) + Len(u) : (s \o u)[i] = IF i <= Len(s) THEN s[i] ELSE u[i - Len(s)]
  OBVIOUS
<1>3. ASSUME NEW i \in 1 .. Len(u) PROVE (s \o u)[Len(s) + i] = u[i]
  <2>1. Len(s) + i \in 1 .. Len(s) + Len(u) /\ ~(Len(s) + i <= Len(s)) /\ Len(s) + i - Len(s) = i
    OBVIOUS
  <2> QED
    BY <1>2, <2>1
<1> QED
  BY <1>1, <1>2, <1>3

Kinds == {"accepted", "delta", "completed", "error"}

\* EventBuffer.append keeps a window, and what is new in it is of the current call.
LEMMA GrownWindow ==
    ASSUME NEW r \in Requests, nextSeq[r] \in Nat, ran[r] \in Nat, Window(buffer[r], nextSeq[r]),
           NEW ops \in Seq(Kinds)
    PROVE  /\ Window(Grown(r, ops), nextSeq[r] + Len(ops))
           /\ \A i \in 1 .. Len(Grown(r, ops)) :
                Grown(r, ops)[i].id >= nextSeq[r] => Grown(r, ops)[i].att = ran[r]
<1> DEFINE n == nextSeq[r]
           a == ran[r]
           s == buffer[r]
           m == Len(ops)
           new == [i \in DOMAIN ops |-> [id |-> n + i - 1, op |-> ops[i], att |-> a]]
           t == s \o new
           lo == IF Len(t) > MaxEvents THEN Len(t) - MaxEvents + 1 ELSE 1
           w == SubSeq(t, lo, Len(t))
<1>1. Grown(r, ops) = w
  BY DEF Grown, Bounded
<1>2. n \in Nat /\ a \in Nat /\ m \in Nat /\ DOMAIN ops = 1 .. m /\ \A i \in 1 .. m : ops[i] \in Kinds
  OBVIOUS
<1>3. Kept(n) \in Nat /\ Kept(n) <= n /\ Kept(n) <= MaxEvents /\ (Kept(n) < MaxEvents => Kept(n) = n)
  BY <1>2, Bounds DEF Kept
<1>4. s \in Seq(Event) /\ Len(s) = Kept(n) /\ \A i \in 1 .. Kept(n) : s[i].id = n - Kept(n) + i - 1
  BY DEF Window
<1>5. new \in Seq(Event) /\ Len(new) = m
      /\ \A i \in 1 .. m : new[i].id = n + i - 1 /\ new[i].att = a
  <2>1. \A i \in 1 .. m : [id |-> n + i - 1, op |-> ops[i], att |-> a] \in Event
    BY <1>2 DEF Event, Kinds
  <2> QED
    BY <1>2, <2>1
<1> HIDE DEF n, a, s, m, new
<1>6. /\ t \in Seq(Event) /\ Len(t) = Kept(n) + m
      /\ \A i \in 1 .. Kept(n) : t[i] = s[i]
      /\ \A i \in 1 .. m : t[Kept(n) + i] = new[i]
  <2>1. /\ t \in Seq(Event) /\ Len(t) = Len(s) + Len(new)
        /\ \A i \in 1 .. Len(s) : t[i] = s[i]
        /\ \A i \in 1 .. Len(new) : t[Len(s) + i] = new[i]
    <3>1. s \in Seq(Event) /\ new \in Seq(Event)
      BY <1>4, <1>5
    <3> QED
      BY <3>1, Joined
  <2> HIDE DEF t
  <2> QED
    BY <2>1, <1>4, <1>5
<1>7. \A i \in 1 .. Kept(n) + m : /\ t[i].id = n - Kept(n) + i - 1
                                  /\ t[i].id >= n => t[i].att = a
  <2> TAKE i \in 1 .. Kept(n) + m
  <2>0. i \in Int
    BY <1>2, <1>3
  <2>1. CASE i <= Kept(n)
    <3>1. i \in 1 .. Kept(n)
      BY <2>1, <1>3, <1>2
    <3>2. t[i] = s[i] /\ s[i].id = n - Kept(n) + i - 1
      BY <3>1, <1>4, <1>6
    <3> HIDE DEF t
    <3>3. t[i].id = n - Kept(n) + i - 1
      BY <3>2
    <3> QED
      BY <3>3, <2>1, <1>2, <1>3
  <2>2. CASE i > Kept(n)
    <3>1. i - Kept(n) \in 1 .. m /\ i = Kept(n) + (i - Kept(n))
      BY <2>2, <1>2, <1>3
    <3>2. t[i] = new[i - Kept(n)]
      BY <3>1, <1>6
    <3>3. new[i - Kept(n)].id = n + (i - Kept(n)) - 1 /\ new[i - Kept(n)].att = a
      BY <3>1, <1>5
    <3> HIDE DEF t
    <3> QED
      BY <3>2, <3>3, <1>2, <1>3
  <2> HIDE DEF t
  <2> QED
    BY <2>0, <2>1, <2>2, <1>3
<1> HIDE DEF t
<1>8. lo \in 1 .. Len(t) + 1 /\ Len(t) - lo + 1 = Kept(n + m)
      /\ lo - 1 = Kept(n) + m - Kept(n + m)
  BY <1>2, <1>3, <1>6, Bounds DEF Kept
<1> HIDE DEF lo
<1>9. w \in Seq(Event) /\ Len(w) = Kept(n + m) /\ \A i \in 1 .. Kept(n + m) : w[i] = t[lo + i - 1]
  BY <1>6, <1>8
<1>10. ASSUME NEW i \in 1 .. Kept(n + m)
       PROVE  w[i].id = n + m - Kept(n + m) + i - 1 /\ (w[i].id >= n => w[i].att = a)
  <2>1. Kept(n + m) \in Nat
    BY <1>2, Bounds DEF Kept
  <2>2. lo + i - 1 \in 1 .. Kept(n) + m
    BY <1>2, <1>3, <1>6, <1>8, <2>1, SMTT(30)
  <2>3. w[i] = t[lo + i - 1]
    BY <1>9
  <2>4. t[lo + i - 1].id = n - Kept(n) + (lo + i - 1) - 1 /\ (t[lo + i - 1].id >= n => t[lo + i - 1].att = a)
    BY <1>7, <2>2
  <2> HIDE DEF w
  <2>5. n - Kept(n) + (lo + i - 1) - 1 = n + m - Kept(n + m) + i - 1
    <3>1. lo \in Int /\ n \in Int /\ m \in Int /\ Kept(n) \in Int /\ Kept(n + m) \in Int
      BY <1>2, <1>3, <1>6, <1>8, <2>1
    <3>5. i \in Int
      BY <2>1
    <3>2. lo = Kept(n) + m - Kept(n + m) + 1
      BY <1>8, <3>1
    <3>3. n - Kept(n) + lo = n + m - Kept(n + m) + 1
      BY <3>1, <3>2
    <3>4. n - Kept(n) + (lo + i - 1) - 1 = (n - Kept(n) + lo) + i - 2
      BY <3>1, <3>5, SMTT(30)
    <3>6. (n + m - Kept(n + m) + 1) + i - 2 = n + m - Kept(n + m) + i - 1
      BY <3>1, <3>5, SMTT(30)
    <3> QED
      BY <3>3, <3>4, <3>6
  <2> QED
    BY <2>3, <2>4, <2>5
<1> HIDE DEF w
<1> QED
  BY <1>1, <1>9, <1>10 DEF Window, n, m, a

(***************************************************************************)
(* Connections.                                                            *)
(***************************************************************************)

\* Everything but the connections has its type.
RestOK ==
    /\ digest \in [Requests -> Tokens \cup {"frame", None}]
    /\ buffer \in [Requests -> Seq(Event)]
    /\ nextSeq \in [Requests -> Nat]
    /\ tunnels \subseteq Requests
    /\ sock \in [Requests -> {"none", "open", "dying", "closed"}]
    /\ fed \in [Requests -> Seq(Conns \X (1 .. Batch))]
    /\ ran \in [Requests -> Nat]
    /\ gateway \in [up : BOOLEAN, ready : BOOLEAN, held : BOOLEAN]
    /\ deaths \in 0 .. MaxDeaths

\* A step of one connection: what it makes of itself and of the store, while
\* every other generator's request is left alone.
LEMMA OwnStep ==
    ASSUME TransportInv, NEW c \in Conns, NEW k \in Connection,
           conn' = [conn EXCEPT ![c] = k],
           RestOK', BufferInv', UnseenInv', RanInv',
           \A d \in Conns \ {c} : conn[d].new =>
               /\ k.new => conn[d].req # k.req
               /\ digest'[conn[d].req] = digest[conn[d].req]
               /\ nextSeq'[conn[d].req] = nextSeq[conn[d].req]
               /\ ran'[conn[d].req] = ran[conn[d].req],
           Admitted(k, digest'[k.req], ran'[k.req]),
           Streamed(k, nextSeq'[k.req], ran'[k.req])
    PROVE  TransportInv'
<1>1. conn \in [Conns -> Connection]
  BY DEF TransportInv, TypeOK
<1>2. conn'[c] = k /\ \A d \in Conns \ {c} : conn'[d] = conn[d]
  BY <1>1
<1>3. TypeOK'
  BY <1>1 DEF TypeOK, RestOK
<1>4. AdmittedInv'
  <2> SUFFICES ASSUME NEW d \in Conns
               PROVE  Admitted(conn'[d], digest'[conn'[d].req], ran'[conn'[d].req])
    BY DEF AdmittedInv
  <2>1. CASE d = c
    BY <2>1, <1>2
  <2>2. CASE d # c
    <3>1. Admitted(conn[d], digest[conn[d].req], ran[conn[d].req])
      BY DEF TransportInv, RequestInv, AdmittedInv
    <3>2. conn[d] \in Connection
      BY <1>1
    <3> QED
      BY <2>2, <3>1, <3>2, <1>2 DEF Admitted, Connection
  <2> QED
    BY <2>1, <2>2
<1>5. Alone'
  BY <1>2 DEF TransportInv, RequestInv, Alone
<1>6. StreamInv'
  <2> SUFFICES ASSUME NEW d \in Conns
               PROVE  Streamed(conn'[d], nextSeq'[conn'[d].req], ran'[conn'[d].req])
    BY DEF StreamInv
  <2>1. CASE d = c
    BY <2>1, <1>2
  <2>2. CASE d # c
    <3>1. Streamed(conn[d], nextSeq[conn[d].req], ran[conn[d].req])
      BY DEF TransportInv, StreamInv
    <3> QED
      BY <2>2, <3>1, <1>2 DEF Streamed, Told
  <2> QED
    BY <2>1, <2>2
<1> QED
  BY <1>3, <1>4, <1>5, <1>6 DEF TransportInv, RequestInv

\* How a connection ends.
LEMMA EndedIs ==
    ASSUME NEW k \in Connection, NEW how \in {"completed", "replayed", "error", "refused", "broken", "reset", "gone"}
    PROVE  /\ Ended(k, how) \in Connection
           /\ Ended(k, how).pc = "ended" /\ Ended(k, how).stage = "none"
           /\ Ended(k, how).new = k.new /\ Ended(k, how).req = k.req /\ Ended(k, how).mode = k.mode
           /\ Ended(k, how).last = k.last /\ Ended(k, how).cursor = k.cursor
           /\ Ended(k, how).got = k.got /\ Ended(k, how).n = k.n
           /\ Ended(k, how).end \in {how, "gone"}
BY ZenonT(60) DEF Connection, Ended

\* What is known of a generator and its request.
LEMMA Generator ==
    ASSUME TransportInv, NEW c \in Conns, conn[c].pc \in {"running", "waiting", "orphan"}
    PROVE  /\ conn[c] \in Connection /\ conn[c].new
           /\ conn[c].req \in Requests /\ conn[c].mode \in Modes /\ conn[c].last >= -1
           /\ digest[conn[c].req] # None
           /\ nextSeq[conn[c].req] \in Nat /\ ran[conn[c].req] \in Nat
           /\ Window(buffer[conn[c].req], nextSeq[conn[c].req])
           /\ Admitted(conn[c], digest[conn[c].req], ran[conn[c].req])
           /\ Streamed(conn[c], nextSeq[conn[c].req], ran[conn[c].req])
           /\ \A d \in Conns \ {c} : conn[d].new => conn[d].req # conn[c].req
<1>1. conn[c] \in Connection
  BY DEF TransportInv, TypeOK
<1>2. Admitted(conn[c], digest[conn[c].req], ran[conn[c].req])
  BY DEF TransportInv, RequestInv, AdmittedInv
<1>3. Streamed(conn[c], nextSeq[conn[c].req], ran[conn[c].req])
  BY DEF TransportInv, StreamInv
<1>4. /\ conn[c].new /\ conn[c].req \in Requests /\ conn[c].mode \in Modes /\ conn[c].last >= -1
      /\ digest[conn[c].req] # None
  BY <1>2 DEF Admitted
<1> QED
  BY <1>1, <1>2, <1>3, <1>4 DEF TransportInv, TypeOK, RequestInv, BufferInv, Alone

\* The window reaches back to the events that are new.
LEMMA Reach ==
    ASSUME NEW n \in Nat, NEW l \in Nat, l <= MaxEvents, NEW u \in Int, u >= n - 1, u >= -1
    PROVE  n + l \in Nat /\ u >= (n + l) - Kept(n + l) - 1
BY Bounds DEF Kept

\* A live stream that writes what is new has written everything again.
LEMMA CaughtUp ==
    ASSUME TransportInv, NEW c \in Conns, conn[c].pc = "running", conn[c].mode = "sse",
           NEW ops \in Seq(Kinds), Len(ops) <= MaxEvents
    PROVE  \E g \in Seq(Event), u \in Int :
              /\ Written(c, Unwritten(c, Grown(conn[c].req, ops))) =
                    [conn[c] EXCEPT !.got = g, !.cursor = u]
              /\ \A i \in 1 .. Len(g) : g[i].id = conn[c].last + i
              /\ u = conn[c].last + Len(g) /\ u >= (nextSeq[conn[c].req] + Len(ops)) - 1
              /\ conn[c].last = -1 => \A i \in 1 .. Len(g) : g[i].att = ran[conn[c].req]
<1> DEFINE k == conn[c]
           r == k.req
           n == nextSeq[r]
           m == n + Len(ops)
           new == Grown(r, ops)
           fs == After(new, k.cursor)
           u == k.last + Len(k.got \o fs)
<1>1. /\ k \in Connection /\ k.new /\ r \in Requests /\ k.last >= -1 /\ n \in Nat /\ ran[r] \in Nat
      /\ Window(buffer[r], n) /\ Streamed(k, n, ran[r])
  BY Generator
<1>2. /\ k.last \in Int /\ k.cursor \in Int /\ k.got \in Seq(Event)
      /\ \A i \in 1 .. Len(k.got) : k.got[i].id = k.last + i
      /\ k.cursor = k.last + Len(k.got) /\ k.cursor >= n - 1
      /\ k.last = -1 => \A i \in 1 .. Len(k.got) : k.got[i].att = ran[r]
  BY <1>1 DEF Streamed, Told, Connection
<1>3. Window(new, m) /\ \A i \in 1 .. Len(new) : new[i].id >= n => new[i].att = ran[r]
  BY <1>1, GrownWindow
<1>4. m \in Nat /\ k.cursor >= m - Kept(m) - 1 /\ k.cursor >= -1
  <2>1. Len(ops) \in Nat /\ k.cursor >= -1
    BY <1>1, <1>2
  <2>2. n \in Nat /\ k.cursor \in Int /\ k.cursor >= n - 1
    BY <1>1, <1>2
  <2> HIDE DEF n
  <2> QED
    BY <2>1, <2>2, Reach
<1>5. /\ fs \in Seq(Event)
      /\ \A i \in 1 .. Len(fs) : fs[i].id = k.cursor + i
      /\ k.cursor + Len(fs) >= m - 1
      /\ \A i \in 1 .. Len(fs) : \E j \in 1 .. Len(new) : fs[i] = new[j]
  <2> HIDE DEF m, new
  <2>1. k.cursor \in Int
    BY <1>2
  <2> QED
    BY <1>3, <1>4, <2>1, AfterWindow, SMTT(30)
<1>6. \A i \in 1 .. Len(fs) : fs[i].att = ran[r]
  <2> TAKE i \in 1 .. Len(fs)
  <2> HIDE DEF fs, new
  <2>1. PICK j \in 1 .. Len(new) : fs[i] = new[j]
    BY <1>5
  <2>2. fs[i].id >= n
    <3>1. fs[i].id = k.cursor + i /\ i \in Nat /\ i >= 1
      BY <1>5
    <3> QED
      BY <3>1, <1>1, <1>2
  <2> QED
    BY <2>1, <2>2, <1>3
<1> HIDE DEF fs
<1>7. /\ k.got \o fs \in Seq(Event) /\ Len(k.got \o fs) = Len(k.got) + Len(fs)
      /\ \A i \in 1 .. Len(k.got) : (k.got \o fs)[i] = k.got[i]
      /\ \A i \in 1 .. Len(fs) : (k.got \o fs)[Len(k.got) + i] = fs[i]
  BY <1>2, <1>5, Joined
<1>8. ASSUME NEW i \in 1 .. Len(k.got \o fs)
      PROVE  /\ (k.got \o fs)[i].id = k.last + i
             /\ k.last = -1 => (k.got \o fs)[i].att = ran[r]
  <2>0. i \in Int /\ Len(k.got) \in Nat /\ Len(fs) \in Nat
    BY <1>2, <1>5, <1>7
  <2>1. CASE i <= Len(k.got)
    BY <2>0, <2>1, <1>2, <1>7
  <2>2. CASE i > Len(k.got)
    <3>1. i - Len(k.got) \in 1 .. Len(fs) /\ Len(k.got) + (i - Len(k.got)) = i
      BY <2>0, <2>2, <1>7
    <3>2. (k.got \o fs)[i] = fs[i - Len(k.got)]
      BY <3>1, <1>7
    <3>3. fs[i - Len(k.got)].id = k.cursor + (i - Len(k.got)) /\ fs[i - Len(k.got)].att = ran[r]
      BY <3>1, <1>5, <1>6
    <3>4. k.cursor + (i - Len(k.got)) = k.last + i
      BY <1>2, <2>0, SMTT(30)
    <3> QED
      BY <3>2, <3>3, <3>4
  <2> QED
    BY <2>0, <2>1, <2>2
<1>9. u \in Int /\ u >= m - 1
  <2>1. Len(k.got) \in Nat /\ Len(fs) \in Nat
    BY <1>2, <1>5
  <2>2. u = k.cursor + Len(fs)
    BY <2>1, <1>2, <1>7
  <2> QED
    BY <2>1, <2>2, <1>2, <1>5
<1>10. Written(c, fs) = [k EXCEPT !.got = k.got \o fs, !.cursor = u]
  <2>1. CASE fs = <<>>
    <3>1. u = k.cursor /\ k.got \o fs = k.got
      BY <2>1, <1>2, <1>7
    <3> QED
      BY <2>1, <3>1, <1>1, <1>2 DEF Written, Connection
  <2>2. CASE fs # <<>>
    <3>1. Len(fs) \in 1 .. Len(fs)
      BY <2>2, <1>5
    <3>2. fs[Len(fs)].id = u
      BY <3>1, <1>2, <1>5, <1>7, SMTT(30)
    <3> QED
      BY <2>2, <3>2 DEF Written
  <2> QED
    BY <2>1, <2>2
<1> HIDE DEF u
<1>11. Unwritten(c, Grown(conn[c].req, ops)) = fs
  BY DEF Unwritten, fs
<1>12. u = conn[c].last + Len(k.got \o fs)
  BY DEF u
<1>13. PICK g \in Seq(Event) : g = k.got \o fs
  BY <1>7
<1>14. PICK v \in Int : v = u
  BY <1>9
<1>15. Written(c, Unwritten(c, Grown(conn[c].req, ops))) = [conn[c] EXCEPT !.got = g, !.cursor = v]
  BY <1>10, <1>11, <1>13, <1>14
<1>16. /\ \A i \in 1 .. Len(g) : g[i].id = conn[c].last + i
       /\ conn[c].last = -1 => \A i \in 1 .. Len(g) : g[i].att = ran[conn[c].req]
  BY <1>8, <1>13
<1>17. v = conn[c].last + Len(g) /\ v >= (nextSeq[conn[c].req] + Len(ops)) - 1
  BY <1>9, <1>12, <1>13, <1>14
<1> QED
  BY <1>15, <1>16, <1>17

\* The store after EventBuffer.append.
LEMMA StoreGrown ==
    ASSUME TransportInv, NEW r \in Requests, NEW ops \in Seq(Kinds), Buffer(r, ops)
    PROVE  /\ buffer' \in [Requests -> Seq(Event)] /\ nextSeq' \in [Requests -> Nat]
           /\ BufferInv'
           /\ nextSeq'[r] = nextSeq[r] + Len(ops) /\ \A q \in Requests \ {r} : nextSeq'[q] = nextSeq[q]
<1>1. /\ buffer \in [Requests -> Seq(Event)] /\ nextSeq \in [Requests -> Nat] /\ ran[r] \in Nat
      /\ \A q \in Requests : Window(buffer[q], nextSeq[q])
  BY DEF TransportInv, TypeOK, RequestInv, BufferInv
<1>2. Window(Grown(r, ops), nextSeq[r] + Len(ops))
  BY <1>1, GrownWindow
<1>3. Grown(r, ops) \in Seq(Event) /\ Len(ops) \in Nat
  BY <1>2 DEF Window
<1> QED
  BY <1>1, <1>2, <1>3 DEF Buffer, BufferInv

\* The finally-block of a generator keeps the types.
LEMMA ReleaseTypes ==
    ASSUME TypeOK, NEW r, Release(r)
    PROVE  tunnels' \subseteq Requests /\ sock' \in [Requests -> {"none", "open", "dying", "closed"}]
BY DEF TypeOK, Release

\* An attempt, or its generator, is over.
Leaves(c, ends) ==
    \E x \in Connection :
        /\ conn' = [conn EXCEPT ![c] = x]
        /\ x.new = conn[c].new /\ x.req = conn[c].req /\ x.n = conn[c].n
        /\ x.stage = "none" /\ x.pc \in {"waiting", "ended"} /\ x.end \in ends

\* An attempt that failed, whatever the gateway is now.
LEMMA TransientStep ==
    ASSUME TransportInv, NEW c \in Conns, conn[c].pc = "running", Transient(c),
           UNCHANGED <<digest, fed, ran, deaths>>,
           gateway' \in [up : BOOLEAN, ready : BOOLEAN, held : BOOLEAN]
    PROVE  TransportInv' /\ Leaves(c, {conn[c].end, "error", "refused", "gone"})
<1> DEFINE k == conn[c]
           r == k.req
           a == ran[r]
           n == nextSeq[r]
<1>1. /\ k \in Connection /\ k.new /\ r \in Requests /\ k.mode \in Modes /\ k.last >= -1
      /\ digest[r] # None /\ n \in Nat /\ a \in Nat /\ Window(buffer[r], n)
      /\ Admitted(k, digest[r], a) /\ Streamed(k, n, a)
      /\ \A d \in Conns \ {c} : conn[d].new => conn[d].req # r
  BY Generator
<1>2. TypeOK /\ UnseenInv /\ RanInv /\ BufferInv
  BY DEF TransportInv, RequestInv
<1>3. tunnels' \subseteq Requests /\ sock' \in [Requests -> {"none", "open", "dying", "closed"}]
  BY <1>2, ReleaseTypes DEF Transient
<1>4. k.tries \in Nat /\ k.tries < MaxAttempts /\ a <= k.tries + 1 /\ k.tries + 1 \in 0 .. MaxAttempts
  BY <1>1, Bounds DEF Admitted, Connection
<1>5. CASE ~GiveUp(k) /\ conn' = [conn EXCEPT ![c] = [k EXCEPT !.tries = @ + 1, !.stage = "none", !.pc = "waiting"]]
           /\ UNCHANGED <<buffer, nextSeq>>
  <2> DEFINE x == [k EXCEPT !.tries = @ + 1, !.stage = "none", !.pc = "waiting"]
  <2>1. x \in Connection
    BY <1>1, <1>4 DEF Connection
  <2>2. /\ x.new = k.new /\ x.req = r /\ x.mode = k.mode /\ x.last = k.last /\ x.got = k.got
        /\ x.cursor = k.cursor /\ x.tries = k.tries + 1 /\ x.stage = "none" /\ x.pc = "waiting"
        /\ x.n = k.n /\ x.end = k.end
    BY <1>1 DEF Connection
  <2> HIDE DEF x
  <2>3. Admitted(x, digest[r], a)
    BY <1>1, <1>4, <1>5, <2>1, <2>2, Bounds, SMTT(30) DEF Admitted, GiveUp, Connection
  <2>4. Streamed(x, n, a)
    <3>1. CASE k.mode = "sse"
      <4>1. k.cursor <= k.last /\ k.cursor = k.last + Len(k.got) /\ k.got \in Seq(Event) /\ k.last \in Int
        BY <1>1, <1>5, <3>1 DEF GiveUp, Streamed, Told, Connection
      <4>2. k.got = <<>>
        BY <4>1
      <4> QED
        BY <1>1, <2>2, <3>1, <4>2 DEF Streamed, Told
    <3>2. CASE k.mode # "sse"
      BY <1>1, <2>2, <3>2 DEF Streamed, Told
    <3> QED
      BY <3>1, <3>2
  <2>5. RestOK' /\ BufferInv' /\ UnseenInv' /\ RanInv'
    BY <1>2, <1>3, <1>5 DEF TypeOK, RestOK, BufferInv, UnseenInv, RanInv
  <2>6. conn' = [conn EXCEPT ![c] = x]
    BY <1>5 DEF x
  <2>7. \A d \in Conns \ {c} : conn[d].new =>
          /\ x.new => conn[d].req # x.req
          /\ digest'[conn[d].req] = digest[conn[d].req]
          /\ nextSeq'[conn[d].req] = nextSeq[conn[d].req]
          /\ ran'[conn[d].req] = ran[conn[d].req]
    BY <1>1, <1>5, <2>2
  <2>8. Admitted(x, digest'[x.req], ran'[x.req]) /\ Streamed(x, nextSeq'[x.req], ran'[x.req])
    BY <1>5, <2>2, <2>3, <2>4
  <2>9. TransportInv'
    BY <2>1, <2>5, <2>6, <2>7, <2>8, OwnStep
  <2> QED
    BY <2>1, <2>2, <2>6, <2>9 DEF Leaves
<1>6. CASE GiveUp(k) /\ k.mode # "sse" /\ UNCHANGED <<buffer, nextSeq>>
           /\ conn' = [conn EXCEPT ![c] = Ended([k EXCEPT !.tries = @ + 1, !.stage = "none"], "refused")]
  <2> DEFINE x == Ended([k EXCEPT !.tries = @ + 1, !.stage = "none"], "refused")
  <2>1. x \in Connection
    BY <1>1, <1>4 DEF Connection, Ended
  <2>2. /\ x.new = k.new /\ x.req = r /\ x.mode = k.mode /\ x.last = k.last /\ x.got = k.got
        /\ x.cursor = k.cursor /\ x.stage = "none" /\ x.pc = "ended"
        /\ x.n = k.n /\ x.end \in {"refused", "gone"}
    BY <1>1 DEF Connection, Ended
  <2> HIDE DEF x
  <2>3. Admitted(x, digest[r], a)
    BY <1>1, <2>1, <2>2 DEF Admitted
  <2>4. Streamed(x, n, a)
    BY <1>1, <1>6, <2>2 DEF Streamed, Told
  <2>5. RestOK' /\ BufferInv' /\ UnseenInv' /\ RanInv'
    BY <1>2, <1>3, <1>6 DEF TypeOK, RestOK, BufferInv, UnseenInv, RanInv
  <2>6. conn' = [conn EXCEPT ![c] = x]
    BY <1>6 DEF x
  <2>7. \A d \in Conns \ {c} : conn[d].new =>
          /\ x.new => conn[d].req # x.req
          /\ digest'[conn[d].req] = digest[conn[d].req]
          /\ nextSeq'[conn[d].req] = nextSeq[conn[d].req]
          /\ ran'[conn[d].req] = ran[conn[d].req]
    BY <1>1, <1>6, <2>2
  <2>8. Admitted(x, digest'[x.req], ran'[x.req]) /\ Streamed(x, nextSeq'[x.req], ran'[x.req])
    BY <1>6, <2>2, <2>3, <2>4
  <2>9. TransportInv'
    BY <2>1, <2>5, <2>6, <2>7, <2>8, OwnStep
  <2> QED
    BY <2>1, <2>2, <2>6, <2>9 DEF Leaves
<1>7. CASE /\ GiveUp(k) /\ k.mode = "sse" /\ Buffer(r, <<"error">>)
           /\ conn' = [conn EXCEPT ![c] =
                 Ended(IF k.here THEN [Written(c, Unwritten(c, Grown(r, <<"error">>))) EXCEPT !.tries = @ + 1]
                       ELSE [k EXCEPT !.tries = @ + 1, !.stage = "none"], "error")]
  <2> DEFINE y == IF k.here THEN [Written(c, Unwritten(c, Grown(r, <<"error">>))) EXCEPT !.tries = @ + 1]
                  ELSE [k EXCEPT !.tries = @ + 1, !.stage = "none"]
             x == Ended(y, "error")
  <2>1. <<"error">> \in Seq(Kinds) /\ Len(<<"error">>) <= MaxEvents
    BY Bounds DEF Kinds
  <2>2. PICK g \in Seq(Event), u \in Int :
              /\ Written(c, Unwritten(c, Grown(r, <<"error">>))) = [k EXCEPT !.got = g, !.cursor = u]
              /\ \A i \in 1 .. Len(g) : g[i].id = k.last + i
              /\ u = k.last + Len(g) /\ u >= (n + Len(<<"error">>)) - 1
              /\ k.last = -1 => \A i \in 1 .. Len(g) : g[i].att = a
    BY <1>7, <2>1, CaughtUp
  <2>3. x \in Connection /\ x.new = k.new /\ x.req = r /\ x.mode = k.mode /\ x.last = k.last
        /\ x.stage = "none" /\ x.pc = "ended" /\ x.n = k.n /\ x.end \in {"error", "gone"}
        /\ \/ x.got = k.got /\ x.cursor = k.cursor
           \/ x.got = g /\ x.cursor = u
    <3>1. CASE k.here
      BY <1>1, <1>4, <2>2, <3>1, ZenonT(60) DEF Connection, Ended
    <3>2. CASE ~k.here
      <4>1. y = [k EXCEPT !.tries = k.tries + 1, !.stage = "none"]
        BY <3>2
      <4> HIDE DEF y
      <4>2. [k EXCEPT !.tries = k.tries + 1, !.stage = "none"] \in Connection
        BY <1>1, <1>4 DEF Connection
      <4>3. y.new = k.new /\ y.req = r /\ y.mode = k.mode /\ y.last = k.last
            /\ y.got = k.got /\ y.cursor = k.cursor /\ y.n = k.n
        BY <1>1, <4>1 DEF Connection
      <4>4. y \in Connection
        BY <4>1, <4>2
      <4> QED
        BY <4>3, <4>4, EndedIs
    <3> QED
      BY <3>1, <3>2
  <2>4. conn' = [conn EXCEPT ![c] = x]
    BY <1>7
  <2> HIDE DEF x
  <2>5. Admitted(x, digest[r], a)
    BY <1>1, <2>3 DEF Admitted
  <2>6. Streamed(x, nextSeq'[r], a)
    BY <1>1, <1>7, <2>2, <2>3, SMTT(30) DEF Streamed, Told
  <2>7. /\ buffer' \in [Requests -> Seq(Event)] /\ nextSeq' \in [Requests -> Nat] /\ BufferInv'
        /\ \A q \in Requests \ {r} : nextSeq'[q] = nextSeq[q]
    BY <1>1, <1>7, <2>1, StoreGrown
  <2>8. RestOK' /\ UnseenInv' /\ RanInv'
    BY <1>1, <1>2, <1>3, <2>7 DEF TypeOK, RestOK, UnseenInv, RanInv
  <2>9. \A d \in Conns \ {c} : conn[d].new => conn[d].req \in Requests
    BY DEF TransportInv, RequestInv, AdmittedInv, Admitted
  <2>10. \A d \in Conns \ {c} : conn[d].new =>
          /\ x.new => conn[d].req # x.req
          /\ digest'[conn[d].req] = digest[conn[d].req]
          /\ nextSeq'[conn[d].req] = nextSeq[conn[d].req]
          /\ ran'[conn[d].req] = ran[conn[d].req]
    BY <1>1, <2>3, <2>7, <2>9
  <2>11. Admitted(x, digest'[x.req], ran'[x.req]) /\ Streamed(x, nextSeq'[x.req], ran'[x.req])
    BY <2>3, <2>5, <2>6
  <2>12. TransportInv'
    BY <2>3, <2>4, <2>7, <2>8, <2>10, <2>11, OwnStep
  <2> QED
    BY <2>3, <2>4, <2>12 DEF Leaves
<1> QED
  BY <1>5, <1>6, <1>7 DEF Transient

\* The exception that ends a generator.
LEMMA RaiseStep ==
    ASSUME TransportInv, NEW c \in Conns, conn[c].pc = "running", Raise(c),
           UNCHANGED <<digest, fed, ran, gateway, deaths>>
    PROVE  TransportInv' /\ Leaves(c, {"broken", "refused", "gone"})
<1> DEFINE k == conn[c]
           r == k.req
           how == IF k.mode = "sse" THEN "broken" ELSE "refused"
           x == Ended(k, how)
<1>1. /\ k \in Connection /\ k.new /\ r \in Requests /\ k.mode \in Modes /\ k.last >= -1
      /\ digest[r] # None /\ Admitted(k, digest[r], ran[r]) /\ Streamed(k, nextSeq[r], ran[r])
      /\ \A d \in Conns \ {c} : conn[d].new => conn[d].req # r
  BY Generator
<1>2. TypeOK /\ UnseenInv /\ RanInv /\ BufferInv
  BY DEF TransportInv, RequestInv
<1>3. tunnels' \subseteq Requests /\ sock' \in [Requests -> {"none", "open", "dying", "closed"}]
  BY <1>2, ReleaseTypes DEF Raise
<1>4. how \in {"completed", "replayed", "error", "refused", "broken", "reset", "gone"}
  OBVIOUS
<1> HIDE DEF how
<1>5. /\ x \in Connection /\ x.pc = "ended" /\ x.stage = "none" /\ x.new = k.new /\ x.req = r
      /\ x.mode = k.mode /\ x.last = k.last /\ x.cursor = k.cursor /\ x.got = k.got
      /\ x.n = k.n /\ x.end \in {how, "gone"}
  <2>1. k \in Connection
    BY <1>1
  <2> QED
    BY <2>1, <1>4, EndedIs
<1>6. conn' = [conn EXCEPT ![c] = x] /\ UNCHANGED <<buffer, nextSeq>>
  BY DEF Raise, how
<1> HIDE DEF x
<1>7. Admitted(x, digest'[x.req], ran'[x.req])
  BY <1>1, <1>5 DEF Admitted
<1>8. Streamed(x, nextSeq'[x.req], ran'[x.req])
  BY <1>1, <1>5, <1>6 DEF Streamed, Told
<1>9. RestOK' /\ BufferInv' /\ UnseenInv' /\ RanInv'
  BY <1>2, <1>3, <1>6 DEF TypeOK, RestOK, BufferInv, UnseenInv, RanInv
<1>10. \A d \in Conns \ {c} : conn[d].new =>
          /\ x.new => conn[d].req # x.req
          /\ digest'[conn[d].req] = digest[conn[d].req]
          /\ nextSeq'[conn[d].req] = nextSeq[conn[d].req]
          /\ ran'[conn[d].req] = ran[conn[d].req]
  BY <1>1, <1>5, <1>6
<1>11. TransportInv'
  BY <1>5, <1>6, <1>7, <1>8, <1>9, <1>10, OwnStep
<1>12. x.end \in {"broken", "refused", "gone"}
  BY <1>5 DEF how
<1> QED
  BY <1>5, <1>6, <1>11, <1>12 DEF Leaves

\* A step of a generator that buffers ops and makes x of its connection.
LEMMA BufferStep ==
    ASSUME TransportInv, NEW c \in Conns, conn[c].pc = "running",
           NEW ops \in Seq(Kinds), Buffer(conn[c].req, ops),
           NEW x \in Connection, conn' = [conn EXCEPT ![c] = x],
           x.new = conn[c].new, x.req = conn[c].req,
           Admitted(x, digest[x.req], ran[x.req]),
           Streamed(x, nextSeq[x.req] + Len(ops), ran[x.req]),
           UNCHANGED <<digest, fed, ran, gateway, deaths>>,
           tunnels' \subseteq Requests,
           sock' \in [Requests -> {"none", "open", "dying", "closed"}]
    PROVE  TransportInv'
<1> DEFINE r == conn[c].req
<1>1. /\ r \in Requests /\ digest[r] # None
      /\ \A d \in Conns \ {c} : conn[d].new => conn[d].req # r
  BY Generator
<1>2. TypeOK /\ UnseenInv /\ RanInv
  BY DEF TransportInv, RequestInv
<1>3. /\ buffer' \in [Requests -> Seq(Event)] /\ nextSeq' \in [Requests -> Nat] /\ BufferInv'
      /\ nextSeq'[r] = nextSeq[r] + Len(ops) /\ \A q \in Requests \ {r} : nextSeq'[q] = nextSeq[q]
  BY <1>1, StoreGrown
<1>4. RestOK' /\ UnseenInv' /\ RanInv'
  BY <1>1, <1>2, <1>3 DEF TypeOK, RestOK, UnseenInv, RanInv
<1>5. \A d \in Conns \ {c} : conn[d].new => conn[d].req \in Requests
  BY DEF TransportInv, RequestInv, AdmittedInv, Admitted
<1>6. \A d \in Conns \ {c} : conn[d].new =>
          /\ x.new => conn[d].req # x.req
          /\ digest'[conn[d].req] = digest[conn[d].req]
          /\ nextSeq'[conn[d].req] = nextSeq[conn[d].req]
          /\ ran'[conn[d].req] = ran[conn[d].req]
  BY <1>1, <1>3, <1>5
<1>7. Admitted(x, digest'[x.req], ran'[x.req]) /\ Streamed(x, nextSeq'[x.req], ran'[x.req])
  BY <1>3
<1> QED
  BY <1>3, <1>4, <1>6, <1>7, OwnStep

\* A reply is a run of the window.
LEMMA Replied ==
    ASSUME TransportInv, NEW c \in Conns, conn[c].pc = "running", conn[c].mode # "sse",
           NEW ops \in Seq(Kinds)
    PROVE  \E g \in Seq(Event) :
              /\ Reply(c, Grown(conn[c].req, ops)) = [conn[c] EXCEPT !.got = g]
              /\ \A i \in 1 .. Len(g) - 1 : g[i + 1].id = g[i].id + 1
              /\ g # <<>> => g[1].id = conn[c].last + 1 \/ Len(g) = MaxEvents
<1> DEFINE r == conn[c].req
           m == nextSeq[r] + Len(ops)
           s == Grown(r, ops)
<1>1. /\ conn[c] \in Connection /\ r \in Requests /\ conn[c].last >= -1
      /\ nextSeq[r] \in Nat /\ ran[r] \in Nat /\ Window(buffer[r], nextSeq[r])
  BY Generator
<1>2. Window(s, m) /\ m \in Nat
  BY <1>1, GrownWindow
<1>3. conn[c].last \in Int
  BY <1>1 DEF Connection
<1> HIDE DEF m, s
<1>4. PICK g \in Seq(Event) : /\ g = After(s, conn[c].last)
                              /\ \A i \in 1 .. Len(g) - 1 : g[i + 1].id = g[i].id + 1
                              /\ g # <<>> => g[1].id = conn[c].last + 1 \/ Len(g) = MaxEvents
  BY <1>1, <1>2, <1>3, AfterWindow, SMTT(30)
<1>5. Reply(c, Grown(conn[c].req, ops)) = [conn[c] EXCEPT !.got = g]
  BY <1>4 DEF Reply, s
<1> QED
  BY <1>4, <1>5

\* The end of a generator that went well.
LEMMA CompleteStep ==
    ASSUME TransportInv, NEW c \in Conns, conn[c].pc = "running",
           NEW ops \in Seq(Kinds), Len(ops) <= MaxEvents, Complete(c, ops),
           UNCHANGED <<digest, fed, ran, gateway, deaths>>,
           tunnels' \subseteq Requests,
           sock' \in [Requests -> {"none", "open", "dying", "closed"}]
    PROVE  TransportInv' /\ Leaves(c, {"completed", "gone"})
<1> DEFINE k == conn[c]
           r == k.req
           a == ran[r]
           new == Grown(r, ops)
           y == IF k.mode # "sse" THEN Reply(c, new)
                ELSE IF k.here THEN Written(c, Unwritten(c, new)) ELSE k
           x == Ended(y, "completed")
<1>1. /\ k \in Connection /\ k.new /\ r \in Requests /\ k.mode \in Modes /\ k.last >= -1
      /\ digest[r] # None /\ Streamed(k, nextSeq[r], a)
  BY Generator
<1>2. Buffer(r, ops) /\ conn' = [conn EXCEPT ![c] = x]
  BY DEF Complete
<1>3. /\ y \in Connection /\ y.new = k.new /\ y.req = r /\ y.mode = k.mode /\ y.last = k.last
      /\ y.n = k.n /\ Told(y, a)
  <2>1. CASE k.mode # "sse"
    <3>1. PICK g \in Seq(Event) :
              /\ Reply(c, new) = [k EXCEPT !.got = g]
              /\ \A i \in 1 .. Len(g) - 1 : g[i + 1].id = g[i].id + 1
              /\ g # <<>> => g[1].id = k.last + 1 \/ Len(g) = MaxEvents
      BY <2>1, Replied
    <3>2. y = [k EXCEPT !.got = g]
      BY <2>1, <3>1
    <3> QED
      BY <1>1, <2>1, <3>1, <3>2 DEF Connection, Streamed, Told
  <2>2. CASE k.mode = "sse" /\ k.here
    <3>1. PICK g \in Seq(Event), u \in Int :
              /\ Written(c, Unwritten(c, new)) = [k EXCEPT !.got = g, !.cursor = u]
              /\ \A i \in 1 .. Len(g) : g[i].id = k.last + i
              /\ u = k.last + Len(g) /\ u >= (nextSeq[r] + Len(ops)) - 1
              /\ k.last = -1 => \A i \in 1 .. Len(g) : g[i].att = a
      BY <2>2, CaughtUp
    <3>2. y = [k EXCEPT !.got = g, !.cursor = u]
      BY <2>2, <3>1
    <3>3. /\ y \in Connection /\ y.new = k.new /\ y.req = r /\ y.mode = k.mode /\ y.last = k.last
          /\ y.n = k.n /\ y.got = g /\ y.cursor = u
      BY <1>1, <3>2, ZenonT(60) DEF Connection
    <3> HIDE DEF y
    <3> QED
      BY <1>1, <2>2, <3>1, <3>3 DEF Told
  <2>3. CASE k.mode = "sse" /\ ~k.here
    <3>1. y = k
      BY <2>3
    <3> QED
      BY <1>1, <2>3, <3>1 DEF Connection, Streamed, Told
  <2> QED
    BY <2>1, <2>2, <2>3
<1> HIDE DEF y
<1>4. /\ x \in Connection /\ x.pc = "ended" /\ x.stage = "none" /\ x.new = k.new /\ x.req = r
      /\ x.mode = k.mode /\ x.last = k.last /\ x.got = y.got /\ x.cursor = y.cursor
      /\ x.n = k.n /\ x.end \in {"completed", "gone"}
  BY <1>3, EndedIs
<1> HIDE DEF x
<1>5. Admitted(x, digest[x.req], ran[x.req])
  BY <1>1, <1>4 DEF Admitted
<1>6. Streamed(x, nextSeq[x.req] + Len(ops), ran[x.req])
  BY <1>3, <1>4 DEF Streamed, Told
<1>7. TransportInv'
  BY <1>2, <1>4, <1>5, <1>6, BufferStep
<1> QED
  BY <1>2, <1>4, <1>7 DEF Leaves

\* A step that leaves the store alone.
LEMMA QuietStep ==
    ASSUME TransportInv, NEW c \in Conns, conn[c].pc \in {"running", "waiting", "orphan"},
           NEW x \in Connection, conn' = [conn EXCEPT ![c] = x],
           x.new = conn[c].new, x.req = conn[c].req,
           Admitted(x, digest[x.req], ran[x.req]),
           Streamed(x, nextSeq[x.req], ran[x.req]),
           UNCHANGED <<digest, buffer, nextSeq, ran, gateway, deaths>>,
           tunnels' \subseteq Requests,
           sock' \in [Requests -> {"none", "open", "dying", "closed"}],
           fed' \in [Requests -> Seq(Conns \X (1 .. Batch))]
    PROVE  TransportInv'
<1>1. \A d \in Conns \ {c} : conn[d].new => conn[d].req # conn[c].req
  BY Generator
<1>2. TypeOK /\ UnseenInv /\ RanInv /\ BufferInv
  BY DEF TransportInv, RequestInv
<1>3. RestOK' /\ BufferInv' /\ UnseenInv' /\ RanInv'
  BY <1>2 DEF TypeOK, RestOK, BufferInv, UnseenInv, RanInv
<1>4. \A d \in Conns \ {c} : conn[d].new =>
          /\ x.new => conn[d].req # x.req
          /\ digest'[conn[d].req] = digest[conn[d].req]
          /\ nextSeq'[conn[d].req] = nextSeq[conn[d].req]
          /\ ran'[conn[d].req] = ran[conn[d].req]
  BY <1>1
<1>5. Admitted(x, digest'[x.req], ran'[x.req]) /\ Streamed(x, nextSeq'[x.req], ran'[x.req])
  OBVIOUS
<1> QED
  BY <1>3, <1>4, <1>5, OwnStep, ZenonT(60)

\* What a live stream, or a reply in the making, is after an event.
LEMMA RelayedIs ==
    ASSUME TransportInv, NEW c \in Conns, conn[c].pc = "running",
           NEW ops \in Seq(Kinds), Len(ops) <= MaxEvents
    PROVE  LET x == Relayed(c, Grown(conn[c].req, ops), "body")
           IN /\ x \in Connection /\ x.new = conn[c].new /\ x.req = conn[c].req
              /\ x.n = conn[c].n /\ x.end = conn[c].end
              /\ x.pc \in {"running", "orphan"} /\ x.stage = "body"
              /\ Admitted(x, digest[x.req], ran[x.req])
              /\ Streamed(x, nextSeq[x.req] + Len(ops), ran[x.req])
<1> DEFINE k == conn[c]
           r == k.req
           a == ran[r]
           new == Grown(r, ops)
           x == Relayed(c, new, "body")
<1>1. /\ k \in Connection /\ k.new /\ r \in Requests /\ k.mode \in Modes /\ k.last >= -1
      /\ digest[r] # None /\ Streamed(k, nextSeq[r], a) /\ Admitted(k, digest[r], a)
      /\ nextSeq[r] \in Nat /\ Window(buffer[r], nextSeq[r]) /\ a \in Nat
  BY Generator
<1>2. CASE k.mode # "sse"
  <2>1. x = [k EXCEPT !.stage = "body"]
    BY <1>2 DEF Relayed
  <2>2. /\ x \in Connection /\ x.new = k.new /\ x.req = r /\ x.n = k.n /\ x.end = k.end
        /\ x.pc = "running" /\ x.stage = "body" /\ x.mode = k.mode /\ x.last = k.last
        /\ x.got = k.got /\ x.tries = k.tries
    BY <1>1, <2>1 DEF Connection
  <2> HIDE DEF x
  <2>3. Admitted(x, digest[r], a)
    BY <1>1, <2>2 DEF Admitted
  <2>4. Streamed(x, nextSeq[r] + Len(ops), a)
    BY <1>1, <1>2, <2>2 DEF Streamed, Told
  <2> QED
    BY <2>2, <2>3, <2>4 DEF x
<1>3. CASE k.mode = "sse"
  <2>1. PICK g \in Seq(Event), u \in Int :
              /\ Written(c, Unwritten(c, new)) = [k EXCEPT !.got = g, !.cursor = u]
              /\ \A i \in 1 .. Len(g) : g[i].id = k.last + i
              /\ u = k.last + Len(g) /\ u >= (nextSeq[r] + Len(ops)) - 1
              /\ k.last = -1 => \A i \in 1 .. Len(g) : g[i].att = a
    BY <1>3, CaughtUp
  <2>2. CASE k.here \/ Unwritten(c, new) = <<>>
    <3>1. x = [[k EXCEPT !.got = g, !.cursor = u] EXCEPT !.stage = "body"]
      BY <1>3, <2>1, <2>2 DEF Relayed
    <3>2. /\ x \in Connection /\ x.new = k.new /\ x.req = r /\ x.n = k.n /\ x.end = k.end
          /\ x.pc = "running" /\ x.stage = "body" /\ x.mode = k.mode /\ x.last = k.last
          /\ x.got = g /\ x.cursor = u /\ x.tries = k.tries
      BY <1>1, <3>1 DEF Connection
    <3> HIDE DEF x
    <3>3. Admitted(x, digest[r], a)
      BY <1>1, <3>2 DEF Admitted
    <3>4. Streamed(x, nextSeq[r] + Len(ops), a)
      BY <1>1, <1>3, <2>1, <3>2 DEF Streamed, Told
    <3> QED
      BY <3>2, <3>3, <3>4 DEF x
  <2>3. CASE ~(k.here \/ Unwritten(c, new) = <<>>)
    <3>1. x = [k EXCEPT !.pc = "orphan", !.stage = "body"]
      BY <1>3, <2>3 DEF Relayed
    <3>2. /\ x \in Connection /\ x.new = k.new /\ x.req = r /\ x.n = k.n /\ x.end = k.end
          /\ x.pc = "orphan" /\ x.stage = "body" /\ x.mode = k.mode /\ x.last = k.last
          /\ x.got = k.got /\ x.cursor = k.cursor
      BY <1>1, <3>1 DEF Connection
    <3> HIDE DEF x
    <3>3. Admitted(x, digest[r], a)
      BY <1>1, <3>2 DEF Admitted
    <3>4. Streamed(x, nextSeq[r] + Len(ops), a)
      BY <1>1, <1>3, <3>2 DEF Streamed, Told
    <3> QED
      BY <3>2, <3>3, <3>4 DEF x
  <2> QED
    BY <2>2, <2>3
<1> QED
  BY <1>2, <1>3

\* A connection that brings what the script says.
LEMMA Brought ==
    ASSUME NEW c \in Conns, NEW b \in Brings(c)
    PROVE  b[1] \in Requests /\ b[2] \in Modes /\ b[3] \in Int
<1>1. PICK s \in Scripts : c \in DOMAIN s /\ b = s[c]
  BY DEF Brings
<1>2. s[c] \in Requests \X Modes \X Int
  BY <1>1, ConstantsAssumption
<1> QED
  BY <1>1, <1>2

\* A connection nobody has opened yet.
LEMMA FreeIs ==
    /\ Free \in Connection /\ Free.pc = "free" /\ Free.stage = "none" /\ Free.new = FALSE
    /\ Free.got = <<>> /\ Free.tries = 0 /\ Free.n = 0 /\ Free.end = "open"
<1>1. 0 \in 0 .. MaxAttempts /\ <<>> \in Seq(Event) /\ -1 \in Int
  BY Bounds
<1> QED
  BY <1>1 DEF Free, Connection

\* A connection that is answered at once: it runs no generator.
LEMMA AnsweredStep ==
    ASSUME TransportInv, NEW c \in Conns,
           NEW x \in Connection, conn' = [conn EXCEPT ![c] = x],
           x.pc = "ended", x.stage = "none", ~x.new,
           \A i \in 1 .. Len(x.got) - 1 : x.got[i + 1].id = x.got[i].id + 1,
           x.got # <<>> => x.got[1].id = x.last + 1 \/ Len(x.got) = MaxEvents,
           digest' \in [Requests -> Tokens \cup {"frame", None}], UnseenInv',
           \A q \in Requests : digest[q] # None => digest'[q] = digest[q],
           UNCHANGED <<buffer, nextSeq, upstream, gateway, deaths>>
    PROVE  TransportInv'
<1>1. TypeOK /\ RanInv /\ BufferInv
  BY DEF TransportInv, RequestInv
<1>2. RestOK' /\ BufferInv' /\ RanInv'
  BY <1>1 DEF TypeOK, RestOK, BufferInv, RanInv, upstream
<1>3. \A d \in Conns \ {c} : conn[d].new => conn[d].req \in Requests /\ digest[conn[d].req] # None
  BY DEF TransportInv, RequestInv, AdmittedInv, Admitted
<1>4. Admitted(x, digest'[x.req], ran'[x.req]) /\ Streamed(x, nextSeq'[x.req], ran'[x.req])
  BY DEF Admitted, Streamed, Told
<1>5. \A d \in Conns \ {c} : conn[d].new =>
          /\ x.new => conn[d].req # x.req
          /\ digest'[conn[d].req] = digest[conn[d].req]
          /\ nextSeq'[conn[d].req] = nextSeq[conn[d].req]
          /\ ran'[conn[d].req] = ran[conn[d].req]
  BY <1>3 DEF upstream
<1> QED
  BY <1>2, <1>4, <1>5, OwnStep

(***************************************************************************)
(* The invariant is inductive.                                             *)
(***************************************************************************)

LEMMA TransportInit == Init => TransportInv
<1> SUFFICES ASSUME Init PROVE TransportInv
  OBVIOUS
<1>2. TypeOK
  <2>1. <<>> \in Seq(Event) /\ <<>> \in Seq(Conns \X (1 .. Batch)) /\ 0 \in 0 .. MaxDeaths
    BY Bounds
  <2> QED
    BY <2>1, FreeIs DEF Init, TypeOK
<1>3. BufferInv
  <2>1. Kept(0) = 0 /\ Len(<<>>) = 0 /\ <<>> \in Seq(Event)
    BY Bounds DEF Kept
  <2>2. Window(<<>>, 0)
    BY <2>1 DEF Window
  <2> QED
    BY <2>2 DEF Init, BufferInv
<1>4. UnseenInv /\ RanInv
  BY Bounds DEF Init, UnseenInv, RanInv
<1>6. \A c \in Conns : /\ conn[c].pc = "free" /\ conn[c].stage = "none" /\ conn[c].new = FALSE
                       /\ conn[c].got = <<>> /\ Len(conn[c].got) = 0
  BY FreeIs DEF Init
<1>7. AdmittedInv /\ Alone
  BY <1>6 DEF AdmittedInv, Admitted, Alone
<1>8. StreamInv
  <2> SUFFICES ASSUME NEW c \in Conns PROVE Streamed(conn[c], nextSeq[conn[c].req], ran[conn[c].req])
    BY DEF StreamInv
  <2>1. Told(conn[c], ran[conn[c].req])
    BY <1>6 DEF Told
  <2> QED
    BY <1>6, <2>1 DEF Streamed
<1> QED
  BY <1>2, <1>3, <1>4, <1>7, <1>8 DEF TransportInv, RequestInv

\* Arrivals.
LEMMA ArriveStep ==
    ASSUME TransportInv, NEW c \in Conns, conn[c].pc = "free",
           NEW r \in Requests, NEW mode \in Modes, NEW tok \in Tokens, NEW last \in Int,
           \/ Refuse(c, r, mode, tok, last) \/ Replay(c, r, mode, tok, last)
           \/ Misheaded(c, r, mode, tok, last) \/ Admit(c, r, mode, tok, last)
    PROVE  TransportInv'
<1> DEFINE o == Opened(r, mode, last)
           d == Digest(mode, tok)
<1>1. /\ o \in Connection /\ o.req = r /\ o.mode = mode /\ o.last = last /\ o.cursor = last
      /\ o.new = FALSE /\ o.got = <<>> /\ o.tries = 0
  BY FreeIs DEF Opened, Connection
<1>2. d \in Tokens \cup {"frame"} /\ d # None
  <2>1. tok \notin {"frame", None} /\ None # "frame"
    BY ConstantsAssumption
  <2> QED
    BY <2>1 DEF Digest
<1>3. TypeOK /\ BufferInv /\ UnseenInv /\ RanInv
  BY DEF TransportInv, RequestInv
<1> HIDE DEF o, d
<1>4. CASE Refuse(c, r, mode, tok, last)
  <2> DEFINE x == Ended(o, "refused")
  <2>1. x \in Connection /\ x.pc = "ended" /\ x.stage = "none" /\ ~x.new /\ x.got = <<>>
    BY <1>1, EndedIs
  <2>2. conn' = [conn EXCEPT ![c] = x] /\ UNCHANGED <<digest, buffer, nextSeq, upstream, gateway, deaths>>
    BY <1>4 DEF Refuse, store, o
  <2> HIDE DEF x
  <2>3. digest' \in [Requests -> Tokens \cup {"frame", None}] /\ UnseenInv'
    BY <1>3, <2>2 DEF TypeOK, UnseenInv, upstream
  <2>4. /\ \A i \in 1 .. Len(x.got) - 1 : x.got[i + 1].id = x.got[i].id + 1
        /\ x.got # <<>> => x.got[1].id = x.last + 1 \/ Len(x.got) = MaxEvents
    BY <2>1
  <2>5. \A q \in Requests : digest[q] # None => digest'[q] = digest[q]
    BY <2>2, <2>3
  <2> QED
    BY <2>1, <2>2, <2>3, <2>4, <2>5, AnsweredStep
<1>5. CASE Replay(c, r, mode, tok, last)
  <2> DEFINE g == After(buffer[r], last)
             y == [o EXCEPT !.got = g]
             x == Ended(y, "replayed")
  <2>0. last >= -1 /\ nextSeq[r] \in Nat /\ Window(buffer[r], nextSeq[r])
    BY <1>3, <1>5 DEF Replay, TypeOK, BufferInv
  <2>1. /\ g \in Seq(Event)
        /\ \A i \in 1 .. Len(g) - 1 : g[i + 1].id = g[i].id + 1
        /\ g # <<>> => g[1].id = last + 1 \/ Len(g) = MaxEvents
    <3>1. PICK n \in Nat : n = nextSeq[r]
      BY <2>0
    <3>2. Window(buffer[r], n)
      BY <2>0, <3>1
    <3> QED
      BY <2>0, <3>2, AfterWindow
  <2>2. conn' = [conn EXCEPT ![c] = x] /\ UNCHANGED <<digest, buffer, nextSeq, upstream, gateway, deaths>>
    BY <1>5 DEF Replay, store, o
  <2> HIDE DEF g
  <2>3. y \in Connection /\ y.new = FALSE /\ y.got = g /\ y.last = last
    BY <1>1, <2>1 DEF Connection
  <2> HIDE DEF y
  <2>4. x \in Connection /\ x.pc = "ended" /\ x.stage = "none" /\ x.new = FALSE /\ x.got = g /\ x.last = last
    BY <2>3, EndedIs
  <2> HIDE DEF x
  <2>5. digest' \in [Requests -> Tokens \cup {"frame", None}] /\ UnseenInv'
    BY <1>3, <2>2 DEF TypeOK, UnseenInv, upstream
  <2>6. /\ \A i \in 1 .. Len(x.got) - 1 : x.got[i + 1].id = x.got[i].id + 1
        /\ x.got # <<>> => x.got[1].id = x.last + 1 \/ Len(x.got) = MaxEvents
    BY <2>1, <2>4
  <2> QED
    BY <2>2, <2>4, <2>5, <2>6, AnsweredStep
<1>6. CASE Misheaded(c, r, mode, tok, last)
  <2> DEFINE x == Ended(o, "refused")
  <2>1. x \in Connection /\ x.pc = "ended" /\ x.stage = "none" /\ ~x.new /\ x.got = <<>>
    BY <1>1, EndedIs
  <2>2. /\ conn' = [conn EXCEPT ![c] = x] /\ UNCHANGED <<buffer, nextSeq, upstream, gateway, deaths>>
        /\ digest' = [digest EXCEPT ![r] = d] /\ digest[r] \in {None, d}
    BY <1>6 DEF Misheaded, FirstSeen, o, d
  <2> HIDE DEF x
  <2>3. digest' \in [Requests -> Tokens \cup {"frame", None}] /\ UnseenInv'
        /\ \A q \in Requests : digest[q] # None => digest'[q] = digest[q]
    BY <1>2, <1>3, <2>2 DEF TypeOK, UnseenInv, upstream
  <2>4. /\ \A i \in 1 .. Len(x.got) - 1 : x.got[i + 1].id = x.got[i].id + 1
        /\ x.got # <<>> => x.got[1].id = x.last + 1 \/ Len(x.got) = MaxEvents
    BY <2>1
  <2>5. \A q \in Requests : digest[q] # None => digest'[q] = digest[q]
    BY <2>2, <2>3
  <2> QED
    BY <2>1, <2>2, <2>3, <2>4, <2>5, AnsweredStep
<1>7. CASE Admit(c, r, mode, tok, last)
  <2> DEFINE x == [o EXCEPT !.pc = "running", !.stage = "call", !.new = TRUE]
  <2>1. /\ x \in Connection /\ x.pc = "running" /\ x.stage = "call" /\ x.new = TRUE /\ x.got = <<>>
        /\ x.req = r /\ x.mode = mode /\ x.last = last /\ x.cursor = last /\ x.tries = 0
    BY <1>1 DEF Connection
  <2>2. /\ conn' = [conn EXCEPT ![c] = x] /\ UNCHANGED <<buffer, nextSeq, upstream, gateway, deaths>>
        /\ digest' = [digest EXCEPT ![r] = d] /\ digest[r] = None /\ last >= -1
    BY <1>7 DEF Admit, FirstSeen, o, d
  <2> HIDE DEF x
  <2>3. nextSeq[r] = 0 /\ ran[r] = 0
    BY <1>3, <2>2 DEF UnseenInv
  <2>4. RestOK' /\ BufferInv' /\ UnseenInv' /\ RanInv'
    BY <1>2, <1>3, <2>2 DEF TypeOK, RestOK, BufferInv, UnseenInv, RanInv, upstream
  <2>5. \A e \in Conns \ {c} : conn[e].new => conn[e].req \in Requests /\ digest[conn[e].req] # None
    BY DEF TransportInv, RequestInv, AdmittedInv, Admitted
  <2>6. \A e \in Conns \ {c} : conn[e].new =>
            /\ x.new => conn[e].req # x.req
            /\ digest'[conn[e].req] = digest[conn[e].req]
            /\ nextSeq'[conn[e].req] = nextSeq[conn[e].req]
            /\ ran'[conn[e].req] = ran[conn[e].req]
    BY <1>3, <2>1, <2>2, <2>5 DEF upstream, TypeOK
  <2>7. digest'[r] = d /\ ran'[r] = 0 /\ nextSeq'[r] = 0
    BY <1>3, <2>2, <2>3 DEF upstream, TypeOK
  <2>8. Admitted(x, digest'[x.req], ran'[x.req])
    BY <1>2, <2>1, <2>2, <2>7, Bounds DEF Admitted
  <2>9. Streamed(x, nextSeq'[x.req], ran'[x.req])
    BY <2>1, <2>2, <2>7 DEF Streamed, Told
  <2> QED
    BY <2>1, <2>2, <2>4, <2>6, <2>8, <2>9, OwnStep
<1> QED
  BY <1>4, <1>5, <1>6, <1>7

\* A response that is cut off changes nothing but the generator's stage.
LEMMA CutIs ==
    ASSUME NEW k \in Connection, k.stage \in {"sent", "pinned", "body", "cut"},
           NEW d, NEW a, NEW n, Admitted(k, d, a), Streamed(k, n, a),
           NEW y, y = [k EXCEPT !.stage = "cut"]
    PROVE  /\ y \in Connection /\ Admitted(y, d, a) /\ Streamed(y, n, a)
           /\ y.new = k.new /\ y.req = k.req /\ y.n = k.n /\ y.pc = k.pc /\ y.end = k.end
           /\ y.stage = "cut"
<1>1. /\ y \in Connection /\ y.new = k.new /\ y.req = k.req /\ y.n = k.n /\ y.pc = k.pc
      /\ y.end = k.end /\ y.stage = "cut" /\ y.mode = k.mode /\ y.last = k.last
      /\ y.cursor = k.cursor /\ y.got = k.got /\ y.tries = k.tries
  BY DEF Connection
<1>2. Admitted(y, d, a)
  BY <1>1 DEF Admitted
<1>3. Streamed(y, n, a)
  BY <1>1 DEF Streamed, Told
<1> QED
  BY <1>1, <1>2, <1>3

\* What a cancellation makes of the connections.
LEMMA CancelConns ==
    ASSUME NEW c \in Conns, NEW r, NEW mode, NEW tok, NEW last, Cancel(c, r, mode, tok, last)
    PROVE  /\ conn'[c] = Ended([Opened(r, mode, last) EXCEPT
                                   !.got = After(Grown(r, <<"completed">>), last)], "completed")
           /\ \A e \in Conns \ {c} :
                \/ conn'[e] = conn[e]
                \/ /\ conn[e].stage \in {"pinned", "body", "cut"}
                   /\ conn[e].req = Target[r] /\ Op[Target[r]] # "tunnel"
                   /\ conn'[e] = [conn[e] EXCEPT !.stage = "cut"]
BY DEF Cancel, Cancellable

LEMMA CancelStep ==
    ASSUME TransportInv, NEW c \in Conns, conn[c].pc = "free",
           NEW r \in Requests, NEW mode \in Modes, NEW tok \in Tokens, NEW last \in Int,
           Cancel(c, r, mode, tok, last)
    PROVE  TransportInv'
<1> DEFINE o == Opened(r, mode, last)
           d == Digest(mode, tok)
           ops == <<"completed">>
           s == Grown(r, ops)
           g == After(s, last)
           y == [o EXCEPT !.got = g]
           x == Ended(y, "completed")
<1>1. /\ o \in Connection /\ o.req = r /\ o.mode = mode /\ o.last = last /\ o.new = FALSE
  BY FreeIs DEF Opened, Connection
<1>2. d \in Tokens \cup {"frame"} /\ d # None
  <2>1. tok \notin {"frame", None} /\ None # "frame"
    BY ConstantsAssumption
  <2> QED
    BY <2>1 DEF Digest
<1>3. TypeOK /\ BufferInv /\ UnseenInv /\ RanInv /\ AdmittedInv /\ Alone /\ StreamInv
  BY DEF TransportInv, RequestInv
<1>4. ops \in Seq(Kinds) /\ Len(ops) = 1
  BY DEF Kinds
<1>5. /\ digest' = [digest EXCEPT ![r] = d] /\ digest[r] = None /\ last >= -1
      /\ Buffer(r, ops) /\ UNCHANGED <<tunnels, fed, ran, gateway, deaths>>
  BY DEF Cancel, FirstSeen
<1>6. /\ conn'[c] = x
      /\ \A e \in Conns \ {c} :
            \/ conn'[e] = conn[e]
            \/ /\ conn[e].stage \in {"pinned", "body", "cut"}
               /\ conn'[e] = [conn[e] EXCEPT !.stage = "cut"]
  BY CancelConns
<1> HIDE DEF d, ops, o
<1>7. /\ buffer' \in [Requests -> Seq(Event)] /\ nextSeq' \in [Requests -> Nat] /\ BufferInv'
      /\ nextSeq'[r] = nextSeq[r] + Len(ops) /\ \A q \in Requests \ {r} : nextSeq'[q] = nextSeq[q]
  BY <1>4, <1>5, StoreGrown
<1>8. /\ g \in Seq(Event)
      /\ \A i \in 1 .. Len(g) - 1 : g[i + 1].id = g[i].id + 1
      /\ g # <<>> => g[1].id = last + 1 \/ Len(g) = MaxEvents
  <2>1. nextSeq[r] \in Nat /\ ran[r] \in Nat /\ Window(buffer[r], nextSeq[r])
    BY <1>3 DEF TypeOK, BufferInv
  <2>2. Window(s, nextSeq[r] + Len(ops))
    BY <2>1, <1>4, GrownWindow
  <2>3. PICK n \in Nat : n = nextSeq[r] + Len(ops)
    BY <2>1, <1>4
  <2>4. Window(s, n)
    BY <2>2, <2>3
  <2>5. last >= -1
    BY <1>5
  <2> HIDE DEF s
  <2>6. JoinsOn(g, last)
    BY <2>4, <2>5, AfterJoins, Zenon
  <2> HIDE DEF g
  <2> QED
    BY <2>6 DEF JoinsOn
<1> HIDE DEF g
<1>9. y \in Connection /\ y.new = FALSE /\ y.got = g /\ y.last = last
  BY <1>1, <1>8 DEF Connection
<1> HIDE DEF y
<1>10. x \in Connection /\ x.pc = "ended" /\ x.stage = "none" /\ x.new = FALSE /\ x.got = g /\ x.last = last
  BY <1>9, EndedIs
<1> HIDE DEF x
<1>11. ASSUME NEW z, NEW u, NEW v PROVE Admitted(x, z, u) /\ Streamed(x, v, u)
  BY <1>8, <1>10 DEF Admitted, Streamed, Told
<1>12. ASSUME NEW e \in Conns \ {c}
       PROVE  /\ conn'[e] \in Connection /\ conn'[e].new = conn[e].new /\ conn'[e].req = conn[e].req
              /\ Admitted(conn'[e], digest[conn[e].req], ran[conn[e].req])
              /\ Streamed(conn'[e], nextSeq[conn[e].req], ran[conn[e].req])
  <2>1. conn[e] \in Connection
    BY <1>3 DEF TypeOK
  <2>2. /\ Admitted(conn[e], digest[conn[e].req], ran[conn[e].req])
        /\ Streamed(conn[e], nextSeq[conn[e].req], ran[conn[e].req])
    BY <1>3 DEF AdmittedInv, StreamInv
  <2>3. CASE conn'[e] = conn[e]
    BY <2>1, <2>2, <2>3
  <2>4. CASE conn[e].stage \in {"pinned", "body", "cut"} /\ conn'[e] = [conn[e] EXCEPT !.stage = "cut"]
    BY <2>1, <2>2, <2>4, CutIs
  <2> QED
    BY <1>6, <2>3, <2>4
<1>13. conn' \in [Conns -> Connection]
  <2>1. conn' = [e \in Conns |-> conn'[e]]
    BY DEF Cancel
  <2> QED
    BY <1>6, <1>10, <1>12, <2>1
<1>14. sock' \in [Requests -> {"none", "open", "dying", "closed"}]
  BY <1>3 DEF Cancel, TypeOK
<1>15. TypeOK' /\ UnseenInv' /\ RanInv'
  BY <1>2, <1>3, <1>5, <1>7, <1>13, <1>14 DEF TypeOK, UnseenInv, RanInv
<1>16. \A e \in Conns : conn[e].new => conn[e].req \in Requests \ {r}
  BY <1>3, <1>5 DEF AdmittedInv, Admitted
<1>17. ASSUME NEW e \in Conns
       PROVE  /\ Admitted(conn'[e], digest'[conn'[e].req], ran'[conn'[e].req])
              /\ Streamed(conn'[e], nextSeq'[conn'[e].req], ran'[conn'[e].req])
  <2>1. CASE e = c
    BY <2>1, <1>6, <1>11
  <2>2. CASE e # c
    <3>1. CASE conn[e].new
      <4>1. /\ digest'[conn[e].req] = digest[conn[e].req] /\ nextSeq'[conn[e].req] = nextSeq[conn[e].req]
            /\ ran'[conn[e].req] = ran[conn[e].req]
        BY <3>1, <1>3, <1>5, <1>7, <1>16 DEF TypeOK
      <4> QED
        BY <2>2, <4>1, <1>12
    <3>2. CASE ~conn[e].new
      BY <2>2, <3>2, <1>12 DEF Admitted, Streamed, Told, Connection
    <3> QED
      BY <3>1, <3>2
  <2> QED
    BY <2>1, <2>2
<1>18. Alone'
  BY <1>3, <1>6, <1>10, <1>12 DEF Alone
<1> QED
  BY <1>7, <1>15, <1>17, <1>18 DEF TransportInv, RequestInv, AdmittedInv, StreamInv

\* The gateway exits.
LEMMA DeathStep ==
    ASSUME TransportInv, GatewayDies
    PROVE  TransportInv'
<1>1. TypeOK /\ BufferInv /\ UnseenInv /\ RanInv /\ AdmittedInv /\ Alone /\ StreamInv
  BY DEF TransportInv, RequestInv
<1>2. ASSUME NEW e \in Conns
      PROVE  /\ conn'[e] \in Connection /\ conn'[e].new = conn[e].new /\ conn'[e].req = conn[e].req
             /\ Admitted(conn'[e], digest[conn[e].req], ran[conn[e].req])
             /\ Streamed(conn'[e], nextSeq[conn[e].req], ran[conn[e].req])
  <2>1. conn[e] \in Connection
    BY <1>1 DEF TypeOK
  <2>2. /\ Admitted(conn[e], digest[conn[e].req], ran[conn[e].req])
        /\ Streamed(conn[e], nextSeq[conn[e].req], ran[conn[e].req])
    BY <1>1 DEF AdmittedInv, StreamInv
  <2>3. CASE conn'[e] = conn[e]
    BY <2>1, <2>2, <2>3
  <2>4. CASE conn[e].stage \in {"sent", "pinned", "body"} /\ conn'[e] = [conn[e] EXCEPT !.stage = "cut"]
    BY <2>1, <2>2, <2>4, CutIs
  <2> QED
    BY <2>3, <2>4 DEF GatewayDies
<1>3. conn' \in [Conns -> Connection]
  <2>1. conn' = [e \in Conns |-> conn'[e]]
    BY DEF GatewayDies
  <2> QED
    BY <1>2, <2>1
<1>4. /\ UNCHANGED <<digest, buffer, nextSeq, tunnels, fed, ran>>
      /\ deaths' \in 0 .. MaxDeaths /\ gateway' \in [up : BOOLEAN, ready : BOOLEAN, held : BOOLEAN]
      /\ sock' \in [Requests -> {"none", "open", "dying", "closed"}]
  <2>1. UNCHANGED <<digest, buffer, nextSeq, tunnels, fed, ran>>
    BY DEF GatewayDies, store
  <2>2. deaths' \in 0 .. MaxDeaths
    BY <1>1, Bounds DEF GatewayDies, TypeOK
  <2>3. gateway' \in [up : BOOLEAN, ready : BOOLEAN, held : BOOLEAN]
    BY <1>1 DEF GatewayDies, TypeOK
  <2>4. sock' \in [Requests -> {"none", "open", "dying", "closed"}]
    BY <1>1 DEF GatewayDies, TypeOK
  <2> QED
    BY <2>1, <2>2, <2>3, <2>4
<1>5. TypeOK' /\ BufferInv' /\ UnseenInv' /\ RanInv'
  BY <1>1, <1>3, <1>4 DEF TypeOK, BufferInv, UnseenInv, RanInv
<1>6. Alone'
  BY <1>1, <1>2 DEF Alone
<1>7. AdmittedInv' /\ StreamInv'
  BY <1>2, <1>4 DEF AdmittedInv, StreamInv
<1> QED
  BY <1>5, <1>6, <1>7 DEF TransportInv, RequestInv

\* A step of nothing but the gateway.
LEMMA GatewayStep ==
    ASSUME TransportInv, UNCHANGED <<digest, buffer, nextSeq, conn, tunnels, sock, fed, ran, deaths>>,
           gateway' \in [up : BOOLEAN, ready : BOOLEAN, held : BOOLEAN]
    PROVE  TransportInv'
<1>1. TypeOK'
  BY DEF TransportInv, TypeOK
<1>2. RequestInv'
  BY DEF TransportInv, RequestInv, BufferInv, UnseenInv, AdmittedInv, Alone, RanInv
<1>3. StreamInv'
  BY DEF TransportInv, StreamInv
<1> QED
  BY <1>1, <1>2, <1>3 DEF TransportInv

LEMMA RestartTypes ==
    ASSUME TypeOK, RestartGateway
    PROVE  gateway' \in [up : BOOLEAN, ready : BOOLEAN, held : BOOLEAN]
BY DEF TypeOK, RestartGateway

\* The steps of a generator, and what becomes of it.
LEMMA GeneratorStep ==
    ASSUME TransportInv, NEW c \in Conns,
           \/ Retry(c) \/ EnsureGateway(c) \/ Deny(c) \/ Synthesize(c) \/ Call(c) \/ PinDefault(c)
           \/ Respond(c) \/ Delta(c) \/ Finish(c) \/ Fail(c) \/ Break(c) \/ OpenFeed(c) \/ Feed(c)
           \/ Delivered(c) \/ CloseTunnel(c) \/ Vanish(c) \/ Finalise(c)
    PROVE  TransportInv'
<1> DEFINE k == conn[c]
           r == k.req
<1>1. TypeOK /\ UnseenInv /\ RanInv /\ BufferInv
  BY DEF TransportInv, RequestInv
<1>2. ASSUME k.pc \in {"running", "waiting", "orphan"}
      PROVE  /\ k \in Connection /\ k.new /\ r \in Requests /\ k.mode \in Modes /\ k.last >= -1
             /\ digest[r] # None /\ Streamed(k, nextSeq[r], ran[r]) /\ Admitted(k, digest[r], ran[r])
             /\ nextSeq[r] \in Nat /\ ran[r] \in Nat
             /\ \A d \in Conns \ {c} : conn[d].new => conn[d].req # r
  BY <1>2, Generator
<1>3. /\ tunnels \subseteq Requests /\ sock \in [Requests -> {"none", "open", "dying", "closed"}]
      /\ fed \in [Requests -> Seq(Conns \X (1 .. Batch))]
      /\ gateway \in [up : BOOLEAN, ready : BOOLEAN, held : BOOLEAN]
  BY <1>1 DEF TypeOK
<1>4. <<"completed">> \in Seq(Kinds) /\ Len(<<"completed">>) <= MaxEvents
  BY Bounds DEF Kinds
<1>5. CASE Retry(c)
  <2> DEFINE x == [k EXCEPT !.pc = "running", !.stage = "call", !.n = 0]
  <2>1. k.pc = "waiting" /\ conn' = [conn EXCEPT ![c] = x] /\ UNCHANGED <<store, upstream, gateway, deaths>>
    BY <1>5 DEF Retry
  <2>2. /\ x \in Connection /\ x.new = k.new /\ x.req = r /\ x.mode = k.mode /\ x.last = k.last
        /\ x.got = k.got /\ x.cursor = k.cursor /\ x.tries = k.tries /\ x.pc = "running" /\ x.stage = "call"
    BY <1>2, <2>1 DEF Connection
  <2> HIDE DEF x
  <2>3. Admitted(x, digest[r], ran[r])
    BY <1>2, <2>1, <2>2 DEF Admitted, Connection
  <2>4. Streamed(x, nextSeq[r], ran[r])
    BY <1>2, <2>1, <2>2 DEF Streamed, Told
  <2> QED
    BY <1>3, <2>1, <2>2, <2>3, <2>4, QuietStep DEF store, upstream
<1>6. CASE EnsureGateway(c)
  <2>1. k.pc = "running" /\ gateway' \in [up : BOOLEAN, ready : BOOLEAN, held : BOOLEAN]
    BY <1>1, <1>3, <1>6, RestartTypes DEF EnsureGateway, At
  <2>2. CASE gateway'.up
    BY <1>6, <2>1, <2>2, GatewayStep DEF EnsureGateway
  <2>3. CASE ~gateway'.up
    BY <1>6, <2>1, <2>3, TransientStep DEF EnsureGateway
  <2> QED
    BY <2>2, <2>3
<1>7. CASE Deny(c)
  BY <1>7, RaiseStep DEF Deny, At
<1>8. CASE Synthesize(c)
  <2>1. <<"accepted", "delta", "completed">> \in Seq(Kinds) /\ Len(<<"accepted", "delta", "completed">>) <= MaxEvents
    BY Bounds DEF Kinds
  <2> QED
    BY <1>3, <1>8, <2>1, CompleteStep DEF Synthesize, At, upstream
<1>9. CASE Call(c)
  <2> DEFINE x == [k EXCEPT !.stage = "sent"]
  <2>1. /\ k.pc = "running" /\ k.stage = "call" /\ conn' = [conn EXCEPT ![c] = x]
        /\ ran' = [ran EXCEPT ![r] = @ + 1]
        /\ UNCHANGED <<digest, buffer, nextSeq, tunnels, sock, fed, gateway, deaths>>
    BY <1>9 DEF Call, At, store
  <2>2. /\ x \in Connection /\ x.new = k.new /\ x.req = r /\ x.mode = k.mode /\ x.last = k.last
        /\ x.got = k.got /\ x.cursor = k.cursor /\ x.tries = k.tries /\ x.pc = "running" /\ x.stage = "sent"
    BY <1>2, <2>1 DEF Connection
  <2> HIDE DEF x
  <2>3. ran[r] <= k.tries /\ k.tries < MaxAttempts /\ k.tries \in Nat /\ r \in Requests /\ ran[r] \in Nat
    BY <1>2, <2>1 DEF Admitted, Connection
  <2>4. ran'[r] = ran[r] + 1 /\ \A q \in Requests \ {r} : ran'[q] = ran[q]
    BY <1>1, <2>1, <2>3 DEF TypeOK
  <2>5. Admitted(x, digest'[x.req], ran'[x.req])
    BY <1>2, <2>1, <2>2, <2>3, <2>4 DEF Admitted
  <2>6. Streamed(x, nextSeq'[x.req], ran'[x.req])
    <3>1. CASE k.mode = "sse"
      <4>1. Len(k.got) \in Nat /\ (k.last = -1 => Len(k.got) = 0 /\ k.got = <<>>)
        BY <1>2, <2>1, <3>1 DEF Streamed, Connection
      <4> QED
        BY <1>2, <2>1, <2>2, <3>1, <4>1 DEF Streamed, Told
    <3>2. CASE k.mode # "sse"
      BY <1>2, <2>1, <2>2, <3>2 DEF Streamed, Told
    <3> QED
      BY <3>1, <3>2
  <2>7. RestOK' /\ BufferInv' /\ UnseenInv' /\ RanInv'
    <3>1. digest[r] # None
      BY <1>2, <2>1
    <3> QED
      BY <1>1, <2>1, <2>3, <2>4, <3>1, Bounds DEF TypeOK, RestOK, BufferInv, UnseenInv, RanInv
  <2>8. \A d \in Conns \ {c} : conn[d].new => conn[d].req \in Requests /\ conn[d].req # r
    BY <1>2, <2>1 DEF TransportInv, RequestInv, AdmittedInv, Admitted
  <2>9. \A d \in Conns \ {c} : conn[d].new =>
            /\ x.new => conn[d].req # x.req
            /\ digest'[conn[d].req] = digest[conn[d].req]
            /\ nextSeq'[conn[d].req] = nextSeq[conn[d].req]
            /\ ran'[conn[d].req] = ran[conn[d].req]
    BY <2>1, <2>2, <2>4, <2>8
  <2> QED
    BY <2>1, <2>2, <2>5, <2>6, <2>7, <2>9, OwnStep
<1>10. CASE PinDefault(c)
  <2> DEFINE x == [k EXCEPT !.stage = "pinned"]
  <2>1. k.pc = "running" /\ k.stage = "sent" /\ conn' = [conn EXCEPT ![c] = x] /\ UNCHANGED <<store, upstream, gateway, deaths>>
    BY <1>10 DEF PinDefault, At
  <2>2. /\ x \in Connection /\ x.new = k.new /\ x.req = r /\ x.mode = k.mode /\ x.last = k.last
        /\ x.got = k.got /\ x.cursor = k.cursor /\ x.tries = k.tries /\ x.pc = "running" /\ x.stage = "pinned"
    BY <1>2, <2>1 DEF Connection
  <2> HIDE DEF x
  <2>3. Admitted(x, digest[r], ran[r])
    BY <1>2, <2>1, <2>2 DEF Admitted, Connection
  <2>4. Streamed(x, nextSeq[r], ran[r])
    BY <1>2, <2>1, <2>2 DEF Streamed, Told
  <2> QED
    BY <1>3, <2>1, <2>2, <2>3, <2>4, QuietStep DEF store, upstream
<1>11. CASE Respond(c)
  <2> DEFINE x == Relayed(c, Grown(r, <<"accepted">>), "body")
  <2>1. <<"accepted">> \in Seq(Kinds) /\ Len(<<"accepted">>) <= MaxEvents
    BY Bounds DEF Kinds
  <2>2. /\ k.pc = "running" /\ Buffer(r, <<"accepted">>) /\ conn' = [conn EXCEPT ![c] = x]
        /\ UNCHANGED <<digest, fed, ran, gateway, deaths>>
    BY <1>11 DEF Respond, At
  <2>3. tunnels' \subseteq Requests /\ sock' \in [Requests -> {"none", "open", "dying", "closed"}]
    BY <1>2, <1>3, <1>11, <2>2, ZenonT(60) DEF Respond
  <2>4. /\ x \in Connection /\ x.new = k.new /\ x.req = r /\ Admitted(x, digest[x.req], ran[x.req])
        /\ Streamed(x, nextSeq[x.req] + Len(<<"accepted">>), ran[x.req])
    BY <2>1, <2>2, RelayedIs
  <2> HIDE DEF x
  <2> QED
    BY <2>1, <2>2, <2>3, <2>4, BufferStep
<1>12. CASE Delta(c)
  <2>1. PICK m \in 1 .. MaxChunks :
          /\ Buffer(r, Chunks("delta", m))
          /\ conn' = [conn EXCEPT ![c] = [Relayed(c, Grown(r, Chunks("delta", m)), "body") EXCEPT !.n = @ + 1]]
    BY <1>12 DEF Delta
  <2> DEFINE ops == Chunks("delta", m)
             y == Relayed(c, Grown(r, ops), "body")
             x == [y EXCEPT !.n = @ + 1]
  <2>2. ops \in Seq(Kinds) /\ Len(ops) <= MaxEvents
    <3>1. m \in Nat /\ m <= MaxEvents
      BY Bounds
    <3>2. ops \in Seq(Kinds) /\ Len(ops) = m
      BY <3>1 DEF Chunks, Kinds
    <3> QED
      BY <3>1, <3>2
  <2>3. /\ k.pc = "running" /\ conn' = [conn EXCEPT ![c] = x] /\ Buffer(r, ops)
        /\ UNCHANGED <<digest, upstream, gateway, deaths>>
    BY <1>12, <2>1 DEF Delta, At
  <2> HIDE DEF ops
  <2>4. /\ y \in Connection /\ y.new = k.new /\ y.req = r /\ Admitted(y, digest[y.req], ran[y.req])
        /\ Streamed(y, nextSeq[y.req] + Len(ops), ran[y.req])
    BY <2>2, <2>3, RelayedIs
  <2> HIDE DEF y
  <2>5. /\ x \in Connection /\ x.new = y.new /\ x.req = y.req /\ x.mode = y.mode /\ x.last = y.last /\ x.pc = y.pc
        /\ x.got = y.got /\ x.cursor = y.cursor /\ x.tries = y.tries /\ x.stage = y.stage
    BY <2>4 DEF Connection
  <2> HIDE DEF x
  <2>6. Admitted(x, digest[x.req], ran[x.req])
    BY <2>4, <2>5 DEF Admitted
  <2>7. Streamed(x, nextSeq[x.req] + Len(ops), ran[x.req])
    BY <2>4, <2>5 DEF Streamed, Told
  <2>8. x.new = conn[c].new /\ x.req = conn[c].req /\ UNCHANGED <<tunnels, sock, fed, ran>>
    BY <2>3, <2>4, <2>5 DEF upstream
  <2> QED
    BY <1>3, <2>2, <2>3, <2>5, <2>6, <2>7, <2>8, BufferStep
<1>13. CASE Finish(c)
  <2>1. tunnels' \subseteq Requests /\ sock' \in [Requests -> {"none", "open", "dying", "closed"}]
    BY <1>1, <1>13, ReleaseTypes DEF Finish
  <2> QED
    BY <1>4, <1>13, <2>1, CompleteStep DEF Finish, At
<1>14. CASE Fail(c)
  BY <1>3, <1>14, TransientStep DEF Fail, At
<1>15. CASE Break(c)
  BY <1>15, RaiseStep DEF Break, At
<1>16. CASE OpenFeed(c)
  <2>1. CASE Raise(c)
    BY <1>16, <2>1, RaiseStep DEF OpenFeed, At
  <2>2. CASE ~Raise(c)
    <3> DEFINE x == [k EXCEPT !.stage = "feed"]
    <3>1. /\ k.pc = "running" /\ k.stage = "call" /\ conn' = [conn EXCEPT ![c] = x]
          /\ UNCHANGED <<digest, buffer, nextSeq, tunnels, sock, fed, ran, gateway, deaths>>
      BY <1>16, <2>2 DEF OpenFeed, At
    <3>2. /\ x \in Connection /\ x.new = k.new /\ x.req = r /\ x.mode = k.mode /\ x.last = k.last
          /\ x.got = k.got /\ x.cursor = k.cursor /\ x.tries = k.tries /\ x.pc = "running" /\ x.stage = "feed"
      BY <1>2, <3>1 DEF Connection
    <3> HIDE DEF x
    <3>3. Admitted(x, digest[r], ran[r])
      BY <1>2, <3>1, <3>2 DEF Admitted, Connection
    <3>4. Streamed(x, nextSeq[r], ran[r])
      BY <1>2, <3>1, <3>2 DEF Streamed, Told
    <3> QED
      BY <1>3, <3>1, <3>2, <3>3, <3>4, QuietStep
  <2> QED
    BY <2>1, <2>2
<1>17. CASE Feed(c)
  <2>1. /\ k.pc = "running" /\ k.stage = "feed" /\ k.n < Batch
        /\ UNCHANGED <<digest, buffer, nextSeq, tunnels, sock, ran, gateway, deaths>>
    BY <1>17 DEF Feed, At, store
  <2>2. CASE /\ fed' = [fed EXCEPT ![Target[r]] = @ \o << <<c, NextFrame(c)>> >>]
             /\ conn' = [conn EXCEPT ![c].n = @ + 1]
    <3> DEFINE x == [k EXCEPT !.n = @ + 1]
    <3>1. /\ x \in Connection /\ x.new = k.new /\ x.req = r /\ x.mode = k.mode /\ x.last = k.last
          /\ x.got = k.got /\ x.cursor = k.cursor /\ x.tries = k.tries /\ x.pc = k.pc /\ x.stage = k.stage
      BY <1>2, <2>1, SMTT(30) DEF Connection
    <3>2. conn' = [conn EXCEPT ![c] = x]
      BY <2>2
    <3> HIDE DEF x
    <3>3. Admitted(x, digest[r], ran[r])
      BY <1>2, <2>1, <3>1 DEF Admitted, Connection
    <3>4. Streamed(x, nextSeq[r], ran[r])
      BY <1>2, <2>1, <3>1 DEF Streamed, Told
    <3>5. fed' \in [Requests -> Seq(Conns \X (1 .. Batch))]
      <4>1. k.n + 1 \in 1 .. Batch /\ Target[r] \in Requests
        BY <1>2, <2>1, Bounds, ConstantsAssumption, SMTT(30) DEF Connection
      <4>2. << <<c, k.n + 1>> >> \in Seq(Conns \X (1 .. Batch))
        BY <4>1
      <4> QED
        BY <1>3, <2>2, <4>1, <4>2 DEF NextFrame
    <3> QED
      BY <1>3, <2>1, <3>1, <3>2, <3>3, <3>4, <3>5, QuietStep
  <2>3. CASE /\ conn' = [conn EXCEPT ![c] = Ended(k, IF k.mode = "sse" THEN "reset" ELSE "refused")]
             /\ UNCHANGED fed
    <3> DEFINE how == IF k.mode = "sse" THEN "reset" ELSE "refused"
               x == Ended(k, how)
    <3>1. how \in {"completed", "replayed", "error", "refused", "broken", "reset", "gone"} /\ k \in Connection
      BY <1>2, <2>1
    <3> HIDE DEF how
    <3>2. /\ x \in Connection /\ x.new = k.new /\ x.req = r /\ x.mode = k.mode /\ x.last = k.last
          /\ x.got = k.got /\ x.cursor = k.cursor /\ x.pc = "ended" /\ x.stage = "none"
      BY <3>1, EndedIs
    <3>3. conn' = [conn EXCEPT ![c] = x]
      BY <2>3 DEF how
    <3> HIDE DEF x
    <3>4. Admitted(x, digest[r], ran[r])
      BY <1>2, <2>1, <3>2 DEF Admitted
    <3>5. Streamed(x, nextSeq[r], ran[r])
      BY <1>2, <2>1, <3>2 DEF Streamed, Told
    <3> QED
      BY <1>3, <2>1, <2>3, <3>2, <3>3, <3>4, <3>5, QuietStep
  <2> QED
    BY <1>17, <2>2, <2>3 DEF Feed
<1>18. CASE Delivered(c)
  BY <1>3, <1>4, <1>18, CompleteStep DEF Delivered, At, upstream
<1>19. CASE CloseTunnel(c)
  <2>1. tunnels' \subseteq Requests /\ sock' \in [Requests -> {"none", "open", "dying", "closed"}]
    BY <1>1, <1>19, ReleaseTypes DEF CloseTunnel
  <2> QED
    BY <1>4, <1>19, <2>1, CompleteStep DEF CloseTunnel, At
<1>20. CASE Vanish(c)
  <2> DEFINE x == [k EXCEPT !.here = FALSE]
  <2>1. k.pc \in {"running", "waiting"} /\ conn' = [conn EXCEPT ![c] = x] /\ UNCHANGED <<store, upstream, gateway, deaths>>
    BY <1>20 DEF Vanish
  <2>2. /\ x \in Connection /\ x.new = k.new /\ x.req = r /\ x.mode = k.mode /\ x.last = k.last
        /\ x.got = k.got /\ x.cursor = k.cursor /\ x.tries = k.tries /\ x.pc = k.pc /\ x.stage = k.stage
    BY <1>2, <2>1 DEF Connection
  <2> HIDE DEF x
  <2>3. Admitted(x, digest[r], ran[r])
    BY <1>2, <2>1, <2>2 DEF Admitted, Connection
  <2>4. Streamed(x, nextSeq[r], ran[r])
    BY <1>2, <2>1, <2>2 DEF Streamed, Told
  <2> QED
    BY <1>3, <2>1, <2>2, <2>3, <2>4, QuietStep DEF store, upstream
<1>21. CASE Finalise(c)
  <2> DEFINE x == Ended(k, "gone")
  <2>1. /\ k.pc = "orphan" /\ conn' = [conn EXCEPT ![c] = x]
        /\ UNCHANGED <<store, fed, ran, gateway, deaths>> /\ Release(r)
    BY <1>21 DEF Finalise
  <2>2. k \in Connection
    BY <1>2, <2>1
  <2>3. /\ x \in Connection /\ x.new = k.new /\ x.req = r /\ x.mode = k.mode /\ x.last = k.last
        /\ x.got = k.got /\ x.cursor = k.cursor /\ x.pc = "ended" /\ x.stage = "none"
    BY <2>2, EndedIs
  <2> HIDE DEF x
  <2>4. Admitted(x, digest[r], ran[r])
    BY <1>2, <2>1, <2>3 DEF Admitted
  <2>5. Streamed(x, nextSeq[r], ran[r])
    BY <1>2, <2>1, <2>3 DEF Streamed, Told
  <2>6. tunnels' \subseteq Requests /\ sock' \in [Requests -> {"none", "open", "dying", "closed"}]
    BY <1>1, <2>1, ReleaseTypes
  <2> QED
    BY <1>3, <2>1, <2>3, <2>4, <2>5, <2>6, QuietStep DEF store
<1> QED
  BY <1>5, <1>6, <1>7, <1>8, <1>9, <1>10, <1>11, <1>12, <1>13, <1>14, <1>15, <1>16, <1>17,
     <1>18, <1>19, <1>20, <1>21

LEMMA TransportNext == TransportInv /\ [Next]_vars => TransportInv'
<1> SUFFICES ASSUME TransportInv, [Next]_vars PROVE TransportInv'
  OBVIOUS
<1>1. ASSUME NEW c \in Conns, Arrive(c) PROVE TransportInv'
  <2>1. PICK b \in Brings(c), tok \in Tokens :
         \/ Refuse(c, b[1], b[2], tok, b[3]) \/ Replay(c, b[1], b[2], tok, b[3])
         \/ Misheaded(c, b[1], b[2], tok, b[3]) \/ Admit(c, b[1], b[2], tok, b[3])
         \/ Cancel(c, b[1], b[2], tok, b[3])
    BY <1>1 DEF Arrive
  <2>2. b[1] \in Requests /\ b[2] \in Modes /\ b[3] \in Int /\ conn[c].pc = "free"
    BY <1>1, Brought DEF Arrive
  <2> QED
    BY <2>1, <2>2, ArriveStep, CancelStep
<1>2. CASE \E c \in Conns :
              \/ Retry(c) \/ EnsureGateway(c) \/ Deny(c) \/ Synthesize(c) \/ Call(c) \/ PinDefault(c)
              \/ Respond(c) \/ Delta(c) \/ Finish(c) \/ Fail(c) \/ Break(c) \/ OpenFeed(c) \/ Feed(c)
              \/ Delivered(c) \/ CloseTunnel(c) \/ Vanish(c) \/ Finalise(c)
  BY <1>2, GeneratorStep
<1>3. TypeOK
  BY DEF TransportInv
<1>4. CASE Ping
  <2>1. gateway' \in [up : BOOLEAN, ready : BOOLEAN, held : BOOLEAN]
    BY <1>3, <1>4, RestartTypes DEF Ping
  <2> QED
    BY <1>4, <2>1, GatewayStep DEF Ping, store, upstream
<1>5. CASE BackoffElapses
  <2>1. gateway' \in [up : BOOLEAN, ready : BOOLEAN, held : BOOLEAN]
    BY <1>3, <1>5 DEF BackoffElapses, TypeOK
  <2> QED
    BY <1>5, <2>1, GatewayStep DEF BackoffElapses, store, upstream
<1>6. CASE GatewayDies
  BY <1>6, DeathStep
<1>7. CASE UNCHANGED vars
  <2>1. gateway' \in [up : BOOLEAN, ready : BOOLEAN, held : BOOLEAN]
    BY <1>3, <1>7 DEF TypeOK, vars
  <2> QED
    BY <1>7, <2>1, GatewayStep DEF vars
<1> QED
  BY <1>1, <1>2, <1>4, <1>5, <1>6, <1>7 DEF Next

(***************************************************************************)
(* The digest window, the buffers and the cursors fit each other in every  *)
(* reachable state (IdempotencyWindow.check, EventBuffer, _stream_live).   *)
(***************************************************************************)
THEOREM TransportInvariant == Spec => []TransportInv
<1>1. Init => TransportInv
  BY TransportInit
<1>2. TransportInv /\ [Next]_vars => TransportInv'
  BY TransportNext
<1> QED
  BY <1>1, <1>2, PTL DEF Spec

(***************************************************************************)
(* A reply has no hole, whatever the buffer's size, the number of retries  *)
(* and the events of an answer (EventBuffer.after, the cursor of           *)
(* _stream_live).                                                          *)
(***************************************************************************)
THEOREM RepliesHaveNoHoles == Spec => []NoHoles
<1>1. TransportInv => NoHoles
  <2> SUFFICES ASSUME TransportInv, NEW c \in Conns, conn[c].got # <<>>
               PROVE  /\ \A i \in 1 .. Len(conn[c].got) - 1 : conn[c].got[i + 1].id = conn[c].got[i].id + 1
                      /\ \/ conn[c].got[1].id = conn[c].last + 1
                         \/ ~Live(c) /\ Len(conn[c].got) = MaxEvents
    BY DEF NoHoles
  <2>1. Told(conn[c], ran[conn[c].req]) /\ conn[c] \in Connection
    BY DEF TransportInv, TypeOK, StreamInv, Streamed
  <2>2. conn[c].got \in Seq(Event) /\ conn[c].last \in Int /\ Len(conn[c].got) >= 1
    BY <2>1 DEF Connection
  <2>3. CASE Live(c)
    <3>1. \A i \in 1 .. Len(conn[c].got) : conn[c].got[i].id = conn[c].last + i
      BY <2>1, <2>3 DEF Told, Live
    <3>2. ASSUME NEW i \in 1 .. Len(conn[c].got) - 1 PROVE conn[c].got[i + 1].id = conn[c].got[i].id + 1
      <4>1. i \in 1 .. Len(conn[c].got) /\ i + 1 \in 1 .. Len(conn[c].got)
        BY <2>2
      <4>2. conn[c].got[i].id = conn[c].last + i /\ conn[c].got[i + 1].id = conn[c].last + (i + 1)
        BY <3>1, <4>1
      <4>3. conn[c].last + (i + 1) = (conn[c].last + i) + 1
        BY <2>2, <4>1
      <4> QED
        BY <4>2, <4>3
    <3>3. conn[c].got[1].id = conn[c].last + 1
      BY <2>2, <3>1
    <3> QED
      BY <3>2, <3>3
  <2>4. CASE ~Live(c)
    BY <2>1, <2>4 DEF Told, Live
  <2> QED
    BY <2>3, <2>4
<1> QED
  BY <1>1, TransportInvariant, PTL

(***************************************************************************)
(* A live stream never splices two calls of the gateway, however often the *)
(* backend is retried (the retry rule of _stream_live).                    *)
(***************************************************************************)
THEOREM StreamsAreOneAttempt == Spec => []OneAttemptPerStream
<1>1. TransportInv => OneAttemptPerStream
  <2> SUFFICES ASSUME TransportInv, NEW c \in Conns, Live(c), conn[c].last = -1,
                      NEW i \in DOMAIN conn[c].got, NEW j \in DOMAIN conn[c].got
               PROVE  conn[c].got[i].att = conn[c].got[j].att
    BY DEF OneAttemptPerStream
  <2>1. Told(conn[c], ran[conn[c].req]) /\ conn[c] \in Connection
    BY DEF TransportInv, TypeOK, StreamInv, Streamed
  <2>2. DOMAIN conn[c].got = 1 .. Len(conn[c].got)
    BY <2>1 DEF Connection
  <2> QED
    BY <2>1, <2>2 DEF Told, Live
<1> QED
  BY <1>1, TransportInvariant, PTL

(***************************************************************************)
(* A request id runs one generator and no more calls than attempts,        *)
(* whatever connections repeat it (IdempotencyWindow.check).               *)
(***************************************************************************)
THEOREM RequestsRunOnce == Spec => []RunsOnce
<1>1. TransportInv => RunsOnce
  BY DEF TransportInv, RequestInv, RanInv, Alone, RunsOnce
<1> QED
  BY <1>1, TransportInvariant, PTL

(***************************************************************************)
(* Tunnels and their readers.                                              *)
(***************************************************************************)

\* A step of c keeps every other reader, and c reads on, or its tunnel goes.
LEMMA ReadersKept ==
    ASSUME TypeOK, TunnelInv, NEW c \in Conns, NEW x, conn' = [conn EXCEPT ![c] = x],
           NEW q, Release(q) \/ UNCHANGED <<tunnels, sock>>,
           \A t \in tunnels' : Reads(conn[c], t) => Reads(x, t)
    PROVE  TunnelInv'
<1>1. \A t \in Requests : t \in tunnels' => t \in tunnels
  BY DEF Release
<1>2. \A t \in Requests : sock'[t] \in {"open", "dying"} => t \in tunnels'
  <2>1. sock \in [Requests -> {"none", "open", "dying", "closed"}]
    BY DEF TypeOK
  <2>2. CASE Release(q)
    BY <2>1, <2>2 DEF TunnelInv, Release
  <2>3. CASE UNCHANGED <<tunnels, sock>>
    BY <2>3 DEF TunnelInv
  <2> QED
    BY <2>2, <2>3
<1>3. ASSUME NEW t \in Requests, t \in tunnels' PROVE Op[t] = "tunnel" /\ \E d \in Conns : Reads(conn'[d], t)
  <2>1. Op[t] = "tunnel" /\ t \in tunnels
    BY <1>1, <1>3 DEF TunnelInv
  <2>2. PICK d \in Conns : Reads(conn[d], t)
    BY <2>1 DEF TunnelInv
  <2>3. conn'[d] = IF d = c THEN x ELSE conn[d]
    BY DEF TypeOK
  <2>4. Reads(conn'[d], t)
    BY <1>3, <2>2, <2>3
  <2> QED
    BY <2>1, <2>4
<1> QED
  BY <1>2, <1>3 DEF TunnelInv

LEMMA TunnelNext == TransportInv /\ TransportInv' /\ TunnelInv /\ [Next]_vars => TunnelInv'
<1> SUFFICES ASSUME TransportInv, TransportInv', TunnelInv, [Next]_vars PROVE TunnelInv'
  OBVIOUS
<1>1. TypeOK /\ AdmittedInv /\ conn \in [Conns -> Connection] /\ TypeOK'
  BY DEF TransportInv, RequestInv, TypeOK
<1>2. ASSUME NEW c \in Conns, Arrive(c) PROVE TunnelInv'
  <2>1. PICK b \in Brings(c), tok \in Tokens :
         \/ Refuse(c, b[1], b[2], tok, b[3]) \/ Replay(c, b[1], b[2], tok, b[3])
         \/ Misheaded(c, b[1], b[2], tok, b[3]) \/ Admit(c, b[1], b[2], tok, b[3])
         \/ Cancel(c, b[1], b[2], tok, b[3])
    BY <1>2 DEF Arrive
  <2>2. conn[c].pc = "free" /\ conn[c].stage = "none"
    BY <1>1, <1>2 DEF Arrive, AdmittedInv, Admitted
  <2>3. ASSUME \/ Refuse(c, b[1], b[2], tok, b[3]) \/ Replay(c, b[1], b[2], tok, b[3])
               \/ Misheaded(c, b[1], b[2], tok, b[3]) \/ Admit(c, b[1], b[2], tok, b[3])
        PROVE  TunnelInv'
    <3>1. \E x : conn' = [conn EXCEPT ![c] = x]
      BY <2>3 DEF Refuse, Replay, Misheaded, Admit
    <3>2. UNCHANGED <<tunnels, sock>>
      BY <2>3 DEF Refuse, Replay, Misheaded, Admit, upstream
    <3> QED
      BY <1>1, <2>2, <3>1, <3>2, ReadersKept DEF Reads
  <2>4. ASSUME Cancel(c, b[1], b[2], tok, b[3]) PROVE TunnelInv'
    <3> DEFINE g == Target[b[1]]
    <3>1. \A e \in Conns : \/ conn'[e] = conn[e] \/ e = c
                           \/ Op[g] # "tunnel" /\ conn[e].req = g
      BY <2>4 DEF Cancel, Cancellable
    <3>2. tunnels' = tunnels /\ (sock' = sock \/ sock' = [sock EXCEPT ![g] = "closed"])
      BY <2>4 DEF Cancel
    <3> HIDE DEF g
    <3>3. ASSUME NEW t \in Requests, t \in tunnels PROVE Op[t] = "tunnel" /\ \E d \in Conns : Reads(conn'[d], t)
      <4>1. Op[t] = "tunnel" /\ \E d \in Conns : Reads(conn[d], t)
        BY <3>3 DEF TunnelInv
      <4>2. PICK d \in Conns : Reads(conn[d], t)
        BY <4>1
      <4>3. conn'[d] = conn[d]
        BY <2>2, <3>1, <4>1, <4>2 DEF Reads
      <4> QED
        BY <4>1, <4>2, <4>3
    <3>4. \A t \in Requests : sock'[t] \in {"open", "dying"} => t \in tunnels'
      BY <1>1, <3>2 DEF TypeOK, TunnelInv
    <3> QED
      BY <3>2, <3>3, <3>4 DEF TunnelInv
  <2> QED
    BY <2>1, <2>3, <2>4
<1>3. ASSUME NEW c \in Conns, At(c, "call"),
             Retry(c) \/ EnsureGateway(c) \/ Deny(c) \/ Synthesize(c) \/ Call(c) \/ OpenFeed(c) \/ CloseTunnel(c)
      PROVE  TunnelInv'
  <2>1. conn[c].stage = "call"
    BY <1>3 DEF At
  <2>2. \E x : conn' = [conn EXCEPT ![c] = x]
    <3>1. conn = [conn EXCEPT ![c] = conn[c]]
      BY <1>1
    <3> QED
      BY <1>3, <3>1 DEF Retry, EnsureGateway, Deny, Synthesize, Call, OpenFeed, CloseTunnel, Transient, Raise, Complete
  <2>3. (\E q : Release(q)) \/ UNCHANGED <<tunnels, sock>>
    BY <1>3 DEF Retry, EnsureGateway, Deny, Synthesize, Call, OpenFeed, CloseTunnel, Transient, Raise, upstream
  <2> QED
    BY <1>1, <2>1, <2>2, <2>3, ReadersKept DEF Reads
<1>4. ASSUME NEW c \in Conns, Retry(c) \/ PinDefault(c) \/ Feed(c) \/ Delivered(c) PROVE TunnelInv'
  <2>1. conn[c].stage # "body"
    BY <1>1, <1>4 DEF Retry, PinDefault, Feed, Delivered, At, AdmittedInv, Admitted
  <2>2. \E x : conn' = [conn EXCEPT ![c] = x]
    BY <1>4 DEF Retry, PinDefault, Feed, Delivered, Complete
  <2>3. UNCHANGED <<tunnels, sock>>
    BY <1>4 DEF Retry, PinDefault, Feed, Delivered, upstream
  <2> QED
    BY <1>1, <2>1, <2>2, <2>3, ReadersKept DEF Reads
<1>5. ASSUME NEW c \in Conns, Finish(c) \/ Fail(c) \/ Break(c) \/ Finalise(c) PROVE TunnelInv'
  <2>1. Release(conn[c].req)
    BY <1>5 DEF Finish, Fail, Break, Finalise, Transient, Raise
  <2>2. \E x : conn' = [conn EXCEPT ![c] = x]
    BY <1>5 DEF Finish, Fail, Break, Finalise, Transient, Raise, Complete
  <2>3. \A t \in tunnels' : ~Reads(conn[c], t)
    BY <2>1 DEF Release, Reads
  <2> QED
    BY <1>1, <2>1, <2>2, <2>3, ReadersKept
<1>6. ASSUME NEW c \in Conns, Respond(c) PROVE TunnelInv'
  <2> DEFINE r == conn[c].req
             x == Relayed(c, Grown(r, <<"accepted">>), "body")
  <2>1. <<"accepted">> \in Seq(Kinds) /\ Len(<<"accepted">>) <= MaxEvents
    BY Bounds DEF Kinds
  <2>2. conn[c].pc = "running" /\ conn[c].stage # "body" /\ conn' = [conn EXCEPT ![c] = x]
    BY <1>6 DEF Respond, At
  <2>3. x.new = conn[c].new /\ x.req = r /\ x.pc \in {"running", "orphan"} /\ x.stage = "body"
    BY <2>1, <2>2, RelayedIs
  <2>4. conn[c].new /\ r \in Requests
    BY <2>2, Generator
  <2>5. conn'[c] = x /\ \A d \in Conns \ {c} : conn'[d] = conn[d]
    BY <1>1, <2>2
  <2> HIDE DEF x
  <2>6. Reads(conn'[c], r)
    BY <2>3, <2>4, <2>5 DEF Reads
  <2>7. \A t \in Requests : t \in tunnels => Op[t] = "tunnel" /\ \E d \in Conns : Reads(conn'[d], t)
    BY <2>2, <2>5 DEF TunnelInv, Reads
  <2>8. CASE Op[r] = "tunnel" /\ tunnels' = tunnels \cup {r} /\ sock' = [sock EXCEPT ![r] = "open"]
    <3>1. \A t \in Requests : t \in tunnels' => Op[t] = "tunnel" /\ \E d \in Conns : Reads(conn'[d], t)
      BY <2>6, <2>7, <2>8
    <3>2. \A t \in Requests : sock'[t] \in {"open", "dying"} => t \in tunnels'
      BY <1>1, <2>8 DEF TunnelInv, TypeOK
    <3> QED
      BY <3>1, <3>2 DEF TunnelInv
  <2>9. CASE UNCHANGED <<tunnels, sock>>
    BY <2>7, <2>9 DEF TunnelInv
  <2> QED
    BY <1>6, <2>8, <2>9 DEF Respond
<1>7. ASSUME NEW c \in Conns, Delta(c) PROVE TunnelInv'
  <2>1. PICK m \in 1 .. MaxChunks :
           conn' = [conn EXCEPT ![c] = [Relayed(c, Grown(conn[c].req, Chunks("delta", m)), "body") EXCEPT !.n = @ + 1]]
    BY <1>7 DEF Delta
  <2> DEFINE ops == Chunks("delta", m)
             y == Relayed(c, Grown(conn[c].req, ops), "body")
             x == [y EXCEPT !.n = @ + 1]
  <2>2. ops \in Seq(Kinds) /\ Len(ops) <= MaxEvents
    <3>1. m \in Nat /\ m <= MaxEvents
      BY Bounds
    <3>2. ops \in Seq(Kinds) /\ Len(ops) = m
      BY <3>1 DEF Chunks, Kinds
    <3> QED
      BY <3>1, <3>2
  <2>3. conn[c].pc = "running" /\ conn' = [conn EXCEPT ![c] = x] /\ UNCHANGED <<tunnels, sock>>
    BY <1>7, <2>1 DEF Delta, At, upstream
  <2> HIDE DEF ops
  <2>4. y \in Connection /\ y.new = conn[c].new /\ y.req = conn[c].req /\ y.pc \in {"running", "orphan"} /\ y.stage = "body"
    BY <2>2, <2>3, RelayedIs
  <2> HIDE DEF y
  <2>5. x.new = conn[c].new /\ x.req = conn[c].req /\ x.pc \in {"running", "orphan"} /\ x.stage = "body"
    BY <2>4 DEF Connection
  <2> HIDE DEF x
  <2>6. \A t \in tunnels' : Reads(conn[c], t) => Reads(x, t)
    BY <2>5 DEF Reads
  <2> QED
    BY <1>1, <2>3, <2>6, ReadersKept
<1>8. ASSUME NEW c \in Conns, Vanish(c) PROVE TunnelInv'
  <2> DEFINE x == [conn[c] EXCEPT !.here = FALSE]
  <2>1. conn[c] \in Connection /\ conn' = [conn EXCEPT ![c] = x] /\ UNCHANGED <<tunnels, sock>>
    BY <1>1, <1>8 DEF Vanish, upstream
  <2>2. x.new = conn[c].new /\ x.req = conn[c].req /\ x.pc = conn[c].pc /\ x.stage = conn[c].stage
    BY <2>1 DEF Connection
  <2> HIDE DEF x
  <2>3. \A t \in tunnels' : Reads(conn[c], t) => Reads(x, t)
    BY <2>2 DEF Reads
  <2> QED
    BY <1>1, <2>1, <2>3, ReadersKept
<1>9. CASE GatewayDies
  <2>1. ASSUME NEW t \in Requests, t \in tunnels PROVE \E d \in Conns : Reads(conn'[d], t)
    <3>1. Op[t] = "tunnel" /\ \E d \in Conns : Reads(conn[d], t)
      BY <2>1 DEF TunnelInv
    <3>2. PICK d \in Conns : Reads(conn[d], t)
      BY <3>1
    <3>3. conn'[d] = conn[d]
      BY <1>9, <3>1, <3>2 DEF GatewayDies, Reads, Asks
    <3> QED
      BY <3>2, <3>3
  <2>2. tunnels' = tunnels /\ \A t \in Requests : sock'[t] \in {"open", "dying"} => sock[t] \in {"open", "dying"}
    BY <1>9 DEF GatewayDies
  <2> QED
    BY <2>1, <2>2 DEF TunnelInv
<1>10. CASE Ping \/ BackoffElapses \/ UNCHANGED vars
  BY <1>10 DEF Ping, BackoffElapses, vars, upstream, TunnelInv
<1>11. \A c \in Conns : EnsureGateway(c) \/ Deny(c) \/ Synthesize(c) \/ Call(c) \/ OpenFeed(c) \/ CloseTunnel(c)
                          => At(c, "call")
  BY DEF EnsureGateway, Deny, Synthesize, Call, OpenFeed, CloseTunnel
<1> QED
  BY <1>2, <1>3, <1>4, <1>5, <1>6, <1>7, <1>8, <1>9, <1>10, <1>11 DEF Next

(***************************************************************************)
(* No tunnel outlives its reader, whatever connections close it, cancel it *)
(* or vanish, and whenever the gateway dies (the finally-block of          *)
(* _websocket).                                                            *)
(***************************************************************************)
THEOREM TunnelsHaveReaders == Spec => []NoTunnelLeak
<1>1. Init => TunnelInv
  BY DEF Init, TunnelInv
<1>2. TransportInv /\ TransportInv' /\ TunnelInv /\ [Next]_vars => TunnelInv'
  BY TunnelNext
<1>3. TunnelInv => NoTunnelLeak
  BY DEF TunnelInv, NoTunnelLeak, Reads
<1> QED
  BY <1>1, <1>2, <1>3, TransportInvariant, PTL DEF Spec

(***************************************************************************)
(* Sends and their frames.                                                 *)
(***************************************************************************)

\* A step of c that sends no frame.
LEMMA FramesStand ==
    ASSUME TypeOK, FrameInv, NEW c \in Conns, NEW x, conn' = [conn EXCEPT ![c] = x], fed' = fed,
           IsSend(conn[c]) => IsSend(x) /\ x.req = conn[c].req,
           IsSend(x) => Sends(x, c, fed[Target[x.req]]),
           x.stage = "feed" => IsSend(x)
    PROVE  FrameInv'
<1>1. \A d \in Conns : conn'[d] = IF d = c THEN x ELSE conn[d]
  BY DEF TypeOK
<1>2. ASSUME NEW t \in Requests, NEW i \in DOMAIN fed[t]
      PROVE  IsSend(conn'[fed[t][i][1]]) /\ Target[conn'[fed[t][i][1]].req] = t
  <2>1. fed[t] \in Seq(Conns \X (1 .. Batch))
    BY DEF TypeOK
  <2>2. PICK d \in Conns : d = fed[t][i][1]
    BY <2>1
  <2>3. IsSend(conn[d]) /\ Target[conn[d].req] = t
    BY <2>2 DEF FrameInv
  <2>4. IsSend(conn'[d]) /\ Target[conn'[d].req] = t
    BY <1>1, <2>3
  <2> QED
    BY <2>2, <2>4
<1>3. ASSUME NEW d \in Conns, IsSend(conn'[d]) PROVE Sends(conn'[d], d, fed[Target[conn'[d].req]])
  <2>1. CASE d = c
    BY <1>1, <1>3, <2>1
  <2>2. CASE d # c
    <3>1. conn'[d] = conn[d]
      BY <1>1, <2>2
    <3> QED
      BY <1>3, <3>1 DEF FrameInv
  <2> QED
    BY <2>1, <2>2
<1>4. (\A t \in Requests : \A i \in DOMAIN fed'[t] :
         IsSend(conn'[fed'[t][i][1]]) /\ Target[conn'[fed'[t][i][1]].req] = t)
  BY <1>2
<1>5. \A d \in Conns : IsSend(conn'[d]) => Sends(conn'[d], d, fed'[Target[conn'[d].req]])
  BY <1>3
<1>6. \A d \in Conns : conn'[d].stage = "feed" => IsSend(conn'[d])
  BY <1>1 DEF FrameInv
<1> QED
  BY <1>4, <1>5, <1>6 DEF FrameInv, IsSend, Sends

\* A step that only changes connections without a send.
LEMMA OthersFeedNothing ==
    ASSUME TypeOK, FrameInv, fed' = fed,
           \A d \in Conns : \/ conn'[d] = conn[d]
                            \/ ~IsSend(conn[d]) /\ ~IsSend(conn'[d]) /\ conn'[d].stage # "feed"
    PROVE  FrameInv'
<1>1. ASSUME NEW t \in Requests, NEW i \in DOMAIN fed[t]
      PROVE  IsSend(conn'[fed[t][i][1]]) /\ Target[conn'[fed[t][i][1]].req] = t
  <2>1. fed[t] \in Seq(Conns \X (1 .. Batch))
    BY DEF TypeOK
  <2>2. PICK d \in Conns : d = fed[t][i][1]
    BY <2>1
  <2>3. IsSend(conn[d]) /\ Target[conn[d].req] = t
    BY <2>2 DEF FrameInv
  <2>4. conn'[d] = conn[d]
    BY <2>3
  <2> QED
    BY <2>2, <2>3, <2>4
<1>2. \A d \in Conns : IsSend(conn'[d]) => Sends(conn'[d], d, fed[Target[conn'[d].req]])
  BY DEF FrameInv
<1>3. \A d \in Conns : conn'[d].stage = "feed" => IsSend(conn'[d])
  BY DEF FrameInv
<1> QED
  BY <1>1, <1>2, <1>3, SMTT(30) DEF FrameInv, IsSend, Sends

\* A connection that runs no send has put no frame anywhere.
LEMMA NoFrames ==
    ASSUME TypeOK, FrameInv, NEW c \in Conns, ~IsSend(conn[c]), NEW t \in Requests
    PROVE  /\ FramesOf(fed[t], c, Len(fed[t])) = {}
           /\ \A i \in DOMAIN fed[t] : fed[t][i][1] # c
<1>1. fed[t] \in Seq(Conns \X (1 .. Batch))
  BY DEF TypeOK
<1>2. \A i \in DOMAIN fed[t] : fed[t][i][1] # c
  BY DEF FrameInv
<1>3. DOMAIN fed[t] = 1 .. Len(fed[t])
  BY <1>1
<1> QED
  BY <1>2, <1>3 DEF FramesOf

\* u is s and one more frame, the n-th of c; the others keep theirs.
OneMore(u, s, c, n) ==
    /\ Len(u) = Len(s) + 1
    /\ \A i \in 1 .. Len(s) : u[i] = s[i]
    /\ u[Len(s) + 1][1] = c
    /\ InOrder(u, c, n)
    /\ \A d \in Conns \ {c} : /\ FramesOf(u, d, Len(u)) = FramesOf(s, d, Len(s))
                              /\ \A i \in DOMAIN s : FramesOf(u, d, i - 1) = FramesOf(s, d, i - 1)

LEMMA FrameSent ==
    ASSUME NEW c \in Conns, NEW n \in Nat, n < Batch,
           NEW s \in Seq(Conns \X (1 .. Batch)), InOrder(s, c, n)
    PROVE  OneMore(s \o << <<c, n + 1>> >>, s, c, n + 1)
<1> DEFINE u == s \o << <<c, n + 1>> >>
<1> DEFINE L == Len(s)
<1>1. <<c, n + 1>> \in Conns \X (1 .. Batch)
  BY Bounds
<1>2. /\ L \in Nat /\ u \in Seq(Conns \X (1 .. Batch)) /\ Len(u) = L + 1
      /\ \A i \in 1 .. L : u[i] = s[i]
      /\ u[L + 1] = <<c, n + 1>>
  BY <1>1
<1>3. DOMAIN s = 1 .. L /\ DOMAIN u = 1 .. L + 1
  BY <1>2
<1>4. /\ Len(s) = L /\ u[L + 1][1] = c /\ u[L + 1][2] = n + 1
      /\ FramesOf(s, c, L) = 1 .. n
      /\ \A i \in DOMAIN s : s[i][1] = c => FramesOf(s, c, i - 1) = 1 .. s[i][2] - 1
  BY <1>2 DEF InOrder
<1> HIDE DEF L, u
<1>5. ASSUME NEW d, NEW m \in 0 .. L PROVE FramesOf(u, d, m) = FramesOf(s, d, m)
  <2>1. \A j \in 1 .. m : u[j] = s[j]
    BY <1>2
  <2>2. ASSUME NEW f PROVE f \in FramesOf(u, d, m) <=> f \in FramesOf(s, d, m)
    BY <2>1 DEF FramesOf
  <2> QED
    BY <2>2
<1>6. FramesOf(u, c, L + 1) = 1 .. n + 1
  <2>1. FramesOf(u, c, L) = 1 .. n
    <3>1. L \in 0 .. L
      BY <1>2
    <3> QED
      BY <1>4, <1>5, <3>1
  <2>2. FramesOf(u, c, L + 1) = FramesOf(u, c, L) \cup {n + 1}
    <3>1. 1 .. L + 1 = (1 .. L) \cup {L + 1}
      BY <1>2
    <3>2. ASSUME NEW f PROVE f \in FramesOf(u, c, L + 1) <=> f \in FramesOf(u, c, L) \cup {n + 1}
      BY <1>4, <3>1 DEF FramesOf
    <3> QED
      BY <3>2
  <2>3. 1 .. n + 1 = (1 .. n) \cup {n + 1}
    OBVIOUS
  <2> QED
    BY <2>1, <2>2, <2>3
<1>7. ASSUME NEW i \in 1 .. L + 1, u[i][1] = c PROVE FramesOf(u, c, i - 1) = 1 .. u[i][2] - 1
  <2>1. CASE i <= L
    <3>1. u[i] = s[i] /\ i \in DOMAIN s /\ i - 1 \in 0 .. L
      BY <1>2, <1>3, <2>1
    <3> QED
      BY <1>4, <1>5, <1>7, <3>1
  <2>2. CASE i = L + 1
    <3>1. i - 1 = L /\ u[i][2] - 1 = n
      <4>1. u[i][2] = n + 1
        BY <1>4, <2>2
      <4>2. (n + 1) - 1 = n /\ (L + 1) - 1 = L
        BY <1>2
      <4> QED
        BY <2>2, <4>1, <4>2
    <3>2. L \in 0 .. L
      BY <1>2
    <3>3. FramesOf(u, c, L) = 1 .. n
      BY <1>4, <1>5, <3>2
    <3> QED
      BY <3>1, <3>3
  <2> QED
    BY <1>2, <2>1, <2>2
<1>8. ASSUME NEW d \in Conns \ {c}
      PROVE  /\ FramesOf(u, d, L + 1) = FramesOf(s, d, L)
             /\ \A i \in 1 .. L : FramesOf(u, d, i - 1) = FramesOf(s, d, i - 1)
  <2>1. FramesOf(u, d, L + 1) = FramesOf(u, d, L)
    <3>1. 1 .. L + 1 = (1 .. L) \cup {L + 1} /\ u[L + 1][1] # d
      BY <1>2, <1>4
    <3>2. ASSUME NEW f PROVE f \in FramesOf(u, d, L + 1) <=> f \in FramesOf(u, d, L)
      BY <3>1 DEF FramesOf
    <3> QED
      BY <3>2
  <2>2. L \in 0 .. L /\ \A i \in 1 .. L : i - 1 \in 0 .. L
    BY <1>2
  <2>3. FramesOf(u, d, L) = FramesOf(s, d, L)
    BY <1>5, <2>2
  <2> QED
    BY <1>5, <2>1, <2>2, <2>3
<1>9. OneMore(u, s, c, n + 1)
  BY <1>2, <1>3, <1>4, <1>6, <1>7, <1>8 DEF OneMore, InOrder
<1> QED
  BY <1>9 DEF u

\* A frame that went through.
LEMMA FeedStep ==
    ASSUME TransportInv, FrameInv, NEW c \in Conns, Feed(c), fed' # fed PROVE FrameInv'
<1> DEFINE k == conn[c]
           t == Target[k.req]
           s == fed[t]
           u == s \o << <<c, k.n + 1>> >>
           x == [k EXCEPT !.n = @ + 1]
<1>1. TypeOK /\ k \in Connection /\ k.new /\ k.req \in Requests /\ k.pc = "running" /\ k.stage = "feed"
  BY Generator DEF TransportInv, Feed, At
<1>2. t \in Requests /\ s \in Seq(Conns \X (1 .. Batch))
  BY <1>1, ConstantsAssumption DEF TypeOK
<1>3. k.n < Batch /\ conn' = [conn EXCEPT ![c] = x] /\ fed' = [fed EXCEPT ![t] = u]
  BY DEF Feed, NextFrame
<1>4. /\ k.n \in Nat /\ x.n = k.n + 1 /\ x.req = k.req /\ x.new = k.new
      /\ x.stage = k.stage /\ x.pc = k.pc /\ x.end = k.end
  BY <1>1 DEF Connection
<1>5. \A d \in Conns : conn'[d] = IF d = c THEN x ELSE conn[d]
  BY <1>1, <1>3 DEF TypeOK
<1>6. \A q \in Requests : fed'[q] = IF q = t THEN u ELSE fed[q]
  BY <1>1, <1>3 DEF TypeOK
<1>7. IsSend(k) /\ Sends(k, c, s)
  BY <1>1 DEF FrameInv
<1>8. IsSend(x)
  BY <1>4, <1>7 DEF IsSend
<1>9. InOrder(s, c, k.n)
  BY <1>7 DEF Sends
<1>10. conn[c] = k /\ fed[t] = s /\ t = Target[k.req] /\ u = s \o << <<c, k.n + 1>> >>
  OBVIOUS
<1> HIDE DEF k, t, s, u, x
<1>11. PICK n \in Nat : n = k.n
  BY <1>4
<1>12. OneMore(u, s, c, n + 1)
  <2>1. n < Batch /\ InOrder(s, c, n) /\ u = s \o << <<c, n + 1>> >>
    BY <1>3, <1>9, <1>10, <1>11
  <2> QED
    BY <1>2, <2>1, FrameSent
<1>13. Len(s) \in Nat /\ DOMAIN s = 1 .. Len(s) /\ DOMAIN u = 1 .. Len(s) + 1
  BY <1>2, <1>4, <1>10
<1>14. ASSUME NEW q \in Requests, NEW i \in DOMAIN fed'[q]
       PROVE  IsSend(conn'[fed'[q][i][1]]) /\ Target[conn'[fed'[q][i][1]].req] = q
  <2>1. CASE q = t /\ i = Len(s) + 1
    <3>1. fed'[q][i][1] = c
      BY <1>6, <1>12, <2>1 DEF OneMore
    <3> QED
      BY <1>4, <1>5, <1>8, <1>10, <2>1, <3>1
  <2>2. CASE ~(q = t /\ i = Len(s) + 1)
    <3>1. i \in DOMAIN fed[q] /\ fed'[q][i] = fed[q][i]
      <4>1. CASE q # t
        BY <1>6, <1>14, <4>1
      <4>2. CASE q = t
        <5>1. fed'[q] = u /\ fed[q] = s
          BY <1>6, <1>10, <4>2
        <5>2. i \in 1 .. Len(s)
          BY <1>13, <1>14, <2>2, <4>2, <5>1
        <5> QED
          BY <1>12, <1>13, <5>1, <5>2 DEF OneMore
      <4> QED
        BY <4>1, <4>2
    <3>2. PICK d \in Conns : d = fed[q][i][1]
      BY <1>1, <3>1 DEF TypeOK
    <3>3. IsSend(conn[d]) /\ Target[conn[d].req] = q
      BY <3>1, <3>2 DEF FrameInv
    <3>4. IsSend(conn'[d]) /\ Target[conn'[d].req] = q
      BY <1>4, <1>5, <1>8, <1>10, <3>3
    <3> QED
      BY <3>1, <3>2, <3>4
  <2> QED
    BY <2>1, <2>2
<1>15. ASSUME NEW d \in Conns, IsSend(conn'[d]) PROVE Sends(conn'[d], d, fed'[Target[conn'[d].req]])
  <2>1. CASE d = c
    <3>1. conn'[d] = x /\ fed'[Target[conn'[d].req]] = u
      <4>1. conn'[d] = x
        BY <1>5, <2>1
      <4>2. Target[x.req] = t
        BY <1>4, <1>10
      <4>3. fed'[t] = u
        BY <1>2, <1>6
      <4> QED
        BY <4>1, <4>2, <4>3
    <3>2. x.stage = "feed" /\ x.pc = "running" /\ x.n = n + 1
      BY <1>1, <1>4, <1>11
    <3>3. x.n <= Batch
      BY <1>3, <1>4, Bounds
    <3>4. x.end = "completed" => FALSE
      BY <1>3, <1>4, <1>7, Bounds DEF Sends
    <3>5. Sends(x, c, u)
      BY <1>12, <3>2, <3>3, <3>4 DEF Sends, OneMore
    <3> QED
      BY <2>1, <3>1, <3>5
  <2>2. CASE d # c
    <3> DEFINE q == Target[conn[d].req]
    <3>1. conn'[d] = conn[d] /\ IsSend(conn[d])
      BY <1>5, <1>15, <2>2
    <3>2. Sends(conn[d], d, fed[q])
      BY <3>1 DEF FrameInv
    <3>3. q \in Requests
      <4>1. conn[d].req \in Requests
        BY <3>1 DEF TransportInv, RequestInv, AdmittedInv, Admitted, IsSend
      <4> QED
        BY <4>1, ConstantsAssumption
    <3>4. CASE q = t
      <4>1. fed[q] = s /\ fed'[q] = u
        BY <1>6, <1>10, <3>3, <3>4
      <4> HIDE DEF q
      <4>2. ASSUME NEW i \in DOMAIN u, u[i][1] = d PROVE FramesOf(u, d, i - 1) = 1 .. u[i][2] - 1
        <5>1. i # Len(s) + 1
          BY <1>12, <2>2, <4>2 DEF OneMore
        <5>2. i \in DOMAIN s /\ u[i] = s[i]
          BY <1>12, <1>13, <5>1 DEF OneMore
        <5>3. FramesOf(s, d, i - 1) = 1 .. s[i][2] - 1
          BY <3>2, <4>1, <4>2, <5>2 DEF Sends, InOrder
        <5> QED
          BY <1>12, <2>2, <5>2, <5>3 DEF OneMore
      <4>3. FramesOf(u, d, Len(u)) = 1 .. conn[d].n
        BY <1>12, <2>2, <3>2, <4>1 DEF Sends, InOrder, OneMore
      <4>4. Sends(conn[d], d, u)
        BY <3>2, <4>2, <4>3 DEF Sends, InOrder
      <4> QED
        BY <3>1, <4>1, <4>4 DEF q
    <3>5. CASE q # t
      <4>1. fed'[q] = fed[q]
        BY <1>6, <3>3, <3>5
      <4> QED
        BY <3>1, <3>2, <4>1
    <3> QED
      BY <3>4, <3>5
  <2> QED
    BY <2>1, <2>2
<1>16. \A d \in Conns : conn'[d].stage = "feed" => IsSend(conn'[d])
  BY <1>5, <1>8 DEF FrameInv
<1> QED
  BY <1>14, <1>15, <1>16 DEF FrameInv, IsSend, Sends

\* An admitted invocation starts with no frame sent.
LEMMA AdmitFrames ==
    ASSUME TransportInv, FrameInv, NEW c \in Conns, conn[c].pc = "free",
           NEW r \in Requests, NEW mode, NEW tok, NEW last, Admit(c, r, mode, tok, last)
    PROVE  FrameInv'
<1> DEFINE x == [Opened(r, mode, last) EXCEPT !.pc = "running", !.stage = "call", !.new = TRUE]
<1>1. conn' = [conn EXCEPT ![c] = x] /\ fed' = fed
  BY DEF Admit, upstream
<1>2. x.new /\ x.req = r /\ x.stage = "call" /\ x.n = 0 /\ x.end = "open" /\ x.pc = "running"
  BY DEF Opened, Free
<1>3. TypeOK /\ ~IsSend(conn[c])
  BY DEF TransportInv, RequestInv, AdmittedInv, Admitted, IsSend
<1> HIDE DEF x
<1>4. Target[r] \in Requests
  BY ConstantsAssumption
<1>5. PICK t \in Requests : t = Target[r]
  BY <1>4
<1>6. FramesOf(fed[t], c, Len(fed[t])) = {} /\ \A i \in DOMAIN fed[t] : fed[t][i][1] # c
  BY <1>3, NoFrames
<1>7. 1 .. 0 = {}
  OBVIOUS
<1>8. Sends(x, c, fed[t])
  BY <1>2, <1>6, <1>7, Bounds DEF Sends, InOrder
<1> QED
  BY <1>1, <1>2, <1>3, <1>5, <1>8, FramesStand

\* The end of an attempt or of a generator.
LEMMA LeaveFrames ==
    ASSUME TransportInv, FrameInv, NEW c \in Conns, NEW ends, Leaves(c, ends), fed' = fed,
           IsSend(conn[c]) => /\ conn[c].stage = "call" \/ conn'[c].pc = "ended"
                              /\ "completed" \in ends => conn[c].end = "completed" \/ conn[c].n = Batch
    PROVE  FrameInv'
<1>1. PICK x \in Connection :
        /\ conn' = [conn EXCEPT ![c] = x]
        /\ x.new = conn[c].new /\ x.req = conn[c].req /\ x.n = conn[c].n
        /\ x.stage = "none" /\ x.pc \in {"waiting", "ended"} /\ x.end \in ends
  BY DEF Leaves
<1>2. TypeOK /\ conn[c] \in Connection /\ conn'[c] = x
  BY <1>1 DEF TransportInv, TypeOK
<1>3. IsSend(x) <=> IsSend(conn[c])
  BY <1>1 DEF IsSend
<1>4. ASSUME IsSend(x) PROVE Sends(x, c, fed[Target[x.req]])
  <2>1. Sends(conn[c], c, fed[Target[x.req]])
    BY <1>1, <1>3, <1>4 DEF FrameInv
  <2>2. x.pc = "waiting" => conn[c].n = 0
    BY <1>2, <1>3, <1>4, <2>1 DEF Sends
  <2>3. x.end = "completed" => conn[c].end = "completed" \/ conn[c].n = Batch
    BY <1>1, <1>3, <1>4
  <2> QED
    BY <1>1, <2>1, <2>2, <2>3 DEF Sends
<1> QED
  BY <1>1, <1>2, <1>3, <1>4, FramesStand

\* Whoever is past the call of an attempt, and not feeding, is no send.
LEMMA NotASend ==
    ASSUME FrameInv, NEW c \in Conns, conn[c].stage \notin {"none", "call", "feed"}
    PROVE  ~IsSend(conn[c])
BY DEF FrameInv, Sends

LEMMA ArriveFrames ==
    ASSUME TransportInv, FrameInv, NEW c \in Conns, Arrive(c)
    PROVE  FrameInv'
<1>1. PICK b \in Brings(c), tok \in Tokens :
         \/ Refuse(c, b[1], b[2], tok, b[3]) \/ Replay(c, b[1], b[2], tok, b[3])
         \/ Misheaded(c, b[1], b[2], tok, b[3]) \/ Admit(c, b[1], b[2], tok, b[3])
         \/ Cancel(c, b[1], b[2], tok, b[3])
  BY DEF Arrive
<1>2. PICK r \in Requests, mode \in Modes, last \in Int : r = b[1] /\ mode = b[2] /\ last = b[3]
  BY Brought
<1>3. conn[c].pc = "free" /\ ~IsSend(conn[c]) /\ TypeOK
  BY DEF Arrive, TransportInv, RequestInv, AdmittedInv, Admitted, IsSend
<1>4. ASSUME Refuse(c, r, mode, tok, last) \/ Replay(c, r, mode, tok, last) \/ Misheaded(c, r, mode, tok, last)
      PROVE  FrameInv'
  <2>1. fed' = fed
    BY <1>4 DEF Refuse, Replay, Misheaded, upstream
  <2>2. \A d \in Conns \ {c} : conn'[d] = conn[d]
    BY <1>3, <1>4 DEF Refuse, Replay, Misheaded, TypeOK
  <2>3. ~IsSend(conn'[c]) /\ conn'[c].stage # "feed"
    <3>1. CASE Refuse(c, r, mode, tok, last)
      BY <1>3, <3>1 DEF Refuse, Ended, Opened, Free, IsSend, TypeOK
    <3>2. CASE Replay(c, r, mode, tok, last)
      BY <1>3, <3>2 DEF Replay, Ended, Opened, Free, IsSend, TypeOK
    <3>3. CASE Misheaded(c, r, mode, tok, last)
      BY <1>3, <3>3 DEF Misheaded, Ended, Opened, Free, IsSend, TypeOK
    <3> QED
      BY <1>4, <3>1, <3>2, <3>3
  <2> QED
    BY <1>3, <2>1, <2>2, <2>3, OthersFeedNothing
<1>5. ASSUME Cancel(c, r, mode, tok, last) PROVE FrameInv'
  <2>1. fed' = fed
    BY <1>5 DEF Cancel
  <2>2. conn'[c] = Ended([Opened(r, mode, last) EXCEPT
                                   !.got = After(Grown(r, <<"completed">>), last)], "completed")
    BY <1>5 DEF Cancel
  <2>3. ~IsSend(conn'[c]) /\ conn'[c].stage # "feed"
    BY <2>2 DEF Ended, Opened, Free, IsSend
  <2>4. ASSUME NEW d \in Conns \ {c}
        PROVE  conn'[d] = conn[d] \/ (~IsSend(conn[d]) /\ ~IsSend(conn'[d]) /\ conn'[d].stage # "feed")
    <3>1. \/ conn'[d] = conn[d]
          \/ conn[d].stage \in {"pinned", "body", "cut"} /\ conn'[d] = [conn[d] EXCEPT !.stage = "cut"]
      BY <1>5 DEF Cancel, Cancellable
    <3>2. CASE conn[d].stage \in {"pinned", "body", "cut"} /\ conn'[d] = [conn[d] EXCEPT !.stage = "cut"]
      <4>1. ~IsSend(conn[d])
        BY <3>2, NotASend
      <4>2. conn[d] \in Connection
        BY <1>3 DEF TypeOK
      <4>3. conn'[d].new = conn[d].new /\ conn'[d].req = conn[d].req /\ conn'[d].stage = "cut"
        BY <3>2, <4>2 DEF Connection
      <4> QED
        BY <4>1, <4>3 DEF IsSend
    <3> QED
      BY <3>1, <3>2
  <2> QED
    BY <1>3, <2>1, <2>3, <2>4, OthersFeedNothing
<1>6. ASSUME Admit(c, r, mode, tok, last) PROVE FrameInv'
  BY <1>3, <1>6, AdmitFrames
<1> QED
  BY <1>1, <1>2, <1>4, <1>5, <1>6

LEMMA GeneratorFrames ==
    ASSUME TransportInv, FrameInv, NEW c \in Conns,
           \/ Retry(c) \/ EnsureGateway(c) \/ Deny(c) \/ Synthesize(c) \/ Call(c) \/ PinDefault(c)
           \/ Respond(c) \/ Delta(c) \/ Finish(c) \/ Fail(c) \/ Break(c) \/ OpenFeed(c) \/ Feed(c)
           \/ Delivered(c) \/ CloseTunnel(c) \/ Vanish(c) \/ Finalise(c)
    PROVE  FrameInv'
<1> DEFINE k == conn[c]
           s == fed[Target[k.req]]
<1>1. TypeOK /\ k \in Connection /\ conn \in [Conns -> Connection]
  BY DEF TransportInv, TypeOK
<1>2. ASSUME NEW x, conn' = [conn EXCEPT ![c] = x], fed' = fed, ~IsSend(k),
             x.new = k.new, x.req = k.req, x.stage # "feed"
      PROVE  FrameInv'
  <2>1. \A d \in Conns : conn'[d] = IF d = c THEN x ELSE conn[d]
    BY <1>1, <1>2
  <2>2. ~IsSend(x)
    BY <1>2 DEF IsSend
  <2> QED
    BY <1>1, <1>2, <2>1, <2>2, OthersFeedNothing
<1>3. ASSUME NEW x, conn' = [conn EXCEPT ![c] = x], fed' = fed, x.new = k.new, x.req = k.req,
             x.stage \in {"call", "feed", k.stage}, x.n = k.n, x.end = k.end, x.pc # "waiting" \/ k.pc = "waiting",
             x.stage = "call" => k.stage = "call" \/ k.pc = "waiting", x.stage = "feed" => IsSend(k)
      PROVE  FrameInv'
  <2>1. IsSend(x) <=> IsSend(k)
    BY <1>3 DEF IsSend
  <2>2. ASSUME IsSend(x) PROVE Sends(x, c, fed[Target[x.req]])
    <3>1. Sends(k, c, s)
      BY <2>1, <2>2 DEF FrameInv
    <3>2. Sends(x, c, s)
      BY <1>3, <3>1 DEF Sends
    <3> QED
      BY <1>3, <3>2
  <2> QED
    BY <1>1, <1>3, <2>1, <2>2, FramesStand
<1>4. ASSUME Retry(c) PROVE FrameInv'
  <2> DEFINE x == [k EXCEPT !.pc = "running", !.stage = "call", !.n = 0]
  <2>1. k.pc = "waiting" /\ conn' = [conn EXCEPT ![c] = x] /\ fed' = fed
    BY <1>1, <1>4 DEF Retry, upstream
  <2>2. x.pc = "running" /\ x.stage = "call" /\ x.n = 0 /\ x.new = k.new /\ x.req = k.req /\ x.end = k.end
    BY <1>1 DEF Connection
  <2> HIDE DEF x
  <2>3. IsSend(x) <=> IsSend(k)
    BY <2>2 DEF IsSend
  <2>4. ASSUME IsSend(x) PROVE Sends(x, c, fed[Target[x.req]])
    <3>1. Sends(k, c, s) /\ k.n = 0
      BY <2>1, <2>3, <2>4 DEF FrameInv, Sends
    <3>2. Sends(x, c, s)
      BY <2>2, <3>1 DEF Sends
    <3> QED
      BY <2>2, <3>2
  <2> QED
    BY <1>1, <2>1, <2>2, <2>3, <2>4, FramesStand
<1>5. ASSUME EnsureGateway(c) PROVE FrameInv'
  <2>1. k.pc = "running" /\ k.stage = "call" /\ fed' = fed
    BY <1>5 DEF EnsureGateway, At
  <2>2. CASE conn' = conn
    BY <1>1, <2>1, <2>2, OthersFeedNothing
  <2>3. CASE Transient(c)
    <3>1. gateway' \in [up : BOOLEAN, ready : BOOLEAN, held : BOOLEAN]
      BY <1>1, <1>5 DEF EnsureGateway, RestartGateway, TypeOK
    <3>2. UNCHANGED <<digest, fed, ran, deaths>>
      BY <1>5 DEF EnsureGateway
    <3>3. Leaves(c, {k.end, "error", "refused", "gone"})
      BY <2>1, <2>3, <3>1, <3>2, TransientStep
    <3> QED
      BY <2>1, <3>3, LeaveFrames
  <2> QED
    BY <1>5, <2>2, <2>3 DEF EnsureGateway
<1>6. ASSUME Raise(c), k.pc = "running", UNCHANGED <<digest, fed, ran, gateway, deaths>>,
             k.stage = "call" \/ ~IsSend(k)
      PROVE  FrameInv'
  <2>1. Leaves(c, {"broken", "refused", "gone"})
    BY <1>6, RaiseStep
  <2> QED
    BY <1>6, <2>1, LeaveFrames
<1>7. ASSUME Synthesize(c) \/ CloseTunnel(c) \/ Finish(c) PROVE FrameInv'
  <2>1. PICK ops \in {<<"accepted", "delta", "completed">>, <<"completed">>} : Complete(c, ops)
    BY <1>7 DEF Synthesize, CloseTunnel, Finish
  <2>2. ops \in Seq(Kinds) /\ Len(ops) <= MaxEvents
    <3>1. CASE ops = <<"completed">>
      BY <3>1, Bounds DEF Kinds
    <3>2. CASE ops = <<"accepted", "delta", "completed">>
      BY <3>2, Bounds DEF Kinds
    <3> QED
      BY <3>1, <3>2
  <2>3. k.pc = "running" /\ UNCHANGED <<digest, fed, ran, gateway, deaths>>
    BY <1>7 DEF Synthesize, CloseTunnel, Finish, At, upstream
  <2>4. tunnels' \subseteq Requests /\ sock' \in [Requests -> {"none", "open", "dying", "closed"}]
    BY <1>1, <1>7 DEF Synthesize, CloseTunnel, Finish, Release, upstream, TypeOK
  <2>5. Leaves(c, {"completed", "gone"})
    BY <2>1, <2>2, <2>3, <2>4, CompleteStep
  <2>6. CASE Synthesize(c) \/ CloseTunnel(c)
    <3>1. ~IsSend(k)
      BY <2>6 DEF Synthesize, CloseTunnel, Asks, IsSend
    <3> QED
      BY <2>3, <2>5, <3>1, LeaveFrames
  <2>7. CASE Finish(c)
    <3>1. ~IsSend(k)
      BY <2>7, NotASend DEF Finish, At
    <3> QED
      BY <2>3, <2>5, <3>1, LeaveFrames
  <2> QED
    BY <1>7, <2>6, <2>7
<1>8. ASSUME Fail(c) \/ Break(c) PROVE FrameInv'
  <2>1. k.stage \notin {"none", "call", "feed"} /\ k.pc = "running"
    BY <1>8 DEF Fail, Break, At
  <2>2. ~IsSend(k)
    BY <2>1, NotASend
  <2>3. CASE Fail(c)
    <3>1. /\ Transient(c) /\ UNCHANGED <<digest, fed, ran, deaths>>
          /\ gateway' \in [up : BOOLEAN, ready : BOOLEAN, held : BOOLEAN]
      BY <1>1, <2>3 DEF Fail, TypeOK
    <3>2. Leaves(c, {k.end, "error", "refused", "gone"})
      BY <2>1, <3>1, TransientStep
    <3> QED
      BY <2>2, <3>1, <3>2, LeaveFrames
  <2>4. CASE Break(c)
    BY <1>6, <2>1, <2>2, <2>4 DEF Break
  <2> QED
    BY <1>8, <2>3, <2>4
<1>9. ASSUME Call(c) \/ PinDefault(c) PROVE FrameInv'
  <2>1. ~IsSend(k)
    BY <1>9 DEF Call, PinDefault, Asks, IsSend
  <2>2. PICK g \in {"sent", "pinned"} : conn' = [conn EXCEPT ![c] = [k EXCEPT !.stage = g]]
    BY <1>1, <1>9 DEF Call, PinDefault
  <2>3. fed' = fed
    BY <1>9 DEF Call, PinDefault, upstream
  <2>4. LET x == [k EXCEPT !.stage = g] IN x.new = k.new /\ x.req = k.req /\ x.stage # "feed"
    BY <1>1 DEF Connection
  <2> QED
    BY <1>2, <2>1, <2>2, <2>3, <2>4
<1>10. ASSUME Respond(c) PROVE FrameInv'
  <2> DEFINE x == Relayed(c, Grown(k.req, <<"accepted">>), "body")
  <2>1. k.stage \in {"sent", "pinned"} /\ k.pc = "running" /\ conn' = [conn EXCEPT ![c] = x] /\ fed' = fed
    BY <1>10 DEF Respond, At
  <2>2. <<"accepted">> \in Seq(Kinds) /\ Len(<<"accepted">>) <= MaxEvents
    BY Bounds DEF Kinds
  <2>3. x.new = k.new /\ x.req = k.req /\ x.stage = "body"
    BY <2>1, <2>2, RelayedIs
  <2>4. ~IsSend(k)
    BY <2>1, NotASend
  <2> HIDE DEF x
  <2> QED
    BY <1>2, <2>1, <2>3, <2>4
<1>11. ASSUME Delta(c) PROVE FrameInv'
  <2>1. PICK m \in 1 .. MaxChunks :
           conn' = [conn EXCEPT ![c] = [Relayed(c, Grown(k.req, Chunks("delta", m)), "body") EXCEPT !.n = @ + 1]]
    BY <1>11 DEF Delta
  <2> DEFINE ops == Chunks("delta", m)
             y == Relayed(c, Grown(k.req, ops), "body")
             x == [y EXCEPT !.n = @ + 1]
  <2>2. ops \in Seq(Kinds) /\ Len(ops) <= MaxEvents
    <3>1. m \in Nat /\ m <= MaxEvents
      BY Bounds
    <3>2. ops \in Seq(Kinds) /\ Len(ops) = m
      BY <3>1 DEF Chunks, Kinds
    <3> QED
      BY <3>1, <3>2
  <2>3. k.pc = "running" /\ k.stage = "body" /\ conn' = [conn EXCEPT ![c] = x] /\ fed' = fed
    BY <1>11, <2>1 DEF Delta, At, upstream
  <2> HIDE DEF ops
  <2>4. y \in Connection /\ y.new = k.new /\ y.req = k.req /\ y.stage = "body"
    BY <2>2, <2>3, RelayedIs
  <2> HIDE DEF y
  <2>5. x.new = k.new /\ x.req = k.req /\ x.stage = "body"
    BY <2>4 DEF Connection
  <2>6. ~IsSend(k)
    BY <2>3, NotASend
  <2> HIDE DEF x
  <2> QED
    BY <1>2, <2>3, <2>5, <2>6
<1>12. ASSUME OpenFeed(c) PROVE FrameInv'
  <2>1. k.pc = "running" /\ k.stage = "call" /\ UNCHANGED <<digest, fed, ran, gateway, deaths>>
    BY <1>12 DEF OpenFeed, At
  <2>2. CASE conn' = [conn EXCEPT ![c].stage = "feed"]
    <3> DEFINE x == [k EXCEPT !.stage = "feed"]
    <3>1. conn' = [conn EXCEPT ![c] = x]
      BY <1>1, <2>2
    <3>2. x.new = k.new /\ x.req = k.req /\ x.stage = "feed" /\ x.n = k.n /\ x.end = k.end /\ x.pc = k.pc
      BY <1>1 DEF Connection
    <3>3. IsSend(k)
      <4>1. k.new
        BY <2>1, Generator
      <4> QED
        BY <1>12, <4>1 DEF OpenFeed, Asks, IsSend
    <3> HIDE DEF x
    <3> QED
      BY <1>3, <2>1, <3>1, <3>2, <3>3
  <2> QED
    BY <1>6, <1>12, <2>1, <2>2 DEF OpenFeed
<1>13. ASSUME Feed(c) PROVE FrameInv'
  <2>1. CASE fed' # fed
    BY <1>13, <2>1, FeedStep
  <2>2. CASE fed' = fed
    <3>1. PICK how \in {"reset", "refused"} : conn' = [conn EXCEPT ![c] = Ended(k, how)]
      <4>1. ASSUME fed' = [fed EXCEPT ![Target[k.req]] = @ \o << <<c, NextFrame(c)>> >>] PROVE FALSE
        <5>1. k.req \in Requests
          BY <1>13, Generator DEF Feed, At
        <5>2. Target[k.req] \in Requests
          BY <5>1, ConstantsAssumption
        <5>3. s \in Seq(Conns \X (1 .. Batch)) /\ fed'[Target[k.req]] = s \o << <<c, NextFrame(c)>> >>
          BY <1>1, <4>1, <5>2 DEF TypeOK
        <5>4. PICK e : e = <<c, NextFrame(c)>>
          BY Zenon
        <5>5. s = s \o <<e>>
          BY <2>2, <5>3, <5>4
        <5>6. Len(s \o <<e>>) = Len(s) + 1 /\ Len(s) \in Nat
          <6> HIDE DEF s
          <6> QED
            BY <5>3
        <5>7. Len(s) = Len(s \o <<e>>)
          BY <5>5, Zenon
        <5> QED
          BY <5>6, <5>7
      <4> QED
        BY <1>13, <4>1 DEF Feed
    <3>2. PICK x : x = Ended(k, how)
      BY Zenon
    <3>3. /\ x \in Connection /\ x.pc = "ended" /\ x.stage = "none" /\ x.new = k.new /\ x.req = k.req
          /\ x.n = k.n /\ x.end \in {how, "gone"}
      BY <1>1, <3>2, EndedIs
    <3>4. Leaves(c, {"reset", "refused", "gone"}) /\ conn'[c].pc = "ended"
      BY <1>1, <3>1, <3>2, <3>3 DEF Leaves
    <3> QED
      BY <2>2, <3>4, LeaveFrames
  <2> QED
    BY <2>1, <2>2
<1>14. ASSUME Delivered(c) PROVE FrameInv'
  <2>1. k.pc = "running" /\ k.n = Batch /\ Complete(c, <<"completed">>) /\ UNCHANGED <<digest, fed, ran, gateway, deaths>>
    BY <1>14 DEF Delivered, At, upstream
  <2>2. <<"completed">> \in Seq(Kinds) /\ Len(<<"completed">>) <= MaxEvents
    BY Bounds DEF Kinds
  <2>3. tunnels' \subseteq Requests /\ sock' \in [Requests -> {"none", "open", "dying", "closed"}]
    BY <1>1, <1>14 DEF Delivered, upstream, TypeOK
  <2>4. Leaves(c, {"completed", "gone"})
    BY <2>1, <2>2, <2>3, CompleteStep
  <2>5. conn'[c].pc = "ended"
    BY <1>1, <2>1 DEF Complete, Ended, Reply, Written, Connection
  <2> QED
    BY <2>1, <2>4, <2>5, LeaveFrames
<1>15. ASSUME Vanish(c) PROVE FrameInv'
  <2> DEFINE x == [k EXCEPT !.here = FALSE]
  <2>1. conn' = [conn EXCEPT ![c] = x] /\ fed' = fed
    BY <1>1, <1>15 DEF Vanish, upstream
  <2>2. /\ x.new = k.new /\ x.req = k.req /\ x.stage = k.stage /\ x.n = k.n /\ x.end = k.end /\ x.pc = k.pc
    BY <1>1 DEF Connection
  <2>3. k.stage = "feed" => IsSend(k)
    BY DEF FrameInv
  <2> HIDE DEF x
  <2> QED
    BY <1>3, <2>1, <2>2, <2>3
<1>16. ASSUME Finalise(c) PROVE FrameInv'
  <2>1. conn' = [conn EXCEPT ![c] = Ended(k, "gone")] /\ fed' = fed
    BY <1>16 DEF Finalise
  <2>2. Leaves(c, {"gone"}) /\ conn'[c].pc = "ended"
    BY <1>1, <2>1, EndedIs, ZenonT(60) DEF Leaves
  <2> QED
    BY <2>1, <2>2, LeaveFrames
<1>17. ASSUME Deny(c) PROVE FrameInv'
  BY <1>6, <1>17 DEF Deny, At
<1> QED
  BY <1>4, <1>5, <1>7, <1>8, <1>9, <1>10, <1>11, <1>12, <1>13, <1>14, <1>15, <1>16, <1>17

LEMMA FrameNext == TransportInv /\ FrameInv /\ [Next]_vars => FrameInv'
<1> SUFFICES ASSUME TransportInv, FrameInv, [Next]_vars PROVE FrameInv'
  OBVIOUS
<1>1. TypeOK /\ conn \in [Conns -> Connection]
  BY DEF TransportInv, TypeOK
<1>2. CASE GatewayDies
  <2>1. ASSUME NEW d \in Conns
        PROVE  conn'[d] = conn[d] \/ (~IsSend(conn[d]) /\ ~IsSend(conn'[d]) /\ conn'[d].stage # "feed")
    <3>1. \/ conn'[d] = conn[d]
          \/ conn[d].stage \in {"sent", "pinned", "body"} /\ conn'[d] = [conn[d] EXCEPT !.stage = "cut"]
      BY <1>2 DEF GatewayDies
    <3>2. CASE conn[d].stage \in {"sent", "pinned", "body"} /\ conn'[d] = [conn[d] EXCEPT !.stage = "cut"]
      <4>1. ~IsSend(conn[d])
        BY <3>2, NotASend
      <4>2. conn[d] \in Connection
        BY <1>1
      <4>3. conn'[d].new = conn[d].new /\ conn'[d].req = conn[d].req /\ conn'[d].stage = "cut"
        BY <3>2, <4>2 DEF Connection
      <4> QED
        BY <4>1, <4>3 DEF IsSend
    <3> QED
      BY <3>1, <3>2
  <2>2. fed' = fed
    BY <1>2 DEF GatewayDies
  <2> QED
    BY <1>1, <2>1, <2>2, OthersFeedNothing
<1>3. CASE Ping \/ BackoffElapses \/ UNCHANGED vars
  <2>1. conn' = conn /\ fed' = fed
    BY <1>3 DEF Ping, BackoffElapses, vars, upstream
  <2> QED
    BY <1>1, <2>1, OthersFeedNothing
<1> QED
  BY <1>2, <1>3, ArriveFrames, GeneratorFrames DEF Next

(***************************************************************************)
(* A batch of frames reaches its tunnel in list order, no frame twice,     *)
(* and all of it before its client is told so, whichever connections       *)
(* repeat the request and however its attempts fail (_tunnel_send).        *)
(***************************************************************************)
THEOREM FramesInOrder == Spec => []FramesDeliveredOnce
<1>1. Init => FrameInv
  <2> SUFFICES ASSUME Init PROVE FrameInv
    OBVIOUS
  <2>1. \A c \in Conns : conn[c].new = FALSE /\ conn[c].stage = "none"
    BY DEF Init, Free
  <2>2. \A t \in Requests : DOMAIN fed[t] = {}
    BY DEF Init
  <2> QED
    BY <2>1, <2>2 DEF FrameInv, IsSend
<1>2. TransportInv /\ FrameInv /\ [Next]_vars => FrameInv'
  BY FrameNext
<1>3. TransportInv /\ FrameInv => FramesDeliveredOnce
  <2> SUFFICES ASSUME TransportInv, FrameInv, NEW c \in Conns, conn[c].new, Op[conn[c].req] = "send"
               PROVE  LET sent == fed[Target[conn[c].req]]
                          Frames(m) == {sent[j][2] : j \in {j \in 1 .. m : sent[j][1] = c}}
                      IN /\ \A i \in DOMAIN sent : sent[i][1] = c => Frames(i - 1) = 1 .. sent[i][2] - 1
                         /\ \A d \in Conns \ {c} : conn[d].req = conn[c].req =>
                               \A i \in DOMAIN sent : sent[i][1] # d
                         /\ conn[c].end = "completed" => Frames(Len(sent)) = 1 .. Batch
    BY DEF FramesDeliveredOnce
  <2> DEFINE t == Target[conn[c].req]
             sent == fed[t]
  <2>1. conn[c].req \in Requests /\ t \in Requests
    BY ConstantsAssumption DEF TransportInv, RequestInv, AdmittedInv, Admitted
  <2>2. Sends(conn[c], c, sent)
    BY DEF FrameInv, IsSend
  <2>3. ASSUME NEW d \in Conns \ {c}, conn[d].req = conn[c].req, NEW i \in DOMAIN sent PROVE sent[i][1] # d
    <3>1. ~conn[d].new
      BY <2>1, <2>3 DEF TransportInv, RequestInv, Alone
    <3>2. conn[sent[i][1]].new
      BY <2>1 DEF FrameInv, IsSend
    <3> QED
      BY <3>1, <3>2
  <2>4. \A i \in DOMAIN sent : sent[i][1] = c => FramesOf(sent, c, i - 1) = 1 .. sent[i][2] - 1
    BY <2>2 DEF Sends, InOrder
  <2>5. conn[c].end = "completed" => FramesOf(sent, c, Len(sent)) = 1 .. Batch
    BY <2>2 DEF Sends, InOrder
  <2> QED
    BY <2>3, <2>4, <2>5 DEF FramesOf
<1> QED
  BY <1>1, <1>2, <1>3, TransportInvariant, PTL DEF Spec
============================================================================
