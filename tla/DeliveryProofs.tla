--------------------------- MODULE DeliveryProofs ---------------------------
(***************************************************************************)
(* That what reaches a replica always continues what it has, whichever mix *)
(* of catchup, backlog and live changes it comes from, so that the change- *)
(* streamer and its replicas implement ReplicaHistory.                     *)
(*                                                                         *)
(* A position is the last transaction that has been taken in and the one   *)
(* that is open.  The messages on their way to a replica lead from its     *)
(* position to the subscriber's; what is left of the catchup leads from    *)
(* there to where the backlog begins; and the backlog leads to the front,  *)
(* one of the positions that the changes forwarded next continue.  While a *)
(* subscriber waits in the Storer, the marks of ChangeLogProofs tell where *)
(* its catchup will end, and its backlog begins there.                     *)
(***************************************************************************)
EXTENDS ChangeLogProofs

-----------------------------------------------------------------------------
(* Positions and runs of messages. *)

Larger(a, b) == IF a < b THEN b ELSE a

Position == [wm : Nat, tx : Nat]

\* The position after a message; what is not new is dropped.
Take(m, p) ==
    IF m.watermark <= p.wm THEN p
    ELSE IF m.tag = "begin" THEN [wm |-> p.wm, tx |-> m.watermark]
    ELSE IF m.tag = "commit" THEN [wm |-> m.watermark, tx |-> 0]
    ELSE [wm |-> p.wm, tx |-> 0]

Fits(m, p) ==
    \/ m.watermark <= p.wm
    \/ /\ m.watermark = p.wm + 1
       /\ m.tag \in {"begin", "commit", "rollback"}
       /\ p.tx = IF m.tag = "begin" THEN 0 ELSE m.watermark

New(m, p) == m.tag = "error" \/ p.wm < m.watermark

\* The positions that the messages of q go through.  What is "sent" is new,
\* what is "kept" in a backlog may turn out not to be.
Path(f, kind, q, p, b) ==
    /\ f \in [0 .. Len(q) -> Position]
    /\ f[0] = p
    /\ f[Len(q)] = b
    /\ \A i \in 1 .. Len(q) : /\ Fits(q[i], f[i - 1])
                              /\ kind = "sent" => New(q[i], f[i - 1])
                              /\ f[i] = Take(q[i], f[i - 1])
    /\ \A i, j \in 0 .. Len(q) : i <= j => f[i].wm <= f[j].wm

Run(kind, q, p, b) == \E f : Path(f, kind, q, p, b)

LEMMA PositionOf ==
    ASSUME NEW w \in Nat, NEW s \in Nat
    PROVE  \E a \in Position : a = [wm |-> w, tx |-> s] /\ a.wm = w /\ a.tx = s
<1>1. [wm |-> w, tx |-> s] \in Position
  BY DEF Position
<1> QED
  BY <1>1

LEMMA TakeOf ==
    ASSUME NEW m \in Message, NEW p \in Position
    PROVE  Take(m, p) \in Position /\ p.wm <= Take(m, p).wm
BY WatermarkType DEF Take, Position, Message

LEMMA RunEmpty ==
    ASSUME NEW kind, NEW p \in Position
    PROVE  Run(kind, << >>, p, p)
<1>1. PICK f : f = [i \in {0} |-> p]
  OBVIOUS
<1>2. Len(<< >>) = 0 /\ 0 .. 0 = {0} /\ 1 .. 0 = {}
  BY EmptySeq
<1>3. f \in [0 .. Len(<< >>) -> Position] /\ f[0] = p
  BY <1>1, <1>2
<1>4. p.wm <= p.wm
  BY DEF Position
<1>5. Path(f, kind, << >>, p, p)
  BY <1>2, <1>3, <1>4 DEF Path
<1> QED
  BY <1>5 DEF Run

LEMMA RunNone ==
    ASSUME NEW kind, NEW p, NEW b, Run(kind, << >>, p, b)
    PROVE  p = b /\ p \in Position
<1>1. PICK f : Path(f, kind, << >>, p, b)
  BY DEF Run
<1>2. Len(<< >>) = 0 /\ 0 \in 0 .. 0
  BY EmptySeq
<1> QED
  BY <1>1, <1>2 DEF Path

LEMMA RunEnds ==
    ASSUME NEW kind, NEW q \in Seq(Message), NEW p, NEW b, Run(kind, q, p, b)
    PROVE  p \in Position /\ b \in Position /\ p.wm <= b.wm
<1>1. PICK f : Path(f, kind, q, p, b)
  BY DEF Run
<1>2. 0 \in 0 .. Len(q) /\ Len(q) \in 0 .. Len(q) /\ 0 <= Len(q)
  BY LenProperties
<1> QED
  BY <1>1, <1>2 DEF Path

LEMMA RunAppend ==
    ASSUME NEW kind, NEW q \in Seq(Message), NEW p, NEW b, Run(kind, q, p, b),
           NEW m \in Message, Fits(m, b), kind = "sent" => New(m, b)
    PROVE  Run(kind, Append(q, m), p, Take(m, b))
<1> DEFINE n == Len(q)
           s == Append(q, m)
<1>1. PICK f : Path(f, kind, q, p, b)
  BY DEF Run
<1>2. n \in Nat /\ Len(s) = n + 1 /\ s[n + 1] = m /\ \A i \in 1 .. n : s[i] = q[i]
  BY AppendOf
<1> HIDE DEF n, s
<1>3. /\ f \in [0 .. n -> Position] /\ f[0] = p /\ f[n] = b
      /\ \A i \in 1 .. n : /\ Fits(q[i], f[i - 1])
                           /\ kind = "sent" => New(q[i], f[i - 1])
                           /\ f[i] = Take(q[i], f[i - 1])
      /\ \A i, j \in 0 .. n : i <= j => f[i].wm <= f[j].wm
  BY <1>1 DEF Path, n
<1>4. n \in 0 .. n /\ b \in Position /\ Take(m, b) \in Position /\ b.wm <= Take(m, b).wm
  BY <1>2, <1>3, TakeOf
<1>5. PICK g : g = [i \in 0 .. n + 1 |-> IF i <= n THEN f[i] ELSE Take(m, b)]
  OBVIOUS
<1>6. /\ \A i \in 0 .. n : i \in 0 .. n + 1 /\ g[i] = f[i]
      /\ n + 1 \in 0 .. n + 1 /\ g[n + 1] = Take(m, b)
  BY <1>2, <1>5
<1>7. g \in [0 .. n + 1 -> Position]
  BY <1>3, <1>4, <1>5
<1>8. g[0] = p
  BY <1>2, <1>3, <1>6
<1>9. ASSUME NEW i \in 1 .. n + 1
      PROVE  /\ Fits(s[i], g[i - 1])
             /\ kind = "sent" => New(s[i], g[i - 1])
             /\ g[i] = Take(s[i], g[i - 1])
  <2>1. CASE i = n + 1
    <3>1. i - 1 = n
      BY <1>2, <2>1
    <3> QED
      BY <1>2, <1>3, <1>4, <1>6, <2>1, <3>1
  <2>2. CASE i \in 1 .. n
    <3>1. i - 1 \in 0 .. n /\ i \in 0 .. n
      BY <1>2, <2>2
    <3> QED
      BY <1>2, <1>3, <1>6, <2>2, <3>1
  <2> QED
    BY <1>2, <2>1, <2>2
<1>10. ASSUME NEW i \in 0 .. n + 1, NEW j \in 0 .. n + 1, i <= j
       PROVE  g[i].wm <= g[j].wm
  <2>1. \A k \in 0 .. n : f[k].wm \in Nat /\ f[k].wm <= b.wm
    BY <1>2, <1>3, <1>4 DEF Position
  <2>2. b.wm \in Nat /\ Take(m, b).wm \in Nat
    BY <1>4 DEF Position
  <2>3. CASE j = n + 1
    <3>1. i \in 0 .. n \/ i = n + 1
      BY <1>2
    <3> QED
      BY <1>4, <1>6, <2>1, <2>2, <2>3, <3>1
  <2>4. CASE j \in 0 .. n
    <3>1. i \in 0 .. n
      BY <1>2, <1>10, <2>4
    <3> QED
      BY <1>3, <1>6, <1>10, <2>4, <3>1
  <2> QED
    BY <1>2, <2>3, <2>4
<1>11. Path(g, kind, s, p, Take(m, b))
  BY <1>2, <1>6, <1>7, <1>8, <1>9, <1>10 DEF Path
<1> QED
  BY <1>11 DEF Run, s

LEMMA RunHead ==
    ASSUME NEW kind, NEW q \in Seq(Message), q # << >>, NEW p, NEW b, Run(kind, q, p, b)
    PROVE  /\ p \in Position /\ Head(q) \in Message
           /\ Fits(Head(q), p)
           /\ kind = "sent" => New(Head(q), p)
           /\ Run(kind, Tail(q), Take(Head(q), p), b)
<1> DEFINE n == Len(q) - 1
           s == Tail(q)
<1>1. PICK f : Path(f, kind, q, p, b)
  BY DEF Run
<1>2. /\ n \in Nat /\ Len(q) = n + 1 /\ Len(s) = n /\ Head(q) = q[1] /\ Head(q) \in Message
      /\ \A i \in 1 .. n : s[i] = q[i + 1]
  BY TailOf
<1> HIDE DEF n, s
<1>3. /\ f \in [0 .. n + 1 -> Position] /\ f[0] = p /\ f[n + 1] = b
      /\ \A i \in 1 .. n + 1 : /\ Fits(q[i], f[i - 1])
                               /\ kind = "sent" => New(q[i], f[i - 1])
                               /\ f[i] = Take(q[i], f[i - 1])
      /\ \A i, j \in 0 .. n + 1 : i <= j => f[i].wm <= f[j].wm
  BY <1>1, <1>2 DEF Path
<1>4. 1 \in 1 .. n + 1 /\ 1 - 1 = 0 /\ 0 \in 0 .. n + 1
  BY <1>2
<1>5. /\ p \in Position /\ Fits(Head(q), p) /\ (kind = "sent" => New(Head(q), p))
      /\ f[1] = Take(Head(q), p)
  BY <1>2, <1>3, <1>4
<1>6. PICK g : g = [i \in 0 .. n |-> f[i + 1]]
  OBVIOUS
<1>7. \A i \in 0 .. n : i + 1 \in 0 .. n + 1 /\ g[i] = f[i + 1]
  BY <1>2, <1>6
<1>8. g \in [0 .. n -> Position]
  BY <1>3, <1>6, <1>7
<1>9. g[0] = Take(Head(q), p) /\ g[n] = b
  <2>1. 0 \in 0 .. n /\ n \in 0 .. n /\ 0 + 1 = 1
    BY <1>2
  <2> QED
    BY <1>3, <1>5, <1>7, <2>1
<1>10. ASSUME NEW i \in 1 .. n
       PROVE  /\ Fits(s[i], g[i - 1])
              /\ kind = "sent" => New(s[i], g[i - 1])
              /\ g[i] = Take(s[i], g[i - 1])
  <2>1. /\ i + 1 \in 1 .. n + 1 /\ (i + 1) - 1 = i /\ (i - 1) + 1 = i
        /\ i - 1 \in 0 .. n /\ i \in 0 .. n
    BY <1>2
  <2>2. g[i - 1] = f[i] /\ g[i] = f[i + 1] /\ s[i] = q[i + 1]
    BY <1>2, <1>7, <2>1
  <2>3. /\ Fits(q[i + 1], f[i]) /\ (kind = "sent" => New(q[i + 1], f[i]))
        /\ f[i + 1] = Take(q[i + 1], f[i])
    BY <1>3, <2>1
  <2> QED
    BY <2>2, <2>3
<1>11. ASSUME NEW i \in 0 .. n, NEW j \in 0 .. n, i <= j
       PROVE  g[i].wm <= g[j].wm
  <2>1. i + 1 \in 0 .. n + 1 /\ j + 1 \in 0 .. n + 1 /\ i + 1 <= j + 1
    BY <1>2, <1>11
  <2> QED
    BY <1>3, <1>7, <2>1
<1>12. Path(g, kind, s, Take(Head(q), p), b)
  BY <1>2, <1>8, <1>9, <1>10, <1>11 DEF Path
<1> QED
  BY <1>2, <1>5, <1>12 DEF Run, s

-----------------------------------------------------------------------------
(* The invariant. *)

\* The watermark that the next change forwarded begins with, or will once the
\* stream is connected again.
Upcoming == IF phase = "stopping" /\ ~running THEN lastWatermark + 1 ELSE next

Aligned(b) ==
    IF inTransaction
    THEN (b.wm = next - 1 /\ b.tx = next) \/ (next <= b.wm /\ b.tx = 0)
    ELSE Upcoming - 1 <= b.wm /\ b.tx = 0

\* The positions that the changes forwarded next continue.
Front == {b \in Position : Aligned(b)}

\* The backlog of x leads from p to one of the positions in E, and what is
\* forwarded next follows it.
Follows(x, p, E) ==
    /\ x.forwarder = "active"
    /\ \E b \in E : Run("kept", x.backlog, p, b)

\* What is left of the catchup of x, which will end at t.
CatchesUp(x, t) ==
    /\ x.watermark <= t
    /\ IF x.state = "sending" THEN x.rows = x.watermark + 1 .. t
       ELSE x.rows = {} \/ x.watermark \in x.rows =>
               x.rows \ {x.watermark} = x.watermark + 1 .. t

\* The subscriber x serves a replica at p, and what is forwarded next
\* continues one of the positions in E.
Sound(x, p, E) ==
    /\ x.state \in {"off", "waiting"} => p.tx = 0
    /\ x.state = "closed" => \E b : Run("sent", x.downstream, p, b)
    /\ x.state \in {"catchup", "sending"} =>
          /\ Run("sent", x.downstream, p, [wm |-> x.watermark, tx |-> 0])
          /\ \E t \in Nat : CatchesUp(x, t) /\ Follows(x, [wm |-> t, tx |-> 0], E)
    /\ x.state \in {"draining", "live"} =>
          \E s \in Nat :
             /\ Run("sent", x.downstream, p, [wm |-> x.watermark, tx |-> s])
             /\ Follows(x, [wm |-> x.watermark, tx |-> s], E)
    /\ x.state = "live" => x.backlog = << >>

\* If x is caught up from a snapshot that ends at d, its backlog takes over.
JoinsAt(x, d, E) == Follows(x, [wm |-> Larger(x.watermark, d), tx |-> 0], E)

\* x, which waits since the entry p of the queue q, is caught up when the
\* transaction that is open there has ended.
Awaits(l, q, p, x, E) ==
    /\ (\A k \in p + 1 .. Len(q) : q[k].type = "subscriber") =>
          x.forwarder = "queued" /\ x.backlog = << >>
    /\ \A j \in p + 1 .. Len(q) :
          /\ q[j].type = "change"
          /\ q[j].tag \in {"commit", "rollback"}
          /\ \A k \in p + 1 .. j - 1 : q[k].type = "subscriber"
          => JoinsAt(x, l[j].done, E)

Due(l, q, p, x, E) ==
    IF l[p].open = 0 THEN JoinsAt(x, l[p].done, E) ELSE Awaits(l, q, p, x, E)

\* The subscribers that the Storer will get to, and those that wait in it.
Served(l) ==
    /\ \A r \in Replicas : \A p \in 1 .. Len(queue) :
          IsSubscriber(queue[p], r) /\ l[p].fate = "runs" => Due(l, queue, p, sub[r], Front)
    /\ \A r \in catchupQueue : tx # 0 => Awaits(l, queue, 0, sub[r], Front)

Serving == \A l : Ledger(l) => Served(l)

\* Once the Storer has failed there are only changes in its queue.
Late == phase \in {"cancelled", "ended"} => \A i \in 1 .. Len(queue) : queue[i].type = "change"

\* No subscriber waits for a transaction that is aborted, unless the Storer
\* is about to stop.
Aborts ==
    /\ \A i \in 1 .. Len(queue) :
          /\ queue[i] = Abort
          /\ \/ phase # "stopping"
             \/ ~running
             \/ \E j \in i + 1 .. Len(queue) : queue[j].type = "change"
          => /\ catchupQueue = {}
             /\ \A p \in 1 .. i : queue[p].type # "subscriber"
    /\ catchupQueue # {} /\ tx = 0 =>
          phase = "stopping" /\ \A i \in 1 .. Len(queue) : queue[i].type # "change"

Place(r) == [wm |-> replicaWm[r], tx |-> replicaTx[r]]

\* No replica is older than what was replicated at the start.
Recent == Start <= backedUp /\ \A r \in Replicas : Start <= replicaWm[r]

Sounds == \A r \in Replicas : Sound(sub[r], Place(r), Front)

DeliveryInvariant ==
    /\ CatchupInvariant
    /\ Late
    /\ Aborts
    /\ Serving
    /\ Sounds
    /\ Recent

-----------------------------------------------------------------------------
(* What happens to one subscriber. *)

ForwardTo(x, m) == Activate(IF x.forwarder = "active" THEN Send(x, m) ELSE x, m.tag)

\* The change m continues the positions in E and leads to those in F.
Continues(m, E, F) == \A b \in E : Fits(m, b) /\ Take(m, b) \in F

LEMMA ForwardToOf ==
    ASSUME NEW x \in Subscriber, NEW m \in Message
    PROVE  /\ ForwardTo(x, m).state = x.state /\ ForwardTo(x, m).rows = x.rows
           /\ ForwardTo(x, m).forwarder =
                 IF x.forwarder = "queued" /\ m.tag \in {"commit", "rollback"}
                 THEN "active" ELSE x.forwarder
           /\ x.forwarder # "active" =>
                 /\ ForwardTo(x, m).watermark = x.watermark
                 /\ ForwardTo(x, m).backlog = x.backlog
                 /\ ForwardTo(x, m).downstream = x.downstream
           /\ x.forwarder = "active" => ForwardTo(x, m) = Send(x, m)
<1>1. CASE x.forwarder = "active"
  <2>1. Send(x, m) \in Subscriber /\ Send(x, m).forwarder = "active"
        /\ Send(x, m).state = x.state /\ Send(x, m).rows = x.rows
    BY <1>1, SendTypes, SendKeeps
  <2>2. ForwardTo(x, m) = Send(x, m)
    BY <1>1, <2>1 DEF ForwardTo, Activate
  <2> QED
    BY <1>1, <2>1, <2>2
<1>2. CASE x.forwarder # "active"
  <2>1. ForwardTo(x, m) = Activate(x, m.tag)
    BY <1>2 DEF ForwardTo
  <2> QED
    BY <1>2, <2>1 DEF Activate, Subscriber
<1> QED
  BY <1>1, <1>2

\* The backlog takes what is forwarded.
LEMMA FollowsForward ==
    ASSUME NEW x \in Subscriber, Buffering(x), NEW m \in Message, NEW p \in Position,
           x.watermark <= p.wm, NEW E \in SUBSET Position, NEW F, Continues(m, E, F),
           Follows(x, p, E)
    PROVE  /\ Follows(ForwardTo(x, m), p, F)
           /\ ForwardTo(x, m).watermark = x.watermark
           /\ ForwardTo(x, m).downstream = x.downstream
<1>1. x.forwarder = "active" /\ ForwardTo(x, m) = Send(x, m)
  BY ForwardToOf DEF Follows
<1>2. PICK b \in E : Run("kept", x.backlog, p, b)
  BY DEF Follows
<1>3. x.backlog \in Seq(Message) /\ x.watermark \in Nat /\ m.watermark \in Nat
  BY WatermarkType DEF Subscriber, Message
<1>4. b \in Position /\ p.wm <= b.wm /\ Fits(m, b) /\ Take(m, b) \in F
  BY <1>2, <1>3, RunEnds DEF Continues
<1>5. p.wm \in Nat /\ b.wm \in Nat
  BY <1>4 DEF Position
<1>6. CASE m.watermark <= x.watermark
  <2>1. Send(x, m) = x
    BY <1>6 DEF Send
  <2>2. Take(m, b) = b
    BY <1>3, <1>4, <1>5, <1>6 DEF Take
  <2> QED
    BY <1>1, <1>2, <1>4, <2>1, <2>2 DEF Follows
<1>7. CASE ~ (m.watermark <= x.watermark)
  <2>1. /\ Send(x, m).backlog = Append(x.backlog, m) /\ Send(x, m).forwarder = "active"
        /\ Send(x, m).watermark = x.watermark /\ Send(x, m).downstream = x.downstream
    BY <1>1, <1>7 DEF Send, Subscriber
  <2>2. Run("kept", Append(x.backlog, m), p, Take(m, b))
    BY <1>2, <1>3, <1>4, RunAppend
  <2> QED
    BY <1>1, <1>4, <2>1, <2>2 DEF Follows
<1> QED
  BY <1>6, <1>7

LEMMA FollowsMore ==
    ASSUME NEW x, NEW p, NEW E, NEW F, E \subseteq F, Follows(x, p, E)
    PROVE  Follows(x, p, F)
BY DEF Follows

LEMMA SoundMore ==
    ASSUME NEW x, NEW p, NEW E, NEW F, E \subseteq F, Sound(x, p, E)
    PROVE  Sound(x, p, F)
BY FollowsMore DEF Sound

LEMMA SoundNone ==
    ASSUME NEW p, p.tx = 0, NEW E
    PROVE  Sound(NoSubscriber, p, E)
BY DEF Sound, NoSubscriber

\* Whatever has been sent to a replica continues what it has.
LEMMA SoundSent ==
    ASSUME NEW x \in Subscriber, NEW p \in Position, NEW E, Sound(x, p, E), Settled(x, p.wm)
    PROVE  /\ \E b : Run("sent", x.downstream, p, b)
           /\ x.state \in {"off", "waiting"} => x.downstream = << >>
<1>1. CASE x.state \in {"off", "waiting"}
  <2>1. x.downstream = << >>
    BY <1>1 DEF Settled, NoSubscriber
  <2> QED
    BY <2>1, RunEmpty
<1>2. CASE x.state \notin {"off", "waiting"}
  BY <1>2 DEF Sound, Subscriber
<1> QED
  BY <1>1, <1>2

LEMMA SoundClose ==
    ASSUME NEW x \in Subscriber, NEW p \in Position, NEW E, Sound(x, p, E), Settled(x, p.wm)
    PROVE  Sound(Close(x), p, E)
<1>1. Close(x).state = "closed" /\ Close(x).downstream = x.downstream
  BY DEF Close, Subscriber
<1> QED
  BY <1>1, SoundSent DEF Sound

LEMMA SoundError ==
    ASSUME NEW x \in Subscriber, NEW p \in Position, NEW E, Sound(x, p, E), Settled(x, p.wm)
    PROVE  Sound(CloseWithError(x), p, E)
<1>1. PICK e \in Message : e = [tag |-> "error", watermark |-> 0]
  BY WatermarkType DEF Message
<1>2. PICK c \in Subscriber : c = Close(x)
  BY CloseTypes
<1>3. c.state = "closed" /\ c.downstream = x.downstream
  BY <1>2 DEF Close, Subscriber
<1>4. CloseWithError(x).state = "closed"
      /\ CloseWithError(x).downstream = Append(x.downstream, e)
  BY <1>1, <1>2, <1>3 DEF CloseWithError, Subscriber
<1>5. PICK b : Run("sent", x.downstream, p, b)
  BY SoundSent
<1>6. x.downstream \in Seq(Message)
  BY DEF Subscriber
<1>7. b \in Position
  BY <1>5, <1>6, RunEnds
<1>8. Fits(e, b) /\ New(e, b)
  BY <1>1, <1>7 DEF Fits, New, Position
<1>9. Run("sent", Append(x.downstream, e), p, Take(e, b))
  BY <1>5, <1>6, <1>8, RunAppend
<1> QED
  BY <1>4, <1>9 DEF Sound

\* A live change is sent, or a transaction of the catchup.
LEMMA RunSend ==
    ASSUME NEW x \in Subscriber, NEW m \in Message, NEW p, NEW s \in Nat,
           NEW a, a = [wm |-> x.watermark, tx |-> s],
           Run("sent", x.downstream, p, a), Fits(m, a),
           NEW y, y = SendChange(x, m), NEW b, b = Take(m, a)
    PROVE  /\ b.wm = y.watermark /\ b.tx \in Nat /\ b \in Position
           /\ b = [wm |-> y.watermark, tx |-> b.tx]
           /\ Run("sent", y.downstream, p, b)
<1>1. a \in Position /\ a.wm = x.watermark /\ x.watermark \in Nat /\ m.watermark \in Nat
      /\ x.downstream \in Seq(Message)
  BY WatermarkType DEF Position, Subscriber, Message
<1>2. b \in Position
  BY <1>1, TakeOf
<1>3. CASE m.watermark <= x.watermark
  <2>1. y = x /\ b = a
    BY <1>1, <1>3 DEF SendChange, Take
  <2> QED
    BY <1>1, <1>2, <2>1 DEF Position
<1>4. CASE ~ (m.watermark <= x.watermark)
  <2>1. /\ y.downstream = Append(x.downstream, m)
        /\ y.watermark = IF m.tag = "commit" THEN m.watermark ELSE x.watermark
    BY <1>4 DEF SendChange, Subscriber
  <2>2. b.wm = y.watermark
    BY <1>1, <1>4, <2>1 DEF Take
  <2>3. New(m, a)
    BY <1>1, <1>4 DEF New
  <2>4. Run("sent", Append(x.downstream, m), p, b)
    BY <1>1, <2>3, RunAppend
  <2>5. b = [wm |-> b.wm, tx |-> b.tx] /\ b.tx \in Nat
    BY <1>2 DEF Position
  <2> QED
    BY <1>2, <2>1, <2>2, <2>4, <2>5
<1> QED
  BY <1>3, <1>4

LEMMA SoundForward ==
    ASSUME NEW x \in Subscriber, NEW m \in Message, NEW p \in Position,
           NEW E \in SUBSET Position, NEW F, Continues(m, E, F), Sound(x, p, E),
           x.state = "closed" => x.forwarder = "out"
    PROVE  Sound(ForwardTo(x, m), p, F)
<1> DEFINE y == ForwardTo(x, m)
<1>1. y.state = x.state /\ y.rows = x.rows
  BY ForwardToOf
<1> HIDE DEF y
<1>2. x.watermark \in Nat /\ x.backlog \in Seq(Message)
  BY WatermarkType DEF Subscriber
<1>3. CASE x.state \in {"off", "waiting"}
  BY <1>1, <1>3 DEF Sound, y
<1>4. CASE x.state = "closed"
  <2>1. y.downstream = x.downstream
    BY <1>4, ForwardToOf DEF y
  <2> QED
    BY <1>1, <1>4, <2>1 DEF Sound, y
<1>5. CASE x.state \in {"catchup", "sending"}
  <2>1. PICK t \in Nat : CatchesUp(x, t) /\ Follows(x, [wm |-> t, tx |-> 0], E)
    BY <1>5 DEF Sound
  <2>2. PICK a \in Position : a = [wm |-> t, tx |-> 0] /\ a.wm = t
    BY PositionOf
  <2>3. Buffering(x) /\ x.watermark <= a.wm
    BY <1>5, <2>1, <2>2 DEF Buffering, CatchesUp
  <2>4. /\ Follows(y, a, F) /\ y.watermark = x.watermark /\ y.downstream = x.downstream
    BY <2>1, <2>2, <2>3, FollowsForward DEF y
  <2>5. CatchesUp(y, t)
    BY <1>1, <2>1, <2>4 DEF CatchesUp
  <2>6. Run("sent", y.downstream, p, [wm |-> y.watermark, tx |-> 0])
    BY <1>5, <2>4 DEF Sound
  <2> QED
    BY <1>1, <1>5, <2>2, <2>4, <2>5, <2>6 DEF Sound, y
<1>6. CASE x.state \in {"draining", "live"}
  <2>1. PICK s \in Nat : /\ Run("sent", x.downstream, p, [wm |-> x.watermark, tx |-> s])
                         /\ Follows(x, [wm |-> x.watermark, tx |-> s], E)
    BY <1>6 DEF Sound
  <2>2. PICK a \in Position : a = [wm |-> x.watermark, tx |-> s] /\ a.wm = x.watermark
    BY <1>2, PositionOf
  <2>3. CASE x.state = "draining"
    <3>1. Buffering(x) /\ x.watermark <= a.wm
      BY <1>2, <2>2, <2>3 DEF Buffering
    <3>2. /\ Follows(y, a, F) /\ y.watermark = x.watermark /\ y.downstream = x.downstream
      BY <2>1, <2>2, <3>1, FollowsForward DEF y
    <3> QED
      BY <1>1, <2>1, <2>2, <2>3, <3>2 DEF Sound, y
  <2>4. CASE x.state = "live"
    <3>1. x.backlog = << >> /\ x.forwarder = "active" /\ ~Buffering(x)
      BY <2>1, <2>4 DEF Sound, Follows, Buffering
    <3>2. a \in E
      <4>1. PICK b \in E : Run("kept", x.backlog, a, b)
        BY <2>1, <2>2 DEF Follows
      <4> QED
        BY <3>1, <4>1, RunNone
    <3>3. Fits(m, a) /\ Take(m, a) \in F
      BY <3>2 DEF Continues
    <3>4. y = SendChange(x, m)
      <4>1. y = Send(x, m)
        BY <3>1, ForwardToOf DEF y
      <4> QED
        BY <3>1, <4>1 DEF Send, SendChange
    <3>5. PICK b : /\ b = Take(m, a) /\ b.tx \in Nat /\ b = [wm |-> y.watermark, tx |-> b.tx]
                   /\ b \in Position /\ Run("sent", y.downstream, p, b)
      BY <2>1, <2>2, <3>3, <3>4, RunSend
    <3>6. y.backlog = << >> /\ y.forwarder = "active"
      BY <3>1, <3>4, SendKeeps
    <3>7. Follows(y, b, F)
      BY <3>3, <3>5, <3>6, RunEmpty DEF Follows
    <3>8. \E n \in Nat : /\ Run("sent", y.downstream, p, [wm |-> y.watermark, tx |-> n])
                         /\ Follows(y, [wm |-> y.watermark, tx |-> n], F)
      BY <3>5, <3>7
    <3> QED
      BY <1>1, <2>4, <3>6, <3>8 DEF Sound, y
  <2> QED
    BY <1>6, <2>3, <2>4
<1> QED
  BY <1>3, <1>4, <1>5, <1>6 DEF Subscriber

Contiguous(S) == \A v, w \in S : \A u \in v .. w : u \in S

\* The snapshot from which the subscriber is caught up is what its backlog
\* needs.
LEMMA SoundCatchup ==
    ASSUME NEW x \in Subscriber, NEW p \in Position, NEW E, Settled(x, p.wm),
           x.state = "waiting", Sound(x, p, E),
           NEW log \in SUBSET Watermark, NEW last \in Watermark, last \in log,
           Contiguous(log), JoinsAt(x, last, E)
    PROVE  Sound(StartCatchup(x, log, last), p, E)
<1> DEFINE y == StartCatchup(x, log, last)
           t == Larger(x.watermark, last)
<1>1. /\ y.state = "catchup" /\ y.forwarder = x.forwarder /\ y.watermark = x.watermark
      /\ y.backlog = x.backlog /\ y.downstream = x.downstream
      /\ y.rows = {w \in log : x.watermark <= w /\ w <= last}
  BY StartCatchupOf
<1> HIDE DEF y
<1>2. x.watermark \in Nat /\ last \in Nat /\ log \subseteq Nat /\ x.downstream = << >>
      /\ x.watermark = p.wm /\ p.tx = 0
  BY WatermarkType DEF Subscriber, Settled, Sound
<1>3. t \in Nat /\ x.watermark <= t
  BY <1>2 DEF Larger
<1>4. Follows(y, [wm |-> t, tx |-> 0], E)
  BY <1>1 DEF JoinsAt, Follows
<1>5. ASSUME y.rows = {} \/ y.watermark \in y.rows
      PROVE  y.rows \ {y.watermark} = y.watermark + 1 .. t
  <2>1. CASE last < x.watermark
    <3>1. t = x.watermark
      BY <1>2, <2>1 DEF Larger
    <3>2. \A w \in log : ~ (x.watermark <= w /\ w <= last)
      BY <1>2, <2>1
    <3>3. y.rows = {}
      BY <1>1, <3>2
    <3>4. x.watermark + 1 .. x.watermark = {}
      BY <1>2
    <3> QED
      BY <1>1, <3>1, <3>3, <3>4
  <2>2. CASE x.watermark <= last
    <3>1. last \in y.rows
      BY <1>1, <1>2, <2>2
    <3>2. x.watermark \in log /\ t = last
      BY <1>1, <1>2, <1>5, <2>2, <3>1 DEF Larger
    <3>3. \A u \in x.watermark .. last : u \in log
      BY <3>2 DEF Contiguous
    <3>4. \A u \in x.watermark + 1 .. last : u \in y.rows /\ u # x.watermark
      BY <1>1, <1>2, <3>3
    <3>5. \A u \in y.rows : u # x.watermark => u \in x.watermark + 1 .. last
      <4>1. \A u \in y.rows : u \in Nat /\ x.watermark <= u /\ u <= last
        BY <1>1, <1>2
      <4> QED
        BY <1>2, <4>1
    <3> QED
      BY <1>1, <3>2, <3>4, <3>5
  <2> QED
    BY <1>2, <2>1, <2>2
<1>6. CatchesUp(y, t)
  BY <1>1, <1>3, <1>5 DEF CatchesUp
<1>7. Run("sent", y.downstream, p, [wm |-> y.watermark, tx |-> 0])
  <2>1. p = [wm |-> p.wm, tx |-> p.tx]
    BY DEF Position
  <2> QED
    BY <1>1, <1>2, <2>1, RunEmpty
<1> QED
  BY <1>1, <1>3, <1>4, <1>6, <1>7 DEF Sound, y

LEMMA SoundStarts ==
    ASSUME NEW x \in Subscriber, NEW p, NEW E, Sound(x, p, E), x.state = "catchup",
           x.rows = {} \/ x.watermark \in x.rows,
           NEW y, y = [x EXCEPT !.state = "sending", !.rows = x.rows \ {x.watermark}]
    PROVE  Sound(y, p, E)
<1>1. /\ y.state = "sending" /\ y.rows = x.rows \ {x.watermark} /\ y.forwarder = x.forwarder
      /\ y.watermark = x.watermark /\ y.backlog = x.backlog /\ y.downstream = x.downstream
  BY DEF Subscriber
<1>2. PICK t \in Nat : CatchesUp(x, t) /\ Follows(x, [wm |-> t, tx |-> 0], E)
  BY DEF Sound
<1>3. CatchesUp(y, t)
  BY <1>1, <1>2 DEF CatchesUp
<1>4. Follows(y, [wm |-> t, tx |-> 0], E)
  BY <1>1, <1>2 DEF Follows
<1> QED
  BY <1>1, <1>3, <1>4 DEF Sound

\* The least of the rows is the next transaction.
LEMMA SoundSends ==
    ASSUME NEW x \in Subscriber, NEW p, NEW E, Sound(x, p, E), x.state = "sending",
           NEW w \in x.rows, \A v \in x.rows : w <= v
    PROVE  Sound(SendTransaction(x, w), p, E)
<1> DEFINE y == SendTransaction(x, w)
<1>1. PICK t \in Nat : CatchesUp(x, t) /\ Follows(x, [wm |-> t, tx |-> 0], E)
  BY DEF Sound
<1>2. x.watermark \in Nat /\ w \in Watermark /\ w \in Nat /\ x.rows = x.watermark + 1 .. t
  BY <1>1, WatermarkType DEF Subscriber, CatchesUp
<1>3. w = x.watermark + 1 /\ w <= t
  <2>1. x.watermark + 1 \in x.rows
    BY <1>1, <1>2
  <2> QED
    BY <1>1, <1>2, <2>1
<1>4. PICK m \in Message : m = [tag |-> "begin", watermark |-> w]
  BY <1>2, EntryTypes
<1>5. PICK c \in Message : c = [tag |-> "commit", watermark |-> w]
  BY <1>2, EntryTypes
<1>6. PICK u \in Subscriber : u = SendChange(x, m)
  BY SendTypes
<1>7. PICK v \in Subscriber : v = SendChange(u, c)
  BY SendTypes
<1>8. y = [v EXCEPT !.rows = x.rows \ {w}]
  BY <1>4, <1>5, <1>6, <1>7 DEF SendTransaction
<1> HIDE DEF y
<1>9. /\ u.watermark = x.watermark /\ u.state = "sending" /\ u.forwarder = x.forwarder
      /\ u.backlog = x.backlog
      /\ Run("sent", u.downstream, p, [wm |-> u.watermark, tx |-> w])
  <2>1. PICK a : a = [wm |-> x.watermark, tx |-> 0]
    OBVIOUS
  <2>2. PICK b : b = Take(m, a)
    OBVIOUS
  <2>3. Fits(m, a) /\ b = [wm |-> x.watermark, tx |-> w]
    BY <1>2, <1>3, <1>4, <2>1, <2>2 DEF Fits, Take
  <2>4. Run("sent", x.downstream, p, a) /\ 0 \in Nat
    BY <2>1 DEF Sound
  <2>5. b.wm = u.watermark /\ Run("sent", u.downstream, p, b)
    BY <1>4, <1>6, <2>1, <2>2, <2>3, <2>4, RunSend
  <2>6. u.state = "sending" /\ u.forwarder = x.forwarder /\ u.backlog = x.backlog
    BY <1>6, SendKeeps
  <2> QED
    BY <2>3, <2>5, <2>6
<1>10. /\ v.watermark = w /\ v.state = "sending" /\ v.forwarder = x.forwarder
       /\ v.backlog = x.backlog
       /\ Run("sent", v.downstream, p, [wm |-> w, tx |-> 0])
  <2>1. PICK a : a = [wm |-> u.watermark, tx |-> w]
    OBVIOUS
  <2>2. PICK b : b = Take(c, a)
    OBVIOUS
  <2>3. Fits(c, a) /\ b = [wm |-> w, tx |-> 0]
    BY <1>2, <1>3, <1>5, <1>9, <2>1, <2>2 DEF Fits, Take
  <2>4. Run("sent", u.downstream, p, a) /\ w \in Nat
    BY <1>2, <1>9, <2>1
  <2>5. b.wm = v.watermark /\ Run("sent", v.downstream, p, b)
    BY <1>5, <1>6, <1>7, <2>1, <2>2, <2>3, <2>4, RunSend
  <2>6. v.state = "sending" /\ v.forwarder = x.forwarder /\ v.backlog = x.backlog
    BY <1>7, <1>9, SendKeeps
  <2> QED
    BY <2>3, <2>5, <2>6
<1>11. /\ y.state = "sending" /\ y.rows = x.rows \ {w} /\ y.watermark = w
       /\ y.forwarder = x.forwarder /\ y.backlog = x.backlog /\ y.downstream = v.downstream
  BY <1>8, <1>10 DEF Subscriber
<1>12. CatchesUp(y, t)
  <2>1. y.rows = w + 1 .. t
    BY <1>1, <1>2, <1>3, <1>11
  <2> QED
    BY <1>3, <1>11, <2>1 DEF CatchesUp
<1>13. Follows(y, [wm |-> t, tx |-> 0], E)
  BY <1>1, <1>11 DEF Follows
<1> QED
  BY <1>10, <1>11, <1>12, <1>13 DEF Sound, y

LEMMA SoundCaughtUp ==
    ASSUME NEW x \in Subscriber, NEW p, NEW E, Sound(x, p, E), x.state = "sending",
           x.rows = {}, NEW y, y = [x EXCEPT !.state = "draining"]
    PROVE  Sound(y, p, E)
<1>1. /\ y.state = "draining" /\ y.forwarder = x.forwarder
      /\ y.watermark = x.watermark /\ y.backlog = x.backlog /\ y.downstream = x.downstream
  BY DEF Subscriber
<1>2. PICK t \in Nat : CatchesUp(x, t) /\ Follows(x, [wm |-> t, tx |-> 0], E)
  BY DEF Sound
<1>3. t = x.watermark
  <2>1. x.watermark \in Nat /\ x.watermark <= t /\ x.watermark + 1 .. t = {}
    BY <1>2, WatermarkType DEF Subscriber, CatchesUp
  <2>2. t \notin x.watermark + 1 .. t
    BY <2>1
  <2> QED
    BY <2>1, <2>2
<1>4. /\ Run("sent", y.downstream, p, [wm |-> y.watermark, tx |-> 0])
      /\ Follows(y, [wm |-> y.watermark, tx |-> 0], E)
  BY <1>1, <1>2, <1>3 DEF Sound, Follows
<1>5. 0 \in Nat
  OBVIOUS
<1> QED
  BY <1>1, <1>4, <1>5 DEF Sound

LEMMA SoundDrain ==
    ASSUME NEW x \in Subscriber, NEW p, NEW E, Sound(x, p, E), x.state = "draining"
    PROVE  Sound(Drain(x), p, E)
<1> DEFINE y == Drain(x)
<1>1. PICK s \in Nat : /\ Run("sent", x.downstream, p, [wm |-> x.watermark, tx |-> s])
                       /\ Follows(x, [wm |-> x.watermark, tx |-> s], E)
  BY DEF Sound
<1>2. CASE x.backlog = << >>
  <2>1. /\ y.state = "live" /\ y.forwarder = x.forwarder /\ y.watermark = x.watermark
        /\ y.backlog = x.backlog /\ y.downstream = x.downstream
    BY <1>2 DEF Drain, Subscriber
  <2> HIDE DEF y
  <2>2. /\ Run("sent", y.downstream, p, [wm |-> y.watermark, tx |-> s])
        /\ Follows(y, [wm |-> y.watermark, tx |-> s], E)
    BY <1>1, <2>1 DEF Follows
  <2> QED
    BY <1>2, <2>1, <2>2 DEF Sound, y
<1>3. CASE x.backlog # << >>
  <2>1. PICK m \in Message : m = Head(x.backlog)
    BY <1>3, TailOf DEF Subscriber
  <2>2. PICK u \in Subscriber : u = SendChange(x, m)
    BY SendTypes
  <2>3. y = [u EXCEPT !.backlog = Tail(x.backlog)]
    BY <1>3, <2>1, <2>2 DEF Drain
  <2> HIDE DEF y
  <2>4. u.state = "draining" /\ u.forwarder = x.forwarder
    BY <2>2, SendKeeps
  <2>5. /\ y.state = "draining" /\ y.forwarder = x.forwarder /\ y.watermark = u.watermark
        /\ y.backlog = Tail(x.backlog) /\ y.downstream = u.downstream
    BY <2>3, <2>4 DEF Subscriber
  <2>6. PICK a : a = [wm |-> x.watermark, tx |-> s]
    OBVIOUS
  <2>7. PICK e \in E : Run("kept", x.backlog, a, e)
    BY <1>1, <2>6 DEF Follows
  <2>8. Fits(m, a) /\ Run("kept", Tail(x.backlog), Take(m, a), e)
    BY <1>3, <2>1, <2>7, RunHead DEF Subscriber
  <2>9. PICK b : /\ b = Take(m, a) /\ b.tx \in Nat /\ b = [wm |-> u.watermark, tx |-> b.tx]
                 /\ Run("sent", u.downstream, p, b)
    BY <1>1, <2>2, <2>6, <2>8, RunSend
  <2>10. Follows(y, b, E)
    BY <1>1, <2>5, <2>7, <2>8, <2>9 DEF Follows
  <2>11. \E n \in Nat : /\ Run("sent", y.downstream, p, [wm |-> y.watermark, tx |-> n])
                        /\ Follows(y, [wm |-> y.watermark, tx |-> n], E)
    BY <2>5, <2>9, <2>10
  <2> QED
    BY <2>5, <2>11 DEF Sound, y
<1> QED
  BY <1>2, <1>3

\* The next message has arrived at the replica.
LEMMA SoundTail ==
    ASSUME NEW x \in Subscriber, NEW p \in Position, NEW E, Sound(x, p, E), Settled(x, p.wm),
           x.downstream # << >>, NEW y, y = [x EXCEPT !.downstream = Tail(@)]
    PROVE  /\ Fits(Head(x.downstream), p) /\ New(Head(x.downstream), p)
           /\ Take(Head(x.downstream), p) \in Position
           /\ Sound(y, Take(Head(x.downstream), p), E)
<1> DEFINE m == Head(x.downstream)
           b == Take(m, p)
<1>1. /\ y.downstream = Tail(x.downstream) /\ y.watermark = x.watermark /\ y.state = x.state
      /\ y.rows = x.rows /\ y.backlog = x.backlog /\ y.forwarder = x.forwarder
  BY DEF Subscriber
<1>2. x.downstream \in Seq(Message) /\ x.state \notin {"off", "waiting"}
  BY SoundSent DEF Subscriber
<1>3. \A e : Run("sent", x.downstream, p, e) =>
         Fits(m, p) /\ New(m, p) /\ m \in Message /\ Run("sent", y.downstream, b, e)
  BY <1>1, <1>2, RunHead
<1>4. Fits(m, p) /\ New(m, p) /\ b \in Position
  <2>1. PICK e : Run("sent", x.downstream, p, e)
    BY SoundSent
  <2> QED
    BY <1>3, <2>1, TakeOf
<1> HIDE DEF m, b
<1>5. \A t : CatchesUp(x, t) => CatchesUp(y, t)
  BY <1>1 DEF CatchesUp
<1>6. \A a : Follows(x, a, E) => Follows(y, a, E)
  BY <1>1 DEF Follows
<1>8. CASE x.state \in {"catchup", "sending"}
  <2>1. Run("sent", y.downstream, b, [wm |-> y.watermark, tx |-> 0])
    BY <1>1, <1>3, <1>8 DEF Sound
  <2>2. PICK t \in Nat : CatchesUp(y, t) /\ Follows(y, [wm |-> t, tx |-> 0], E)
    BY <1>5, <1>6, <1>8 DEF Sound
  <2>3. Sound(y, b, E)
    BY <1>1, <1>8, <2>1, <2>2 DEF Sound
  <2> QED
    BY <1>4, <2>3 DEF m, b
<1>9. CASE x.state \in {"draining", "live"}
  <2>1. PICK s \in Nat : /\ Run("sent", x.downstream, p, [wm |-> x.watermark, tx |-> s])
                         /\ Follows(x, [wm |-> x.watermark, tx |-> s], E)
    BY <1>9 DEF Sound
  <2>2. /\ Run("sent", y.downstream, b, [wm |-> y.watermark, tx |-> s])
        /\ Follows(y, [wm |-> y.watermark, tx |-> s], E)
    BY <1>1, <1>3, <1>6, <2>1
  <2>3. y.state = "live" => y.backlog = << >>
    BY <1>1 DEF Sound
  <2>4. Sound(y, b, E)
    BY <1>1, <1>9, <2>2, <2>3 DEF Sound
  <2> QED
    BY <1>4, <2>4 DEF m, b
<1>10. x.state = "closed" => Sound(y, b, E)
  BY <1>1, <1>3 DEF Sound
<1> QED
  BY <1>2, <1>4, <1>8, <1>9, <1>10 DEF Subscriber, m, b

-----------------------------------------------------------------------------
(* Where the forwarded stream is. *)

LEMMA LoopNumbers ==
    ASSUME StorerInvariant
    PROVE  /\ next \in Nat \ {0} /\ lastWatermark \in Nat /\ lastWatermark < next
           /\ watermark \in Nat /\ Upcoming \in Nat /\ Upcoming <= next
<1>1. PICK l : Ledger(l)
  BY DEF StorerInvariant
<1>2. 0 \in 0 .. Len(queue)
  BY LenProperties DEF StorerInvariant, TypeOK
<1>3. lastWatermark < next
  BY <1>1, <1>2 DEF Ledger, Marks
<1> QED
  BY <1>3, WatermarkType DEF StorerInvariant, TypeOK, Upcoming

\* A begin, or the end of the open transaction, continues every position that
\* the front may be at.
LEMMA FrontBegin ==
    ASSUME StorerInvariant, ReceiveBegin
    PROVE  Continues([tag |-> "begin", watermark |-> next], Front, Front')
<1>1. next \in Nat \ {0} /\ Upcoming = next /\ ~inTransaction /\ inTransaction' /\ next' = next
  BY LoopNumbers DEF ReceiveBegin, Receiving, StoreAndForward, Upcoming, StorerInvariant, Loop
<1> SUFFICES ASSUME NEW b \in Front
             PROVE  /\ Fits([tag |-> "begin", watermark |-> next], b)
                    /\ Take([tag |-> "begin", watermark |-> next], b) \in Front'
  BY DEF Continues
<1>2. b \in Position /\ b.wm \in Nat /\ next - 1 <= b.wm /\ b.tx = 0
  BY <1>1 DEF Front, Aligned, Position
<1>3. PICK a : a = Take([tag |-> "begin", watermark |-> next], b)
  OBVIOUS
<1>4. CASE next <= b.wm
  <2>1. a = b /\ Fits([tag |-> "begin", watermark |-> next], b)
    BY <1>3, <1>4 DEF Take, Fits
  <2>2. b \in Front'
    BY <1>1, <1>2, <1>4 DEF Front, Aligned
  <2> QED
    BY <1>3, <2>1, <2>2
<1>5. CASE b.wm = next - 1
  <2>1. a = [wm |-> b.wm, tx |-> next] /\ Fits([tag |-> "begin", watermark |-> next], b)
    BY <1>1, <1>2, <1>3, <1>5 DEF Take, Fits
  <2>2. a \in Front'
    BY <1>1, <1>2, <1>5, <2>1 DEF Front, Aligned, Position
  <2> QED
    BY <1>3, <2>1, <2>2
<1> QED
  BY <1>1, <1>2, <1>4, <1>5

LEMMA FrontEnd ==
    ASSUME next \in Nat \ {0}, inTransaction, ~inTransaction', NEW tag \in {"commit", "rollback"},
           Upcoming' \in Nat,
           Upcoming' <= next \/ (tag = "commit" /\ Upcoming' = next + 1)
    PROVE  Continues([tag |-> tag, watermark |-> next], Front, Front')
<1> SUFFICES ASSUME NEW b \in Front
             PROVE  /\ Fits([tag |-> tag, watermark |-> next], b)
                    /\ Take([tag |-> tag, watermark |-> next], b) \in Front'
  BY DEF Continues
<1>1. PICK m : m = [tag |-> tag, watermark |-> next]
  OBVIOUS
<1>2. /\ b \in Position /\ b.wm \in Nat
      /\ (b.wm = next - 1 /\ b.tx = next) \/ (next <= b.wm /\ b.tx = 0)
  BY DEF Front, Aligned, Position
<1>3. CASE next <= b.wm /\ b.tx = 0
  <2>1. Take(m, b) = b /\ Fits(m, b)
    BY <1>1, <1>3 DEF Take, Fits
  <2>2. b \in Front'
    BY <1>2, <1>3 DEF Front, Aligned
  <2> QED
    BY <1>1, <2>1, <2>2
<1>4. CASE b.wm = next - 1 /\ b.tx = next
  <2>1. Fits(m, b)
    BY <1>1, <1>2, <1>4 DEF Fits
  <2>2. Take(m, b) = [wm |-> IF tag = "commit" THEN next ELSE next - 1, tx |-> 0]
    BY <1>1, <1>2, <1>4 DEF Take
  <2>3. Take(m, b) \in Front'
    BY <2>2 DEF Front, Aligned, Position
  <2> QED
    BY <1>1, <2>1, <2>3
<1> QED
  BY <1>2, <1>3, <1>4

LEMMA FrontCommit ==
    ASSUME StorerInvariant, ReceiveCommit
    PROVE  watermark = next /\ Continues([tag |-> "commit", watermark |-> next], Front, Front')
<1>1. /\ next \in Nat \ {0} /\ inTransaction /\ ~inTransaction' /\ next' = next + 1
      /\ watermark = next
  BY LoopNumbers DEF ReceiveCommit, StoreAndForward, StorerInvariant, Loop
<1>2. Upcoming' = next + 1
  BY <1>1 DEF ReceiveCommit, Receiving, Upcoming
<1> QED
  BY <1>1, <1>2, FrontEnd

LEMMA FrontRollback ==
    ASSUME StorerInvariant, ReceiveRollback
    PROVE  watermark = next /\ Continues([tag |-> "rollback", watermark |-> next], Front, Front')
<1>1. /\ next \in Nat \ {0} /\ inTransaction /\ ~inTransaction' /\ next' = next
      /\ watermark = next
  BY LoopNumbers DEF ReceiveRollback, StoreAndForward, StorerInvariant, Loop
<1>2. Upcoming' = next
  BY <1>1 DEF ReceiveRollback, Upcoming
<1> QED
  BY <1>1, <1>2, FrontEnd

\* The stream ends: the open transaction, if any, is rolled back.
LEMMA FrontEndStream ==
    ASSUME StorerInvariant, EndStream, phase # "stopping"
    PROVE  IF watermark # 0
           THEN Continues([tag |-> "rollback", watermark |-> watermark], Front, Front')
           ELSE Front \subseteq Front'
<1>1. /\ next \in Nat \ {0} /\ lastWatermark \in Nat /\ lastWatermark < next
      /\ watermark \in Nat /\ Upcoming = next /\ ~inTransaction' /\ next' = next
      /\ lastWatermark' = lastWatermark
  BY LoopNumbers DEF EndStream, Upcoming, dbVars
<1>2. Upcoming' \in Nat /\ Upcoming' <= next
  BY <1>1 DEF Upcoming
<1>3. /\ inTransaction => watermark = next
      /\ watermark # 0 /\ ~inTransaction => watermark = next - 1
  BY DEF StorerInvariant, Loop
<1>4. CASE inTransaction
  BY <1>1, <1>2, <1>3, <1>4, FrontEnd
<1>5. CASE ~inTransaction
  <2>1. ASSUME NEW b \in Front
        PROVE  b \in Front' /\ next - 1 <= b.wm /\ b.wm \in Nat
    <3>1. b \in Position /\ next - 1 <= b.wm /\ b.wm \in Nat /\ b.tx = 0
      BY <1>1, <1>5 DEF Front, Aligned, Position
    <3>2. Upcoming' - 1 <= b.wm
      BY <1>1, <1>2, <3>1
    <3> QED
      BY <1>1, <3>1, <3>2 DEF Front, Aligned
  <2>2. ASSUME watermark # 0, NEW b \in Front
        PROVE  /\ Fits([tag |-> "rollback", watermark |-> watermark], b)
               /\ Take([tag |-> "rollback", watermark |-> watermark], b) \in Front'
    <3>1. watermark <= b.wm
      BY <1>3, <1>5, <2>1, <2>2
    <3> QED
      BY <2>1, <3>1 DEF Fits, Take
  <2> QED
    BY <2>1, <2>2 DEF Continues
<1> QED
  BY <1>4, <1>5

LEMMA NaturalOrder ==
    \A a, b, c \in Nat : /\ a < b => a + 1 \in Nat /\ a + 1 <= b
                         /\ a - 1 <= b /\ b <= c => a - 1 <= c
                         /\ a - 1 <= a /\ (b = a - 1 => a - 1 <= b)
OBVIOUS

LEMMA FrontSame ==
    ASSUME UNCHANGED <<inTransaction, next>>, next \in Nat, Upcoming \in Nat, Upcoming' \in Nat,
           Upcoming' <= Upcoming
    PROVE  Front \subseteq Front'
<1> SUFFICES ASSUME NEW b \in Front
             PROVE  b \in Front'
  OBVIOUS
<1>1. b \in Position /\ b.wm \in Nat
  BY DEF Front, Position
<1> QED
  BY <1>1 DEF Front, Aligned

LEMMA FrontConnect ==
    ASSUME StorerInvariant, Connect
    PROVE  Front \subseteq Front'
<1>1. /\ ~inTransaction /\ ~inTransaction' /\ Upcoming = lastWatermark + 1
      /\ Upcoming' = lastWatermark + 1
  BY DEF Connect, Upcoming, StorerInvariant, Loop, dbVars
<1> SUFFICES ASSUME NEW b \in Front
             PROVE  b \in Front'
  OBVIOUS
<1> QED
  BY <1>1 DEF Front, Aligned

\* The Storer fails or stops: what is to come is never further on.
LEMMA FrontStops ==
    ASSUME StorerInvariant, StorerInvariant', UNCHANGED <<inTransaction, next>>,
           running, phase = "stopping" => phase' = "stopping"
    PROVE  Front \subseteq Front'
<1>1. Upcoming = next /\ next \in Nat
  BY LoopNumbers DEF Upcoming
<1>2. next' \in Nat /\ lastWatermark' \in Nat /\ lastWatermark' < next'
  <2>1. PICK l : Ledger(l)'
    BY DEF StorerInvariant
  <2>2. 0 \in 0 .. Len(queue')
    BY LenProperties DEF StorerInvariant, TypeOK
  <2>3. lastWatermark' < next'
    BY <2>1, <2>2 DEF Ledger, Marks
  <2> QED
    BY <1>1, <2>3, WatermarkType DEF StorerInvariant, TypeOK
<1>3. next' = next /\ inTransaction' = inTransaction
  OBVIOUS
<1>4. lastWatermark' + 1 \in Nat /\ lastWatermark' + 1 <= next
  <2>1. lastWatermark' \in Nat /\ next \in Nat /\ lastWatermark' < next
    BY <1>1, <1>2, <1>3
  <2> QED
    BY <2>1, NaturalOrder
<1>5. Upcoming' = lastWatermark' + 1 \/ Upcoming' = next'
  BY DEF Upcoming
<1>6. Upcoming' \in Nat /\ Upcoming' <= next
  BY <1>1, <1>3, <1>4, <1>5
<1> QED
  BY <1>1, <1>3, <1>6, FrontSame

-----------------------------------------------------------------------------
(* Who waits in the Storer, and for what. *)

\* Entries that are added do not change the marks before them.
Extends(s, q) == Len(q) <= Len(s) /\ \A i \in 1 .. Len(q) : s[i] = q[i]

LEMMA ChainPrefix ==
    ASSUME NEW q \in Seq(Entry), NEW s \in Seq(Entry), Extends(s, q),
           NEW l, Chain(l, q), NEW m, Chain(m, s), l[0] = m[0]
    PROVE  \A i \in 0 .. Len(q) : m[i] = l[i]
<1> DEFINE S == {i \in 0 .. Len(q) : l[i] # m[i]}
<1>1. Len(q) \in Nat /\ Len(s) \in Nat /\ Len(q) <= Len(s) /\ S \subseteq Nat
  BY LenProperties DEF Extends
<1>2. CASE S # {}
  <2>1. PICK x \in S : \A y \in S : ~ (<<y, x>> \in OpToRel(<, Nat))
    BY <1>1, <1>2, NatLessThanWellFounded, WFMin
  <2>2. /\ x \in 1 .. Len(q) /\ x \in 1 .. Len(s) /\ x - 1 \in 0 .. Len(q) /\ x - 1 < x
        /\ x \in Nat /\ x - 1 \in Nat /\ l[x] # m[x]
    BY <1>1
  <2>3. x - 1 \notin S
    BY <2>1, <2>2 DEF OpToRel
  <2>4. l[x - 1] = m[x - 1]
    BY <2>2, <2>3
  <2>5. l[x] = StoreStep(q[x], l[x - 1]) /\ m[x] = StoreStep(s[x], m[x - 1])
    BY <2>2, ChainType
  <2>6. s[x] = q[x]
    BY <2>2 DEF Extends
  <2> QED
    BY <2>2, <2>4, <2>5, <2>6
<1>3. CASE S = {}
  BY <1>3
<1> QED
  BY <1>2, <1>3

\* There is one chain of marks.
LEMMA ChainAgree ==
    ASSUME NEW q \in Seq(Entry), NEW l, Chain(l, q), NEW m, Chain(m, q), l[0] = m[0]
    PROVE  l = m
<1>1. Extends(q, q)
  BY LenProperties DEF Extends
<1>2. \A i \in 0 .. Len(q) : m[i] = l[i]
  BY <1>1, ChainPrefix
<1> QED
  BY <1>2 DEF Chain

\* Subscribers leave the Storer where it is.
LEMMA ChainFlat ==
    ASSUME NEW q \in Seq(Entry), NEW l, Chain(l, q), NEW p \in 0 .. Len(q),
           \A k \in p + 1 .. Len(q) : q[k].type = "subscriber"
    PROVE  l[Len(q)] = l[p]
<1> DEFINE S == {i \in p .. Len(q) : l[i] # l[p]}
<1>1. Len(q) \in Nat /\ p \in Nat /\ S \subseteq Nat
  BY LenProperties
<1>2. CASE S # {}
  <2>1. PICK x \in S : \A y \in S : ~ (<<y, x>> \in OpToRel(<, Nat))
    BY <1>1, <1>2, NatLessThanWellFounded, WFMin
  <2>2. /\ x \in p + 1 .. Len(q) /\ x \in 1 .. Len(q) /\ x - 1 \in p .. Len(q) /\ x - 1 < x
        /\ x \in Nat /\ x - 1 \in Nat /\ l[x] # l[p]
    BY <1>1
  <2>3. x - 1 \notin S
    BY <2>1, <2>2 DEF OpToRel
  <2>4. l[x - 1] = l[p]
    BY <2>2, <2>3
  <2>5. l[x] = StoreStep(q[x], l[x - 1]) /\ q[x].type = "subscriber"
    BY <2>2, ChainType
  <2>6. l[x] = l[x - 1]
    BY <2>5 DEF StoreStep
  <2> QED
    BY <2>2, <2>4, <2>6
<1>3. CASE S = {}
  BY <1>1, <1>3
<1> QED
  BY <1>2, <1>3

LEMMA LargerOf ==
    ASSUME NEW a \in Nat, NEW b \in Nat
    PROVE  Larger(a, b) \in Nat /\ a <= Larger(a, b) /\ b <= Larger(a, b)
BY DEF Larger

\* Wherever x can be joined, y can.
Carries(x, y, E, F) == \A d \in Nat : JoinsAt(x, d, E) => JoinsAt(y, d, F)

LEMMA CarriesForward ==
    ASSUME NEW x \in Subscriber, x.state = "waiting", NEW m \in Message,
           NEW E \in SUBSET Position, NEW F, Continues(m, E, F)
    PROVE  Carries(x, ForwardTo(x, m), E, F)
<1> SUFFICES ASSUME NEW d \in Nat, JoinsAt(x, d, E)
             PROVE  JoinsAt(ForwardTo(x, m), d, F)
  BY DEF Carries
<1>1. x.watermark \in Nat /\ Buffering(x)
  BY WatermarkType DEF Subscriber, Buffering
<1>2. Larger(x.watermark, d) \in Nat /\ x.watermark <= Larger(x.watermark, d) /\ 0 \in Nat
  BY <1>1, LargerOf
<1>3. PICK a \in Position : a = [wm |-> Larger(x.watermark, d), tx |-> 0]
                            /\ a.wm = Larger(x.watermark, d)
  BY <1>2, PositionOf
<1>4. /\ Follows(ForwardTo(x, m), a, F)
      /\ ForwardTo(x, m).watermark = x.watermark
  BY <1>1, <1>2, <1>3, FollowsForward DEF JoinsAt
<1> QED
  BY <1>3, <1>4 DEF JoinsAt

LEMMA CarriesMore ==
    ASSUME NEW x, NEW E, NEW F, E \subseteq F
    PROVE  Carries(x, x, E, F)
BY FollowsMore DEF Carries, JoinsAt

\* An active subscriber with an empty backlog is up to date at the front.
LEMMA JoinsNow ==
    ASSUME NEW x \in Subscriber, x.forwarder = "active", x.backlog = << >>, NEW d \in Nat,
           NEW E, [wm |-> Larger(x.watermark, d), tx |-> 0] \in E
    PROVE  JoinsAt(x, d, E)
<1>1. Larger(x.watermark, d) \in Nat /\ 0 \in Nat
  BY LargerOf, WatermarkType DEF Subscriber
<1>2. PICK a \in Position : a = [wm |-> Larger(x.watermark, d), tx |-> 0]
  BY <1>1, PositionOf
<1>3. Run("kept", x.backlog, a, a)
  BY RunEmpty
<1>4. Follows(x, a, E)
  BY <1>2, <1>3 DEF Follows
<1> QED
  BY <1>2, <1>4 DEF JoinsAt

\* Entries are added behind the one of a subscriber.
LEMMA AwaitsGrow ==
    ASSUME NEW q \in Seq(Entry), NEW s \in Seq(Entry), Extends(s, q),
           NEW l, Chain(l, q), NEW k, \A i \in 0 .. Len(q) : k[i] = l[i],
           NEW p \in 0 .. Len(q), NEW x, NEW E, Awaits(l, q, p, x, E),
           NEW y, NEW F, Carries(x, y, E, F),
           y = x \/ (Len(q) < Len(s) /\ s[Len(q) + 1].type # "subscriber"),
           \A j \in Len(q) + 1 .. Len(s) :
              /\ s[j].type = "change" /\ s[j].tag \in {"commit", "rollback"}
              /\ \A i \in p + 1 .. j - 1 : s[i].type = "subscriber"
              => JoinsAt(y, k[j].done, F)
    PROVE  Awaits(k, s, p, y, F)
<1>1. Len(q) \in Nat /\ Len(s) \in Nat /\ p \in Nat /\ p <= Len(q) /\ Len(q) <= Len(s)
      /\ \A i \in 1 .. Len(q) : s[i] = q[i]
  BY LenProperties DEF Extends
<1>2. ASSUME \A i \in p + 1 .. Len(s) : s[i].type = "subscriber"
      PROVE  y.forwarder = "queued" /\ y.backlog = << >>
  <2>1. ~ (Len(q) < Len(s) /\ s[Len(q) + 1].type # "subscriber")
    BY <1>1, <1>2
  <2>2. \A i \in p + 1 .. Len(q) : q[i].type = "subscriber"
    BY <1>1, <1>2
  <2> QED
    BY <2>1, <2>2 DEF Awaits
<1>3. ASSUME NEW j \in p + 1 .. Len(s), s[j].type = "change", s[j].tag \in {"commit", "rollback"},
             \A i \in p + 1 .. j - 1 : s[i].type = "subscriber"
      PROVE  JoinsAt(y, k[j].done, F)
  <2>1. CASE j \in Len(q) + 1 .. Len(s)
    BY <1>3, <2>1
  <2>2. CASE j \in p + 1 .. Len(q)
    <3>1. j \in 1 .. Len(q) /\ j \in 0 .. Len(q) /\ \A i \in p + 1 .. j - 1 : i \in 1 .. Len(q)
      BY <1>1, <2>2
    <3>2. q[j] = s[j] /\ \A i \in p + 1 .. j - 1 : q[i].type = "subscriber"
      BY <1>1, <1>3, <3>1
    <3>3. JoinsAt(x, l[j].done, E)
      BY <1>3, <2>2, <3>2 DEF Awaits
    <3>4. l[j].done \in Nat /\ k[j] = l[j]
      BY <3>1, ChainType, WatermarkType DEF Mark
    <3> QED
      BY <3>3, <3>4 DEF Carries
  <2> QED
    BY <1>1, <2>1, <2>2
<1> QED
  BY <1>2, <1>3 DEF Awaits

\* Entries before or behind the one of a subscriber are gone: what was behind
\* h[a] in q is behind a in s, but for other subscribers.
Embeds(h, q, s, a) ==
    /\ \A j \in a + 1 .. Len(s) : h[j] \in h[a] + 1 .. Len(q) /\ s[j] = q[h[j]]
    /\ \A i, j \in a + 1 .. Len(s) : i < j => h[i] < h[j]
    /\ \A i \in h[a] + 1 .. Len(q) :
          q[i].type = "subscriber" \/ \E b \in a + 1 .. Len(s) : h[b] = i

LEMMA AwaitsMove ==
    ASSUME NEW q \in Seq(Entry), NEW s \in Seq(Entry), NEW a \in 0 .. Len(s),
           NEW h, h[a] \in 0 .. Len(q), Embeds(h, q, s, a),
           NEW l, NEW k, \A j \in a + 1 .. Len(s) : k[j] = l[h[j]],
           NEW x, NEW E, Awaits(l, q, h[a], x, E)
    PROVE  Awaits(k, s, a, x, E)
<1>1. Len(q) \in Nat /\ Len(s) \in Nat /\ a \in Nat /\ h[a] \in Nat
  BY LenProperties
<1>2. ASSUME \A i \in a + 1 .. Len(s) : s[i].type = "subscriber"
      PROVE  x.forwarder = "queued" /\ x.backlog = << >>
  <2>1. ASSUME NEW i \in h[a] + 1 .. Len(q)
        PROVE  q[i].type = "subscriber"
    <3>1. ASSUME NEW b \in a + 1 .. Len(s), h[b] = i
          PROVE  q[i].type = "subscriber"
      <4>1. s[b] = q[h[b]] /\ s[b].type = "subscriber"
        BY <1>2 DEF Embeds
      <4> QED
        BY <3>1, <4>1
    <3> QED
      BY <3>1 DEF Embeds
  <2> QED
    BY <2>1 DEF Awaits
<1>3. ASSUME NEW j \in a + 1 .. Len(s), s[j].type = "change", s[j].tag \in {"commit", "rollback"},
             \A i \in a + 1 .. j - 1 : s[i].type = "subscriber"
      PROVE  JoinsAt(x, k[j].done, E)
  <2>1. PICK b \in h[a] + 1 .. Len(q) : b = h[j]
    BY DEF Embeds
  <2>2. q[b] = s[j] /\ k[j] = l[b]
    BY <2>1 DEF Embeds
  <2>3. ASSUME NEW i \in h[a] + 1 .. b - 1
        PROVE  q[i].type = "subscriber"
    <3>1. i \in h[a] + 1 .. Len(q) /\ i < b
      BY <1>1, <2>1
    <3>2. ASSUME NEW c \in a + 1 .. Len(s), h[c] = i
          PROVE  q[i].type = "subscriber"
      <4>1. ~ (j < c) /\ c # j
        BY <2>1, <3>1, <3>2, <1>1 DEF Embeds
      <4>2. c \in a + 1 .. j - 1
        BY <1>1, <4>1
      <4> QED
        BY <1>3, <3>2, <4>2 DEF Embeds
    <3> QED
      BY <3>1, <3>2 DEF Embeds
  <2> QED
    BY <1>3, <2>2, <2>3 DEF Awaits
<1> QED
  BY <1>2, <1>3 DEF Awaits

LEMMA AwaitsMore ==
    ASSUME NEW l, NEW q, NEW p, NEW x, NEW E, NEW F, E \subseteq F, Awaits(l, q, p, x, E)
    PROVE  Awaits(l, q, p, x, F)
<1>1. \A d : JoinsAt(x, d, E) => JoinsAt(x, d, F)
  BY FollowsMore DEF JoinsAt
<1> QED
  BY <1>1 DEF Awaits

\* Whatever marks the queue has, they are the ones that were followed.
LEMMA ServedLedger ==
    ASSUME StorerInvariant', NEW k, Chain(k, queue'),
           k[0] = [open |-> tx', done |-> lastWatermark', fate |-> "runs"], Served(k)'
    PROVE  Serving'
<1> SUFFICES ASSUME NEW m, Ledger(m)'
             PROVE  Served(m)'
  BY DEF Serving
<1>1. Chain(m, queue') /\ m[0] = [open |-> tx', done |-> lastWatermark', fate |-> "runs"]
  BY DEF Ledger, Marks
<1>2. queue' \in Seq(Entry)
  BY DEF StorerInvariant, TypeOK
<1>3. m = k
  BY <1>1, <1>2, ChainAgree
<1> QED
  BY <1>3 DEF Served

LEMMA ServedEmpty ==
    ASSUME StorerInvariant', queue' = << >>, catchupQueue' = {}
    PROVE  Serving'
<1>1. 1 .. Len(queue') = {}
  BY EmptySeq
<1> QED
  BY <1>1 DEF Serving, Served

\* What the ledger says of the queue, and who waits.
LEMMA LedgerOf ==
    ASSUME StorerInvariant, Waits, Serving
    PROVE  /\ queue \in Seq(Entry) /\ Len(queue) \in Nat /\ 0 \in 0 .. Len(queue)
           /\ \E l : /\ Ledger(l) /\ Served(l) /\ Chain(l, queue)
                     /\ l[0] = [open |-> tx, done |-> lastWatermark, fate |-> "runs"]
                     /\ \A i \in 0 .. Len(queue) : l[i] \in Mark /\ l[i].done \in Nat
           /\ catchupQueue \subseteq Replicas
           /\ \A r \in catchupQueue : sub[r].state = "waiting"
           /\ \A r \in Replicas : \A p \in 1 .. Len(queue) :
                 IsSubscriber(queue[p], r) => sub[r].state = "waiting"
           /\ sub \in [Replicas -> Subscriber]
<1>1. queue \in Seq(Entry) /\ catchupQueue \subseteq Replicas /\ sub \in [Replicas -> Subscriber]
  BY DEF StorerInvariant, TypeOK
<1>2. PICK l : Ledger(l)
  BY DEF StorerInvariant
<1>3. Served(l)
  BY <1>2 DEF Serving
<1>4. Chain(l, queue) /\ l[0] = [open |-> tx, done |-> lastWatermark, fate |-> "runs"]
  BY <1>2 DEF Ledger, Marks
<1>5. \A i \in 0 .. Len(queue) : l[i] \in Mark /\ l[i].done \in Nat
  BY <1>1, <1>4, ChainType, WatermarkType DEF Mark
<1>6. Len(queue) \in Nat /\ 0 \in 0 .. Len(queue)
  BY <1>1, LenProperties
<1> QED
  BY <1>1, <1>2, <1>3, <1>4, <1>5, <1>6 DEF Waits

\* Entries are added, and the subscriber of r, which waits, becomes sub'[r].
GrownFor(l, k, r) ==
    /\ Carries(sub[r], sub'[r], Front, Front')
    /\ \/ sub'[r] = sub[r]
       \/ Len(queue) < Len(queue') /\ queue'[Len(queue) + 1].type # "subscriber"
    /\ \A p \in 0 .. Len(queue) : \A j \in Len(queue) + 1 .. Len(queue') :
          /\ l[p].fate = "runs" /\ l[p].open # 0
          /\ Awaits(l, queue, p, sub[r], Front)
          /\ queue'[j].type = "change" /\ queue'[j].tag \in {"commit", "rollback"}
          /\ \A i \in p + 1 .. j - 1 : queue'[i].type = "subscriber"
          => JoinsAt(sub'[r], k[j].done, Front')

LEMMA ServedGrow ==
    ASSUME StorerInvariant, Waits, StorerInvariant', NEW l, Ledger(l), Served(l),
           Extends(queue', queue), NEW k, Chain(k, queue'), \A i \in 0 .. Len(queue) : k[i] = l[i],
           UNCHANGED <<tx, lastWatermark, catchupQueue>>,
           \A r \in Replicas : sub[r].state = "waiting" => GrownFor(l, k, r),
           \A r \in Replicas : \A p \in Len(queue) + 1 .. Len(queue') :
              IsSubscriber(queue'[p], r) /\ k[p].fate = "runs" =>
                 Due(k, queue', p, sub'[r], Front')
    PROVE  Serving'
<1>1. /\ queue \in Seq(Entry) /\ queue' \in Seq(Entry) /\ Len(queue) \in Nat /\ Len(queue') \in Nat
      /\ Len(queue) <= Len(queue') /\ \A i \in 1 .. Len(queue) : queue'[i] = queue[i]
      /\ catchupQueue \subseteq Replicas
  BY LenProperties DEF StorerInvariant, TypeOK, Extends
<1>2. Chain(l, queue) /\ l[0] = [open |-> tx, done |-> lastWatermark, fate |-> "runs"]
  BY DEF Ledger, Marks
<1>3. \A i \in 0 .. Len(queue) : l[i].done \in Nat
  BY <1>1, <1>2, ChainType, WatermarkType DEF Mark
<1>4. ASSUME NEW r \in Replicas, sub[r].state = "waiting", NEW p \in 0 .. Len(queue),
             l[p].fate = "runs", l[p].open # 0, Awaits(l, queue, p, sub[r], Front)
      PROVE  Awaits(k, queue', p, sub'[r], Front')
  <2>1. /\ Carries(sub[r], sub'[r], Front, Front')
        /\ \/ sub'[r] = sub[r]
           \/ Len(queue) < Len(queue') /\ queue'[Len(queue) + 1].type # "subscriber"
    BY <1>4 DEF GrownFor
  <2>2. \A j \in Len(queue) + 1 .. Len(queue') :
           /\ queue'[j].type = "change" /\ queue'[j].tag \in {"commit", "rollback"}
           /\ \A i \in p + 1 .. j - 1 : queue'[i].type = "subscriber"
           => JoinsAt(sub'[r], k[j].done, Front')
    BY <1>4 DEF GrownFor
  <2> QED
    BY <1>1, <1>2, <1>4, <2>1, <2>2, AwaitsGrow
<1>5. ASSUME NEW r \in Replicas, NEW p \in 1 .. Len(queue'), IsSubscriber(queue'[p], r),
             k[p].fate = "runs"
      PROVE  Due(k, queue', p, sub'[r], Front')
  <2>1. CASE p \in Len(queue) + 1 .. Len(queue')
    BY <1>5, <2>1
  <2>2. CASE p \in 1 .. Len(queue)
    <3>1. p \in 0 .. Len(queue) /\ k[p] = l[p] /\ IsSubscriber(queue[p], r)
      BY <1>1, <1>5, <2>2
    <3>2. sub[r].state = "waiting" /\ Due(l, queue, p, sub[r], Front)
      BY <1>5, <2>2, <3>1 DEF Waits, Served
    <3>3. CASE l[p].open = 0
      <4>1. JoinsAt(sub[r], l[p].done, Front) /\ l[p].done \in Nat
        BY <1>3, <3>1, <3>2, <3>3 DEF Due
      <4>2. JoinsAt(sub'[r], l[p].done, Front')
        BY <3>2, <4>1 DEF GrownFor, Carries
      <4> QED
        BY <3>1, <3>3, <4>2 DEF Due
    <3>4. CASE l[p].open # 0
      <4>1. Awaits(l, queue, p, sub[r], Front)
        BY <3>2, <3>4 DEF Due
      <4>2. Awaits(k, queue', p, sub'[r], Front')
        BY <1>4, <1>5, <3>1, <3>2, <3>4, <4>1
      <4> QED
        BY <3>1, <3>4, <4>2 DEF Due
    <3> QED
      BY <3>3, <3>4
  <2> QED
    BY <1>1, <2>1, <2>2
<1>6. ASSUME NEW r \in catchupQueue, tx # 0
      PROVE  Awaits(k, queue', 0, sub'[r], Front')
  <2>1. 0 \in 0 .. Len(queue) /\ r \in Replicas /\ sub[r].state = "waiting"
    BY <1>1 DEF Waits
  <2>2. Awaits(l, queue, 0, sub[r], Front)
    BY <1>6 DEF Served
  <2>3. l[0].fate = "runs" /\ l[0].open # 0
    BY <1>2, <1>6
  <2> QED
    BY <1>4, <2>1, <2>2, <2>3
<1>7. Served(k)'
  BY <1>5, <1>6 DEF Served
<1>8. k[0] = [open |-> tx', done |-> lastWatermark', fate |-> "runs"]
  BY <1>1, <1>2
<1> QED
  BY <1>7, <1>8, ServedLedger

\* The queue and the subscribers that wait in it are left alone.
LEMMA ServedSame ==
    ASSUME StorerInvariant, Waits, Serving, StorerInvariant',
           UNCHANGED <<queue, tx, lastWatermark, catchupQueue>>,
           \A r \in Replicas : sub[r].state = "waiting" => sub'[r] = sub[r],
           Front \subseteq Front'
    PROVE  Serving'
<1>1. PICK l : /\ Ledger(l) /\ Served(l) /\ Chain(l, queue)
  BY LedgerOf
<1>2. queue' = queue /\ Len(queue) \in Nat /\ Len(queue) + 1 .. Len(queue) = {}
  BY LedgerOf
<1>3. \A r \in Replicas : sub[r].state = "waiting" => GrownFor(l, l, r)
  BY <1>2, CarriesMore DEF GrownFor
<1>4. Extends(queue', queue)
  BY <1>2 DEF Extends
<1>5. \A r \in Replicas : \A p \in Len(queue) + 1 .. Len(queue') :
         IsSubscriber(queue'[p], r) /\ l[p].fate = "runs" => Due(l, queue', p, sub'[r], Front')
  <2>1. Len(queue) + 1 .. Len(queue') = {}
    BY <1>2
  <2> QED
    BY <2>1
<1> QED
  BY <1>1, <1>2, <1>3, <1>4, <1>5, ServedGrow

LEMMA LedgerNow ==
    ASSUME StorerInvariant, Waits, Serving, StorerInvariant', Extends(queue', queue),
           UNCHANGED <<tx, lastWatermark>>
    PROVE  \E l, k : /\ Ledger(l) /\ Served(l) /\ Chain(l, queue)
                     /\ Ledger(k)' /\ Chain(k, queue')
                     /\ \A i \in 0 .. Len(queue) : k[i] = l[i]
<1>1. PICK l : /\ Ledger(l) /\ Served(l) /\ Chain(l, queue)
               /\ l[0] = [open |-> tx, done |-> lastWatermark, fate |-> "runs"]
  BY LedgerOf
<1>2. PICK k : Ledger(k)'
  BY DEF StorerInvariant
<1>3. Chain(k, queue') /\ k[0] = [open |-> tx, done |-> lastWatermark, fate |-> "runs"]
  BY <1>2 DEF Ledger, Marks
<1>4. queue \in Seq(Entry) /\ queue' \in Seq(Entry)
  BY DEF StorerInvariant, TypeOK
<1>5. \A i \in 0 .. Len(queue) : k[i] = l[i]
  BY <1>1, <1>3, <1>4, ChainPrefix
<1> QED
  BY <1>1, <1>2, <1>3, <1>5

\* Between transactions the front is at the last one, or further on.
LEMMA FrontReached ==
    ASSUME ~inTransaction', Upcoming' \in Nat, NEW d \in Nat, Upcoming' - 1 <= d,
           NEW w \in Nat
    PROVE  [wm |-> Larger(w, d), tx |-> 0] \in Front'
<1>1. PICK b \in Position : b = [wm |-> Larger(w, d), tx |-> 0] /\ b.wm = Larger(w, d) /\ b.tx = 0
  BY LargerOf, PositionOf
<1>2. d <= b.wm /\ b.wm \in Nat
  BY <1>1, LargerOf
<1>3. Upcoming' - 1 <= b.wm
  BY <1>2, NaturalOrder
<1> QED
  BY <1>1, <1>3 DEF Front, Aligned

\* A change is queued in the Storer and forwarded.
LEMMA ServedForward ==
    ASSUME StorerInvariant, Waits, Serving, StorerInvariant', NEW m \in Message,
           NEW e \in Entry, e = [type |-> "change", tag |-> m.tag, watermark |-> m.watermark],
           queue' = Append(queue, e), sub' = Forward(m), Continues(m, Front, Front'),
           UNCHANGED <<tx, lastWatermark, catchupQueue>>,
           m.tag # "begin" => phase' = "streaming" /\ ~inTransaction'
    PROVE  Serving'
<1>1. /\ queue \in Seq(Entry) /\ Len(queue) \in Nat /\ Len(queue') = Len(queue) + 1
      /\ queue'[Len(queue) + 1] = e /\ \A i \in 1 .. Len(queue) : queue'[i] = queue[i]
  BY LedgerOf, AppendOf
<1>2. Extends(queue', queue)
  BY <1>1 DEF Extends
<1>3. PICK l, k : /\ Ledger(l) /\ Served(l) /\ Chain(l, queue)
                  /\ Ledger(k)' /\ Chain(k, queue')
                  /\ \A i \in 0 .. Len(queue) : k[i] = l[i]
  BY <1>2, LedgerNow
<1>4. e.type = "change" /\ e.tag = m.tag
  OBVIOUS
<1>5. Front \subseteq Position
  BY DEF Front
<1>6. ASSUME NEW r \in Replicas, sub[r].state = "waiting"
      PROVE  GrownFor(l, k, r)
  <2>1. PICK x \in Subscriber : x = sub[r]
    BY LedgerOf
  <2>2. sub'[r] = ForwardTo(x, m)
    BY <2>1 DEF Forward, ForwardTo
  <2>3. Carries(x, ForwardTo(x, m), Front, Front')
    BY <1>5, <1>6, <2>1, CarriesForward
  <2>4. ASSUME NEW p \in 0 .. Len(queue), NEW j \in Len(queue) + 1 .. Len(queue'),
               l[p].fate = "runs", l[p].open # 0, Awaits(l, queue, p, x, Front),
               queue'[j].type = "change", queue'[j].tag \in {"commit", "rollback"},
               \A i \in p + 1 .. j - 1 : queue'[i].type = "subscriber"
        PROVE  JoinsAt(ForwardTo(x, m), k[j].done, Front')
    <3>1. j = Len(queue) + 1 /\ j - 1 = Len(queue) /\ j \in 1 .. Len(queue') /\ p \in Nat
      BY <1>1
    <3>2. m.tag \in {"commit", "rollback"} /\ queue'[j] = e
      BY <1>1, <1>4, <2>4, <3>1
    <3>3. \A i \in p + 1 .. Len(queue) : queue[i].type = "subscriber"
      BY <1>1, <2>4, <3>1
    <3>4. x.forwarder = "queued" /\ x.backlog = << >>
      BY <2>4, <3>3 DEF Awaits
    <3>5. l[Len(queue)] = l[p]
      BY <1>1, <1>3, <3>3, ChainFlat
    <3>6. k[j] = StoreStep(e, l[p]) /\ k[j] \in Mark
      <4>1. k[j] = StoreStep(queue'[j], k[j - 1]) /\ k[j] \in Mark
        <5>1. queue' \in Seq(Entry) /\ j \in 0 .. Len(queue')
          BY <1>1, <3>1, AppendOf
        <5> QED
          BY <1>3, <3>1, <5>1, ChainType
      <4>2. k[j - 1] = l[Len(queue)]
        BY <1>1, <1>3, <3>1
      <4> QED
        BY <3>2, <3>5, <4>1, <4>2
    <3>7. k[j].fate = "runs"
      BY <1>4, <2>4, <3>2, <3>6 DEF StoreStep
    <3>8. phase' = "streaming" /\ ~inTransaction' /\ k[j].done = next' - 1
      BY <1>1, <1>3, <3>1, <3>2, <3>7 DEF Ledger, Ends
    <3>9. Upcoming' = next' /\ next' \in Nat /\ k[j].done \in Nat
      BY <3>6, <3>8, WatermarkType DEF Upcoming, Mark, StorerInvariant, TypeOK
    <3>10. PICK y \in Subscriber : y = ForwardTo(x, m)
      <4>1. ForwardTo(x, m) \in Subscriber
        BY <3>4 DEF ForwardTo, Activate, Subscriber
      <4> QED
        BY <4>1
    <3>11. y.forwarder = "active" /\ y.backlog = << >>
      BY <3>2, <3>4, <3>10, ForwardToOf
    <3>12. y.watermark \in Nat
      BY WatermarkType DEF Subscriber
    <3>13. [wm |-> Larger(y.watermark, k[j].done), tx |-> 0] \in Front'
      <4>1. Upcoming' \in Nat /\ Upcoming' - 1 <= k[j].done
        BY <3>8, <3>9, NaturalOrder
      <4> QED
        BY <3>8, <3>9, <3>12, <4>1, FrontReached
    <3> QED
      BY <3>9, <3>10, <3>11, <3>13, JoinsNow
  <2>5. Len(queue) < Len(queue') /\ queue'[Len(queue) + 1].type # "subscriber"
    BY <1>1, <1>4
  <2> QED
    BY <2>1, <2>2, <2>3, <2>4, <2>5 DEF GrownFor
<1>7. \A r \in Replicas : \A p \in Len(queue) + 1 .. Len(queue') : ~IsSubscriber(queue'[p], r)
  <2>1. \A p \in Len(queue) + 1 .. Len(queue') : queue'[p] = e
    BY <1>1
  <2> QED
    BY <1>4, <2>1 DEF IsSubscriber
<1> QED
  BY <1>2, <1>3, <1>6, <1>7, ServedGrow

\* The end of the stream.
LEMMA ServedEndStream ==
    ASSUME StorerInvariant, Waits, Serving, StorerInvariant', EndStream, phase # "stopping"
    PROVE  Serving'
<1>1. /\ queue \in Seq(Entry) /\ Len(queue) \in Nat /\ Len(queue') \in Nat
      /\ Len(queue) <= Len(queue')
      /\ \A i \in 1 .. Len(queue) : queue'[i] = queue[i]
      /\ \A i \in 1 .. Len(queue') : i \in 1 .. Len(queue) \/ queue'[i] \in {Abort, Stop}
  BY LedgerOf, EndStreamGrows
<1>2. Extends(queue', queue)
  BY <1>1 DEF Extends
<1>3. UNCHANGED <<tx, lastWatermark, catchupQueue>>
  BY DEF EndStream, dbVars
<1>4. PICK l, k : /\ Ledger(l) /\ Served(l) /\ Chain(l, queue)
                  /\ Ledger(k)' /\ Chain(k, queue')
                  /\ \A i \in 0 .. Len(queue) : k[i] = l[i]
  BY <1>2, <1>3, LedgerNow
<1>5. \A i \in Len(queue) + 1 .. Len(queue') :
         queue'[i].type # "subscriber" /\ queue'[i].type # "change"
  <2>1. Abort.type = "abort" /\ Stop.type = "stop"
    BY DEF Abort, Stop
  <2> QED
    BY <1>1, <2>1
<1>6. ASSUME NEW r \in Replicas, sub[r].state = "waiting"
      PROVE  /\ Carries(sub[r], sub'[r], Front, Front')
             /\ \/ sub'[r] = sub[r]
                \/ Len(queue) < Len(queue') /\ queue'[Len(queue) + 1].type # "subscriber"
  <2>1. PICK x \in Subscriber : x = sub[r]
    BY LedgerOf
  <2>2. CASE watermark = 0
    <3>1. Front \subseteq Front' /\ sub'[r] = x
      BY <2>1, <2>2, FrontEndStream DEF EndStream
    <3> QED
      BY <2>1, <3>1, CarriesMore
  <2>3. CASE watermark # 0
    <3>1. PICK m \in Message : m = [tag |-> "rollback", watermark |-> watermark]
      BY EntryTypes DEF StorerInvariant, TypeOK
    <3>2. Continues(m, Front, Front') /\ Front \subseteq Position
      BY <2>3, <3>1, FrontEndStream DEF Front
    <3>3. sub'[r] = ForwardTo(x, m)
      BY <2>1, <2>3, <3>1 DEF EndStream, Forward, ForwardTo
    <3>4. Carries(x, ForwardTo(x, m), Front, Front')
      BY <1>6, <2>1, <3>2, CarriesForward
    <3>5. Len(queue) < Len(queue')
      <4>1. Abort \in Entry /\ Stop \in Entry /\ queue' = Stopped
        BY <1>1, EndStreamQueue DEF Entry
      <4>2. Aborted = Append(queue, Abort) /\ Aborted \in Seq(Entry)
            /\ Len(Aborted) = Len(queue) + 1
        BY <1>1, <2>3, <4>1, AppendOf DEF Aborted
      <4>3. Append(Aborted, Abort) \in Seq(Entry) /\ Len(Append(Aborted, Abort)) = Len(queue) + 2
        BY <1>1, <4>1, <4>2, AppendOf
      <4>4. Len(Append(Append(Aborted, Abort), Stop)) = Len(queue) + 3
        BY <1>1, <4>1, <4>3, AppendOf
      <4> QED
        BY <1>1, <4>1, <4>2, <4>4 DEF Stopped
    <3>6. queue'[Len(queue) + 1].type # "subscriber"
      BY <1>1, <1>5, <3>5
    <3> QED
      BY <2>1, <3>3, <3>4, <3>5, <3>6
  <2> QED
    BY <2>2, <2>3
<1>7. \A r \in Replicas : sub[r].state = "waiting" => GrownFor(l, k, r)
  BY <1>5, <1>6 DEF GrownFor
<1>8. \A r \in Replicas : \A p \in Len(queue) + 1 .. Len(queue') : ~IsSubscriber(queue'[p], r)
  BY <1>5 DEF IsSubscriber
<1> QED
  BY <1>2, <1>3, <1>4, <1>7, <1>8, ServedGrow

\* A replica subscribes: it joins what is forwarded where its catchup ends.
LEMMA ServedSubscribe ==
    ASSUME StorerInvariant, Waits, Serving, StorerInvariant', NEW r \in Replicas, Subscribe(r)
    PROVE  Serving'
<1>1. PICK e \in Entry : e = [type |-> "subscriber", replica |-> r]
  <2>1. [type |-> "subscriber", replica |-> r] \in Entry
    BY DEF Entry
  <2> QED
    BY <2>1
<1>2. /\ queue \in Seq(Entry) /\ Len(queue) \in Nat /\ Len(queue') = Len(queue) + 1
      /\ queue'[Len(queue) + 1] = e /\ \A i \in 1 .. Len(queue) : queue'[i] = queue[i]
  BY <1>1, LedgerOf, AppendOf DEF Subscribe
<1>3. Extends(queue', queue)
  BY <1>2 DEF Extends
<1>4. UNCHANGED <<tx, lastWatermark, catchupQueue>> /\ Front' = Front
  BY DEF Subscribe, dbVars, loopVars, Front, Aligned, Upcoming
<1>5. PICK l, k : /\ Ledger(l) /\ Served(l) /\ Chain(l, queue)
                  /\ Ledger(k)' /\ Chain(k, queue')
                  /\ \A i \in 0 .. Len(queue) : k[i] = l[i]
  BY <1>3, <1>4, LedgerNow
<1>6. \A q \in Replicas : sub[q].state = "waiting" => sub'[q] = sub[q]
  BY LedgerOf DEF Subscribe
<1>7. \A j \in Len(queue) + 1 .. Len(queue') : queue'[j] = e /\ j = Len(queue) + 1
  BY <1>2
<1>8. \A q \in Replicas : sub[q].state = "waiting" => GrownFor(l, k, q)
  <2>1. e.type # "change"
    BY <1>1
  <2> QED
    BY <1>4, <1>6, <1>7, <2>1, CarriesMore DEF GrownFor
<1>9. PICK n \in Nat : n = Len(queue)
  BY <1>2
<1>10. PICK y \in Subscriber :
         /\ y = sub'[r] /\ y.backlog = << >>
         /\ y.forwarder = IF inTransaction THEN "queued" ELSE "active"
  <2>1. sub'[r] \in Subscriber
    BY DEF StorerInvariant, TypeOK
  <2>2. /\ sub'[r].backlog = << >>
        /\ sub'[r].forwarder = IF inTransaction THEN "queued" ELSE "active"
    BY LedgerOf DEF Subscribe, NoSubscriber
  <2> QED
    BY <2>1, <2>2
<1>11. ASSUME k[n + 1].fate = "runs"
       PROVE  Due(k, queue', n + 1, y, Front')
  <2>1. k[n + 1] = l[n] /\ l[n] \in Mark
    <3>1. queue' \in Seq(Entry) /\ n + 1 \in 1 .. Len(queue') /\ (n + 1) - 1 = n /\ n \in 0 .. Len(queue)
      BY <1>1, <1>2, <1>9, AppendOf DEF Subscribe
    <3>2. k[n + 1] = StoreStep(e, k[n])
      BY <1>2, <1>5, <1>9, <3>1, ChainType
    <3>3. k[n] = l[n] /\ l[n] \in Mark
      BY <1>2, <1>5, <3>1, ChainType
    <3> QED
      BY <1>1, <3>2, <3>3 DEF StoreStep
  <2>2. l[n].done \in Nat /\ next \in Nat \ {0} /\ y.watermark \in Nat
    BY <2>1, LoopNumbers, WatermarkType DEF Mark, Subscriber
  <2>3. /\ phase = "streaming" =>
              l[n].done = next - 1 /\ l[n].open = IF inTransaction THEN next ELSE 0
        /\ phase # "streaming" =>
              ~running /\ l[n].open = 0 /\ l[n].done = lastWatermark /\ ~inTransaction
    <3>1. Ends(l) /\ l[n].fate = "runs"
      BY <1>5, <1>11, <2>1 DEF Ledger
    <3>2. phase # "streaming" => phase = "stopping" /\ watermark = 0 /\ ~inTransaction
      BY DEF Subscribe, StorerInvariant, Loop
    <3>3. ~running => l[n].done = lastWatermark
      BY <1>2, <1>5, <1>9, <3>1, EndMark DEF Ledger
    <3> QED
      BY <1>9, <3>1, <3>2, <3>3 DEF Ends
  <2>4. CASE inTransaction
    <3>1. l[n].open # 0
      BY <2>2, <2>3, <2>4
    <3>2. y.forwarder = "queued" /\ n + 1 + 1 .. Len(queue') = {}
      BY <1>2, <1>9, <1>10, <2>4
    <3>3. Awaits(k, queue', n + 1, y, Front')
      BY <1>10, <3>2 DEF Awaits
    <3> QED
      BY <2>1, <3>1, <3>3 DEF Due
  <2>5. CASE ~inTransaction
    <3>1. l[n].open = 0 /\ y.forwarder = "active"
      BY <1>10, <2>3, <2>5
    <3>2. Upcoming' \in Nat /\ Upcoming' - 1 <= l[n].done /\ ~inTransaction'
      <4>1. Upcoming' = Upcoming /\ inTransaction' = inTransaction
        BY DEF Subscribe, dbVars, loopVars, Upcoming
      <4>2. Upcoming \in Nat
        BY LoopNumbers
      <4>3. phase = "streaming" => Upcoming - 1 <= l[n].done
        BY <2>2, <2>3, NaturalOrder DEF Upcoming
      <4>4. phase # "streaming" => Upcoming = l[n].done + 1
        BY <2>3 DEF Upcoming, Subscribe
      <4>5. Upcoming - 1 <= l[n].done
        BY <2>2, <4>3, <4>4
      <4> QED
        BY <2>5, <4>1, <4>2, <4>5
    <3>3. [wm |-> Larger(y.watermark, l[n].done), tx |-> 0] \in Front'
      BY <2>2, <3>2, FrontReached
    <3>4. JoinsAt(y, l[n].done, Front')
      BY <1>10, <2>2, <3>1, <3>3, JoinsNow
    <3> QED
      BY <2>1, <3>1, <3>4 DEF Due
  <2> QED
    BY <2>4, <2>5
<1>12. \A q \in Replicas : \A p \in Len(queue) + 1 .. Len(queue') :
          IsSubscriber(queue'[p], q) /\ k[p].fate = "runs" => Due(k, queue', p, sub'[q], Front')
  <2> SUFFICES ASSUME NEW q \in Replicas, NEW p \in Len(queue) + 1 .. Len(queue'),
                      IsSubscriber(queue'[p], q), k[p].fate = "runs"
               PROVE  Due(k, queue', p, sub'[q], Front')
    OBVIOUS
  <2>1. p = n + 1 /\ q = r
    BY <1>1, <1>7, <1>9 DEF IsSubscriber
  <2> QED
    BY <1>10, <1>11, <2>1
<1> QED
  BY <1>3, <1>4, <1>5, <1>8, <1>12, ServedGrow

\* Entries are taken out of the queue: what is left was at h.
LEMMA ServedMove ==
    ASSUME StorerInvariant', NEW l, Served(l), NEW k, Chain(k, queue'),
           k[0] = [open |-> tx', done |-> lastWatermark', fate |-> "runs"],
           queue \in Seq(Entry), queue' \in Seq(Entry),
           NEW h,
           \A i \in 1 .. Len(queue') :
              /\ h[i] \in 1 .. Len(queue) /\ queue'[i] = queue[h[i]]
              /\ k[i] = l[h[i]] /\ Embeds(h, queue, queue', i),
           \A r \in Replicas : \A i \in 1 .. Len(queue') :
              IsSubscriber(queue'[i], r) => sub'[r] = sub[r],
           Front' = Front,
           \A r \in catchupQueue' : tx' # 0 => Awaits(k, queue', 0, sub'[r], Front')
    PROVE  Serving'
<1>1. ASSUME NEW r \in Replicas, NEW p \in 1 .. Len(queue'), IsSubscriber(queue'[p], r),
             k[p].fate = "runs"
      PROVE  Due(k, queue', p, sub'[r], Front')
  <2>1. h[p] \in 1 .. Len(queue) /\ IsSubscriber(queue[h[p]], r) /\ k[p] = l[h[p]]
        /\ sub'[r] = sub[r]
    BY <1>1
  <2>2. Due(l, queue, h[p], sub[r], Front)
    BY <1>1, <2>1 DEF Served
  <2>3. CASE k[p].open = 0
    BY <2>1, <2>2, <2>3 DEF Due
  <2>4. CASE k[p].open # 0
    <3>1. Awaits(l, queue, h[p], sub[r], Front)
      BY <2>1, <2>2, <2>4 DEF Due
    <3>2. p \in 0 .. Len(queue') /\ h[p] \in 0 .. Len(queue) /\ Embeds(h, queue, queue', p)
          /\ \A j \in p + 1 .. Len(queue') : j \in 1 .. Len(queue')
      <4>1. Len(queue') \in Nat /\ Len(queue) \in Nat
        BY LenProperties
      <4> QED
        BY <2>1, <4>1
    <3>3. \A j \in p + 1 .. Len(queue') : k[j] = l[h[j]]
      BY <3>2
    <3>4. Awaits(k, queue', p, sub[r], Front)
      BY <3>1, <3>2, <3>3, AwaitsMove
    <3> QED
      BY <2>1, <2>4, <3>4 DEF Due
  <2> QED
    BY <2>3, <2>4
<1>2. Served(k)'
  BY <1>1 DEF Served
<1> QED
  BY <1>2, ServedLedger

LEMMA TailEmbeds ==
    ASSUME NEW q \in Seq(Entry), q # << >>
    PROVE  \E h : /\ \A i \in 0 .. Len(q) - 1 : h[i] = i + 1
                  /\ \A i \in 1 .. Len(Tail(q)) : h[i] \in 1 .. Len(q) /\ Tail(q)[i] = q[h[i]]
                  /\ \A a \in 0 .. Len(Tail(q)) : Embeds(h, q, Tail(q), a) /\ h[a] \in 0 .. Len(q)
<1>1. /\ Len(q) \in Nat \ {0} /\ Len(Tail(q)) = Len(q) - 1
      /\ \A i \in 1 .. Len(q) - 1 : Tail(q)[i] = q[i + 1]
  BY TailOf
<1>2. PICK h : h = [i \in 0 .. Len(q) - 1 |-> i + 1]
  OBVIOUS
<1>3. \A i \in 0 .. Len(q) - 1 : h[i] = i + 1
  BY <1>2
<1>4. \A i \in 1 .. Len(q) - 1 : i \in 0 .. Len(q) - 1 /\ h[i] = i + 1 /\ i + 1 \in 1 .. Len(q)
  BY <1>1, <1>3
<1>5. ASSUME NEW a \in 0 .. Len(q) - 1
      PROVE  Embeds(h, q, Tail(q), a) /\ h[a] \in 0 .. Len(q)
  <2>1. h[a] = a + 1 /\ a \in Nat /\ a + 1 \in 0 .. Len(q)
    BY <1>1, <1>3
  <2>2. ASSUME NEW j \in a + 1 .. Len(q) - 1
        PROVE  h[j] \in a + 1 + 1 .. Len(q) /\ Tail(q)[j] = q[h[j]]
    <3>1. j \in 1 .. Len(q) - 1
      BY <1>1, <2>1
    <3> QED
      BY <1>1, <1>4, <2>1, <3>1
  <2>3. \A i, j \in a + 1 .. Len(q) - 1 : i < j => h[i] < h[j]
    <3>1. \A i \in a + 1 .. Len(q) - 1 : i \in Nat /\ h[i] = i + 1
      BY <1>1, <1>4, <2>1
    <3> QED
      BY <3>1
  <2>4. ASSUME NEW i \in a + 1 + 1 .. Len(q)
        PROVE  \E b \in a + 1 .. Len(q) - 1 : h[b] = i
    <3>1. i - 1 \in a + 1 .. Len(q) - 1 /\ i - 1 \in 1 .. Len(q) - 1 /\ (i - 1) + 1 = i
      BY <1>1, <2>1
    <3> QED
      BY <1>4, <3>1
  <2> QED
    BY <1>1, <2>1, <2>2, <2>3, <2>4 DEF Embeds
<1> QED
  BY <1>1, <1>3, <1>4, <1>5

LEMMA AwaitsSkip ==
    ASSUME NEW q \in Seq(Entry), NEW l, NEW x, NEW E, Awaits(l, q, 0, x, E),
           q # << >>, q[1].type = "subscriber"
    PROVE  Awaits(l, q, 1, x, E)
<1>1. Len(q) \in Nat \ {0} /\ 0 + 1 = 1 /\ 1 + 1 = 2
  BY TailOf
<1>2. ASSUME \A k \in 2 .. Len(q) : q[k].type = "subscriber"
      PROVE  x.forwarder = "queued" /\ x.backlog = << >>
  <2>1. \A k \in 1 .. Len(q) : k = 1 \/ k \in 2 .. Len(q)
    BY <1>1
  <2> QED
    BY <1>1, <1>2, <2>1 DEF Awaits
<1>3. ASSUME NEW j \in 2 .. Len(q), q[j].type = "change", q[j].tag \in {"commit", "rollback"},
             \A k \in 2 .. j - 1 : q[k].type = "subscriber"
      PROVE  JoinsAt(x, l[j].done, E)
  <2>1. j \in 1 .. Len(q) /\ \A k \in 1 .. j - 1 : k = 1 \/ k \in 2 .. j - 1
    BY <1>1
  <2> QED
    BY <1>1, <1>3, <2>1 DEF Awaits
<1> QED
  BY <1>1, <1>2, <1>3 DEF Awaits

\* An entry has been dealt with.
LEMMA ServedTail ==
    ASSUME StorerInvariant, Waits, Serving, StorerInvariant', queue # << >>,
           queue' = Tail(queue), running, UNCHANGED <<loopVars, running>>,
           \A l : Ledger(l) => l[1] = [open |-> tx', done |-> lastWatermark', fate |-> "runs"],
           \A r \in Replicas : \A i \in 2 .. Len(queue) :
              IsSubscriber(queue[i], r) => sub'[r] = sub[r],
           \A l : Ledger(l) /\ Served(l) =>
              \A r \in catchupQueue' : tx' # 0 => Awaits(l, queue, 1, sub'[r], Front)
    PROVE  Serving'
<1>1. /\ queue \in Seq(Entry) /\ queue' \in Seq(Entry) /\ Len(queue) \in Nat \ {0}
      /\ Len(queue') = Len(queue) - 1
      /\ \A i \in 1 .. Len(queue) - 1 : queue'[i] = queue[i + 1]
  BY LedgerOf, TailOf
<1>2. PICK l : /\ Ledger(l) /\ Served(l) /\ Chain(l, queue)
  BY LedgerOf
<1>3. PICK k : Chain(k, queue') /\ \A i \in 0 .. Len(queue) - 1 : k[i] = l[i + 1]
  BY <1>1, <1>2, ChainTail
<1>4. PICK h : /\ \A i \in 0 .. Len(queue) - 1 : h[i] = i + 1
               /\ \A i \in 1 .. Len(queue') : h[i] \in 1 .. Len(queue) /\ queue'[i] = queue[h[i]]
               /\ \A a \in 0 .. Len(queue') : Embeds(h, queue, queue', a) /\ h[a] \in 0 .. Len(queue)
  BY <1>1, TailEmbeds
<1>5. \A i \in 0 .. Len(queue') : i \in 0 .. Len(queue) - 1 /\ k[i] = l[h[i]]
  BY <1>1, <1>3, <1>4
<1>6. 0 \in 0 .. Len(queue') /\ h[0] = 1 /\ \A i \in 1 .. Len(queue') : i \in 0 .. Len(queue')
  BY <1>1, <1>4
<1>7. k[0] = [open |-> tx', done |-> lastWatermark', fate |-> "runs"]
  BY <1>2, <1>4, <1>5, <1>6
<1>8. Front' = Front
  BY DEF Front, Aligned, Upcoming, loopVars
<1>9. ASSUME NEW r \in Replicas, NEW i \in 1 .. Len(queue'), IsSubscriber(queue'[i], r)
      PROVE  sub'[r] = sub[r]
  <2>1. i + 1 \in 2 .. Len(queue) /\ queue'[i] = queue[i + 1]
    BY <1>1
  <2> QED
    BY <1>9, <2>1
<1>10. ASSUME NEW r \in catchupQueue', tx' # 0
       PROVE  Awaits(k, queue', 0, sub'[r], Front')
  <2>1. Awaits(l, queue, h[0], sub'[r], Front)
    BY <1>2, <1>6, <1>10
  <2>2. \A j \in 0 + 1 .. Len(queue') : k[j] = l[h[j]]
    BY <1>5, <1>6
  <2>3. Embeds(h, queue, queue', 0) /\ h[0] \in 0 .. Len(queue)
    BY <1>4, <1>6
  <2>4. Awaits(k, queue', 0, sub'[r], Front)
    BY <1>1, <1>6, <2>1, <2>2, <2>3, AwaitsMove
  <2> QED
    BY <1>8, <2>4
<1>11. \A i \in 1 .. Len(queue') :
          /\ h[i] \in 1 .. Len(queue) /\ queue'[i] = queue[h[i]]
          /\ k[i] = l[h[i]] /\ Embeds(h, queue, queue', i)
  BY <1>4, <1>5, <1>6
<1> QED
  BY <1>1, <1>2, <1>3, <1>7, <1>8, <1>9, <1>10, <1>11, ServedMove

\* The entry of a subscriber is at the head of the queue, if it is dealt with.
LEMMA HeadSubscriber ==
    ASSUME StorerInvariant, Waits, StoreSubscriber
    PROVE  \E r \in Replicas :
              /\ Head(queue).replica = r /\ IsSubscriber(queue[1], r) /\ 1 \in 1 .. Len(queue)
              /\ sub[r].state = "waiting" /\ r \notin catchupQueue
              /\ \A i \in 2 .. Len(queue) : ~IsSubscriber(queue[i], r)
<1>1. queue \in Seq(Entry) /\ queue # << >> /\ Head(queue).type = "subscriber"
  BY DEF StorerInvariant, TypeOK, StoreSubscriber, Dequeue
<1>2. Head(queue) = queue[1] /\ Head(queue).replica \in Replicas /\ Len(queue) \in Nat \ {0}
  BY <1>1, TailOf, QueueTypes
<1>3. PICK r \in Replicas : r = Head(queue).replica
  BY <1>2
<1>4. IsSubscriber(queue[1], r) /\ 1 \in 1 .. Len(queue)
      /\ \A i \in 2 .. Len(queue) : i \in 1 .. Len(queue) /\ i # 1
  BY <1>1, <1>2, <1>3 DEF IsSubscriber
<1>5. sub[r].state = "waiting" /\ r \notin catchupQueue
      /\ \A i \in 2 .. Len(queue) : ~IsSubscriber(queue[i], r)
  BY <1>4 DEF Waits
<1> QED
  BY <1>3, <1>4, <1>5

LEMMA ServedStorer ==
    ASSUME StorerInvariant, Waits, Aborts, Serving, StorerInvariant',
           StoreBegin \/ StoreCommit \/ StoreRollback \/ StoreSubscriber \/ StoreAbort
    PROVE  Serving'
<1>1. /\ queue # << >> /\ running /\ running' = running /\ queue' = Tail(queue)
      /\ UNCHANGED <<loopVars, running>>
      /\ \A l : Ledger(l) => l[1] = [open |-> tx', done |-> lastWatermark', fate |-> "runs"]
  <2>1. TypeOK /\ Loop /\ \E l : Ledger(l)
    BY DEF StorerInvariant
  <2> QED
    BY <2>1, StoreNext
<1>2. /\ queue \in Seq(Entry) /\ Len(queue) \in Nat \ {0} /\ Head(queue) = queue[1]
      /\ 1 \in 1 .. Len(queue) /\ \A i \in 2 .. Len(queue) : i \in 1 .. Len(queue)
      /\ sub \in [Replicas -> Subscriber]
  BY <1>1, LedgerOf, TailOf
<1>3. \A r \in Replicas : \A i \in 2 .. Len(queue) :
         IsSubscriber(queue[i], r) => sub'[r] = sub[r]
  <2>1. CASE StoreBegin \/ StoreAbort
    BY <2>1 DEF StoreBegin, StoreAbort
  <2>2. CASE StoreCommit \/ StoreRollback
    <3>1. \A r \in Replicas : r \notin catchupQueue => sub'[r] = sub[r]
      BY <2>2 DEF StoreCommit, StoreRollback
    <3> QED
      BY <1>2, <3>1 DEF Waits
  <2>3. CASE StoreSubscriber
    <3>1. PICK q \in Replicas : /\ Head(queue).replica = q
                                /\ \A i \in 2 .. Len(queue) : ~IsSubscriber(queue[i], q)
      BY <2>3, HeadSubscriber
    <3>2. \A r \in Replicas : r # q => sub'[r] = sub[r]
      BY <1>2, <2>3, <3>1 DEF StoreSubscriber
    <3> QED
      BY <3>1, <3>2
  <2> QED
    BY <2>1, <2>2, <2>3
<1>4. ASSUME NEW l, Ledger(l), Served(l), NEW r \in catchupQueue', tx' # 0
      PROVE  Awaits(l, queue, 1, sub'[r], Front)
  <2>1. CASE StoreBegin
    <3>1. queue[1].type = "change" /\ tx = 0 /\ catchupQueue' = catchupQueue
      BY <1>2, <2>1 DEF StoreBegin, DequeueChange, Dequeue
    <3> QED
      BY <1>2, <1>4, <3>1 DEF Aborts
  <2>2. CASE StoreCommit \/ StoreRollback \/ StoreAbort
    BY <1>4, <2>2 DEF StoreCommit, StoreRollback, StoreAbort
  <2>3. CASE StoreSubscriber
    <3>1. PICK q \in Replicas : /\ Head(queue).replica = q /\ IsSubscriber(queue[1], q)
      BY <2>3, HeadSubscriber
    <3>2. tx # 0 /\ catchupQueue' = catchupQueue \cup {q} /\ sub' = sub
      BY <1>4, <2>3, <3>1 DEF StoreSubscriber
    <3>3. CASE r \in catchupQueue
      <4>1. Awaits(l, queue, 0, sub[r], Front)
        BY <1>4, <3>2, <3>3 DEF Served
      <4> QED
        BY <1>1, <1>2, <3>1, <3>2, <4>1, AwaitsSkip DEF IsSubscriber
    <3>4. CASE r = q
      <4>1. l[1].fate = "runs" /\ l[1].open # 0
        BY <1>1, <1>4
      <4>2. Due(l, queue, 1, sub[r], Front)
        BY <1>2, <1>4, <3>1, <3>4, <4>1 DEF Served
      <4> QED
        BY <3>2, <4>1, <4>2 DEF Due
    <3> QED
      BY <1>4, <3>2, <3>3, <3>4
  <2> QED
    BY <2>1, <2>2, <2>3
<1> QED
  BY <1>1, <1>3, <1>4, ServedTail

\* s is q without the entry k: what is in s was at h in q.
Skips(h, q, s, k) ==
    /\ \A i \in 0 .. Len(q) - 1 : h[i] = IF i < k THEN i ELSE i + 1
    /\ \A i \in 1 .. Len(s) : h[i] \in 1 .. Len(q) /\ h[i] # k /\ s[i] = q[h[i]]
    /\ \A a \in 0 .. Len(s) : Embeds(h, q, s, a) /\ h[a] \in 0 .. Len(q)

\* A subscriber leaves, and its entry with it.
LEMMA WithoutEmbeds ==
    ASSUME NEW q \in Seq(Entry), NEW k, NEW s, Without(q, k, s), q[k].type = "subscriber"
    PROVE  \E h : Skips(h, q, s, k)
<1>1. /\ Len(q) \in Nat \ {0} /\ k \in 1 .. Len(q) /\ Len(s) = Len(q) - 1
      /\ \A i \in 1 .. Len(q) - 1 : s[i] = IF i < k THEN q[i] ELSE q[i + 1]
  BY LenProperties DEF Without
<1>2. PICK h : h = [i \in 0 .. Len(q) - 1 |-> IF i < k THEN i ELSE i + 1]
  OBVIOUS
<1>3. \A i \in 0 .. Len(q) - 1 : h[i] = IF i < k THEN i ELSE i + 1
  BY <1>2
<1>4. \A i \in 1 .. Len(q) - 1 : /\ i \in 0 .. Len(q) - 1 /\ h[i] \in 1 .. Len(q) /\ h[i] # k
                                 /\ s[i] = q[h[i]]
  BY <1>1, <1>3
<1>5. ASSUME NEW a \in 0 .. Len(q) - 1
      PROVE  Embeds(h, q, s, a) /\ h[a] \in 0 .. Len(q)
  <2>1. a \in Nat /\ h[a] = (IF a < k THEN a ELSE a + 1) /\ h[a] \in 0 .. Len(q)
    BY <1>1, <1>3
  <2>2. \A i \in a + 1 .. Len(q) - 1 : /\ i \in 1 .. Len(q) - 1 /\ i \in 0 .. Len(q) - 1
                                       /\ i \in Nat /\ h[i] = IF i < k THEN i ELSE i + 1
    BY <1>1, <1>3, <2>1
  <2>3. \A j \in a + 1 .. Len(q) - 1 : h[j] \in h[a] + 1 .. Len(q) /\ s[j] = q[h[j]]
    BY <1>1, <1>4, <2>1, <2>2
  <2>4. \A i, j \in a + 1 .. Len(q) - 1 : i < j => h[i] < h[j]
    BY <1>1, <2>2
  <2>5. ASSUME NEW i \in h[a] + 1 .. Len(q)
        PROVE  q[i].type = "subscriber" \/ \E b \in a + 1 .. Len(q) - 1 : h[b] = i
    <3>1. CASE i = k
      BY <3>1
    <3>2. CASE i < k
      <4>1. i \in a + 1 .. Len(q) - 1
        BY <1>1, <2>1, <3>2
      <4> QED
        BY <2>2, <3>2, <4>1
    <3>3. CASE k < i
      <4>1. i - 1 \in a + 1 .. Len(q) - 1 /\ ~ (i - 1 < k) /\ (i - 1) + 1 = i
        BY <1>1, <2>1, <3>3
      <4> QED
        BY <2>2, <4>1
    <3> QED
      BY <1>1, <2>1, <3>1, <3>2, <3>3
  <2> QED
    BY <1>1, <2>1, <2>3, <2>4, <2>5 DEF Embeds
<1> QED
  BY <1>1, <1>3, <1>4, <1>5 DEF Skips

\* The marks m of s are those of q but for the one of the entry k.
Shortened(m, s, l, q, k) ==
    /\ Chain(m, s)
    /\ \A i \in 0 .. Len(q) - 1 : m[i] = IF i < k THEN l[i] ELSE l[i + 1]

LEMMA ChainForget ==
    ASSUME NEW q \in Seq(Entry), NEW k, NEW s, Without(q, k, s), q[k].type = "subscriber",
           NEW l, Chain(l, q)
    PROVE  \E m : Shortened(m, s, l, q, k)
<1>1. PICK m : /\ Chain(m, s)
               /\ \A i \in 0 .. Len(q) - 1 : m[i] = IF i < k THEN l[i] ELSE l[i + 1]
               /\ \A i \in 0 .. Len(q) - 1 : k <= i + 1 => m[i] = l[i + 1]
  BY ChainWithout
<1> QED
  BY <1>1 DEF Shortened

LEMMA ServedForget ==
    ASSUME StorerInvariant, Waits, Serving, StorerInvariant', NEW r \in Replicas, StreamEnds(r)
    PROVE  Serving'
<1>1. /\ queue \in Seq(Entry) /\ queue' = Forget(queue, r) /\ queue' \in Seq(Entry)
      /\ catchupQueue' = catchupQueue \ {r} /\ catchupQueue \subseteq Replicas
      /\ \A q \in Replicas : q # r => sub'[q] = sub[q]
      /\ UNCHANGED <<tx, lastWatermark>> /\ Front' = Front
  BY LedgerOf DEF StreamEnds, StorerInvariant, TypeOK, dbVars, loopVars, Front, Aligned, Upcoming
<1>2. PICK l : /\ Ledger(l) /\ Served(l) /\ Chain(l, queue)
               /\ l[0] = [open |-> tx, done |-> lastWatermark, fate |-> "runs"]
  BY LedgerOf
<1>3. CASE queue' = queue /\ \A i \in 1 .. Len(queue) : ~IsSubscriber(queue[i], r)
  <2>1. Served(l)'
    BY <1>1, <1>2, <1>3 DEF Served
  <2> QED
    BY <1>1, <1>2, <1>3, <2>1, ServedLedger
<1>4. ASSUME NEW k \in 1 .. Len(queue), IsSubscriber(queue[k], r), Without(queue, k, queue')
      PROVE  Serving'
  <2>1. /\ queue[k].type = "subscriber" /\ queue \in Seq(Entry) /\ Chain(l, queue)
        /\ Without(queue, k, queue')
    BY <1>1, <1>2, <1>4 DEF IsSubscriber
  <2>2. PICK m : Shortened(m, queue', l, queue, k)
    BY <2>1, ChainForget
  <2>3. PICK h : Skips(h, queue, queue', k)
    BY <2>1, WithoutEmbeds
  <2>4. Len(queue) \in Nat \ {0} /\ Len(queue') = Len(queue) - 1 /\ k \in Nat \ {0}
    BY <1>1, <1>4, LenProperties DEF Without
  <2>5. \A i \in 0 .. Len(queue') : i \in 0 .. Len(queue) - 1 /\ m[i] = l[h[i]]
    BY <2>2, <2>3, <2>4 DEF Shortened, Skips
  <2>6. /\ 0 \in 0 .. Len(queue') /\ h[0] = 0 /\ m[0] = l[0]
        /\ \A i \in 1 .. Len(queue') : i \in 0 .. Len(queue')
    BY <2>3, <2>4, <2>5 DEF Skips
  <2>7. ASSUME NEW q \in Replicas, NEW i \in 1 .. Len(queue'), IsSubscriber(queue'[i], q)
        PROVE  sub'[q] = sub[q]
    <3>1. h[i] \in 1 .. Len(queue) /\ h[i] # k /\ IsSubscriber(queue[h[i]], q)
      BY <2>3, <2>7 DEF Skips
    <3>2. q # r
      BY <1>4, <3>1 DEF Waits
    <3> QED
      BY <1>1, <3>2
  <2>8. ASSUME NEW q \in catchupQueue', tx' # 0
        PROVE  Awaits(m, queue', 0, sub'[q], Front')
    <3>1. q \in Replicas /\ q # r /\ q \in catchupQueue /\ sub'[q] = sub[q]
      BY <1>1
    <3>2. Awaits(l, queue, h[0], sub[q], Front)
      BY <1>1, <1>2, <2>6, <2>8, <3>1 DEF Served
    <3>3. \A j \in 0 + 1 .. Len(queue') : m[j] = l[h[j]]
      BY <2>5, <2>6
    <3>4. Embeds(h, queue, queue', 0) /\ h[0] \in 0 .. Len(queue)
      BY <2>3, <2>6 DEF Skips
    <3>5. Awaits(m, queue', 0, sub[q], Front)
      BY <1>1, <2>6, <3>2, <3>3, <3>4, AwaitsMove
    <3> QED
      BY <1>1, <3>1, <3>5
  <2>9. m[0] = [open |-> tx', done |-> lastWatermark', fate |-> "runs"]
    BY <1>1, <1>2, <2>6
  <2>10. \A i \in 1 .. Len(queue') :
            /\ h[i] \in 1 .. Len(queue) /\ queue'[i] = queue[h[i]]
            /\ m[i] = l[h[i]] /\ Embeds(h, queue, queue', i)
    BY <2>3, <2>5, <2>6 DEF Skips
  <2> QED
    BY <1>1, <1>2, <2>2, <2>7, <2>8, <2>9, <2>10, ServedMove DEF Shortened
<1> QED
  BY <1>1, <1>3, <1>4, ForgetOf DEF IsSubscriber

\* The steps of the replicas, the catchups and the purge do not concern those
\* that wait.
Quiet ==
    /\ UNCHANGED <<queue, tx, lastWatermark, catchupQueue, running, phase, next, inTransaction>>
    /\ \A r \in Replicas : sub[r].state = "waiting" => sub'[r] = sub[r]

LEMMA QuietReplica ==
    ASSUME CatchupInvariant, NEW r \in Replicas,
           CatchupStarts(r) \/ CatchupTooOld(r) \/ CatchupSends(r) \/ SetCaughtUp(r)
           \/ DrainBacklog(r) \/ ReplicaBegins(r) \/ ReplicaCommits(r)
           \/ ReplicaRollsBack(r) \/ ReplicaRestores(r)
    PROVE  Quiet
<1>1. UNCHANGED <<queue, tx, lastWatermark, catchupQueue, running, phase, next, inTransaction>>
  BY DEF CatchupStarts, CatchupTooOld, CatchupSends, SetCaughtUp, DrainBacklog, ReplicaBegins,
         ReplicaCommits, ReplicaRollsBack, ReplicaRestores, dbVars, loopVars, storerVars
<1>2. sub[r].state # "waiting"
  <2>1. sub[r].state = "waiting" => sub[r].downstream = << >>
    BY DEF CatchupInvariant, Settled
  <2> QED
    BY <2>1 DEF CatchupStarts, CatchupTooOld, CatchupSends, SetCaughtUp, DrainBacklog,
                ReplicaBegins, ReplicaCommits, ReplicaRollsBack, ReplicaRestores, NextMessage
<1>3. \A q \in Replicas : q # r => sub'[q] = sub[q]
  <2>1. sub \in [Replicas -> Subscriber]
    BY DEF CatchupInvariant, StorerInvariant, TypeOK
  <2>2. \E y : sub' = [sub EXCEPT ![r] = y]
    BY <2>1 DEF CatchupStarts, CatchupTooOld, CatchupSends, SetCaughtUp, DrainBacklog,
                ReplicaBegins, ReplicaCommits, ReplicaRollsBack, ReplicaRestores
  <2> QED
    BY <2>1, <2>2
<1> QED
  BY <1>1, <1>2, <1>3 DEF Quiet

LEMMA QuietRest ==
    ASSUME FlowControlDone \/ StartPurge \/ FinishPurge \/ BackUp \/ UNCHANGED vars
    PROVE  Quiet
BY DEF FlowControlDone, StartPurge, FinishPurge, BackUp, Quiet, vars, dbVars, loopVars, storerVars

\* The Storer stops or fails: its queue is dropped, and those in it with it.
Dropped ==
    /\ running /\ ~running' /\ queue' = << >> /\ tx' = 0 /\ catchupQueue' = {}
    /\ UNCHANGED <<next, inTransaction, replicaVars, backedUp>>
    /\ phase = "stopping" => phase' = "stopping"

LEMMA DropsQueue ==
    ASSUME StoreAssertFails \/ StoreStop \/ StorerError \/ StorerErrorAfterCommit
    PROVE  Dropped
<1>1. CASE StoreStop
  BY <1>1 DEF StoreStop, Dequeue, Dropped, loopVars
<1>2. CASE StoreAssertFails \/ StorerError \/ StorerErrorAfterCommit
  BY <1>2 DEF StoreAssertFails, StorerError, StorerErrorAfterCommit, StorerFails, DequeueChange,
              Dequeue, Dropped
<1> QED
  BY <1>1, <1>2

LEMMA ServedNone ==
    ASSUME StorerInvariant', \A i \in 1 .. Len(queue') : queue'[i].type # "subscriber",
           catchupQueue' = {}
    PROVE  Serving'
BY DEF Serving, Served, IsSubscriber

\* What is stored and forwarded in a turn of the run loop.
LEMMA ForwardedOf ==
    ASSUME TypeOK, NEW tag \in {"begin", "commit", "rollback"}, NEW w \in Watermark,
           StoreAndForward([tag |-> tag, watermark |-> w])
    PROVE  \E m \in Message, e \in Entry :
              /\ m = [tag |-> tag, watermark |-> w] /\ e.type = "change"
              /\ e = [type |-> "change", tag |-> m.tag, watermark |-> m.watermark]
              /\ queue' = Append(queue, e) /\ sub' = Forward(m)
<1>1. PICK m \in Message : m = [tag |-> tag, watermark |-> w]
  BY EntryTypes
<1>2. PICK e \in Entry : e = [type |-> "change", tag |-> tag, watermark |-> w]
  BY EntryTypes
<1>3. e.type = "change" /\ e = [type |-> "change", tag |-> m.tag, watermark |-> m.watermark]
  BY <1>1, <1>2
<1>4. queue' = Append(queue, e) /\ sub' = Forward(m)
  BY <1>1, <1>2 DEF StoreAndForward
<1> QED
  BY <1>1, <1>3, <1>4

\* A change is forwarded, if w is the watermark of the next transaction.
LEMMA ReceiveOf ==
    ASSUME StorerInvariant, ReceiveBegin \/ ReceiveCommit \/ ReceiveRollback
    PROVE  \E m \in Message, e \in Entry :
              /\ e.type = "change"
              /\ e = [type |-> "change", tag |-> m.tag, watermark |-> m.watermark]
              /\ queue' = Append(queue, e) /\ sub' = Forward(m)
              /\ Continues(m, Front, Front')
              /\ UNCHANGED <<tx, lastWatermark, catchupQueue, running, replicaVars, backedUp>>
              /\ phase \in {"streaming", "cancelled"}
              /\ m.tag # "begin" => phase' \in {phase, "ended"} /\ ~inTransaction'
              /\ phase = "streaming" => phase' = "streaming"
<1>1. TypeOK /\ next \in Nat
  BY WatermarkType DEF StorerInvariant, TypeOK
<1>2. CASE ReceiveBegin
  <2>1. next \in Watermark
    BY <1>1, <1>2, WatermarkType DEF ReceiveBegin, TypeOK
  <2>2. PICK m \in Message, e \in Entry :
              /\ m = [tag |-> "begin", watermark |-> next] /\ e.type = "change"
              /\ e = [type |-> "change", tag |-> m.tag, watermark |-> m.watermark]
              /\ queue' = Append(queue, e) /\ sub' = Forward(m)
    BY <1>1, <1>2, <2>1, ForwardedOf DEF ReceiveBegin
  <2>3. Continues(m, Front, Front')
    BY <1>2, <2>2, FrontBegin
  <2>4. /\ UNCHANGED <<tx, lastWatermark, catchupQueue, running, replicaVars, backedUp>>
        /\ phase \in {"streaming", "cancelled"} /\ m.tag = "begin"
        /\ phase = "streaming" => phase' = "streaming"
    BY <1>2, <2>2 DEF ReceiveBegin, Receiving, dbVars
  <2> QED
    BY <2>2, <2>3, <2>4
<1>3. CASE ReceiveCommit
  <2>1. watermark \in Watermark /\ watermark = next
    BY <1>1, <1>3, FrontCommit DEF TypeOK
  <2>2. PICK m \in Message, e \in Entry :
              /\ m = [tag |-> "commit", watermark |-> watermark] /\ e.type = "change"
              /\ e = [type |-> "change", tag |-> m.tag, watermark |-> m.watermark]
              /\ queue' = Append(queue, e) /\ sub' = Forward(m)
    BY <1>1, <1>3, <2>1, ForwardedOf DEF ReceiveCommit
  <2>3. Continues(m, Front, Front')
    BY <1>3, <2>1, <2>2, FrontCommit
  <2>4. /\ UNCHANGED <<tx, lastWatermark, catchupQueue, running, replicaVars, backedUp>>
        /\ phase \in {"streaming", "cancelled"} /\ phase' \in {phase, "ended"}
        /\ ~inTransaction'
        /\ phase = "streaming" => phase' = "streaming"
    BY <1>3, <2>2 DEF ReceiveCommit, Receiving, StoreAndForward, dbVars
  <2> QED
    BY <2>2, <2>3, <2>4
<1>4. CASE ReceiveRollback
  <2>1. watermark \in Watermark /\ watermark = next
    BY <1>1, <1>4, FrontRollback DEF TypeOK
  <2>2. PICK m \in Message, e \in Entry :
              /\ m = [tag |-> "rollback", watermark |-> watermark] /\ e.type = "change"
              /\ e = [type |-> "change", tag |-> m.tag, watermark |-> m.watermark]
              /\ queue' = Append(queue, e) /\ sub' = Forward(m)
    BY <1>1, <1>4, <2>1, ForwardedOf DEF ReceiveRollback
  <2>3. Continues(m, Front, Front')
    BY <1>4, <2>1, <2>2, FrontRollback
  <2>4. /\ UNCHANGED <<tx, lastWatermark, catchupQueue, running, replicaVars, backedUp>>
        /\ phase = "streaming" /\ phase' = phase /\ ~inTransaction'
    BY <1>4, <2>2 DEF ReceiveRollback, StoreAndForward, dbVars
  <2> QED
    BY <2>2, <2>3, <2>4
<1> QED
  BY <1>2, <1>3, <1>4

LEMMA FrontQuiet ==
    ASSUME Quiet
    PROVE  Front' = Front
BY DEF Quiet, Front, Aligned, Upcoming

\* Serving is kept.
LEMMA ServingKept ==
    ASSUME CatchupInvariant, Aborts, Serving, StorerInvariant', Next
    PROVE  Serving'
<1>1. StorerInvariant /\ Waits /\ Loop
  BY DEF CatchupInvariant, StorerInvariant
<1>2. ASSUME Quiet
      PROVE  Serving'
  BY <1>1, <1>2, FrontQuiet, ServedSame DEF Quiet
<1>3. CASE Connect
  BY <1>1, <1>3, FrontConnect, ServedSame DEF Connect, Loop, dbVars
<1>4. CASE ReceiveBegin \/ ReceiveCommit \/ ReceiveRollback
  <2>1. PICK m \in Message, e \in Entry :
              /\ e.type = "change"
              /\ e = [type |-> "change", tag |-> m.tag, watermark |-> m.watermark]
              /\ queue' = Append(queue, e) /\ sub' = Forward(m)
              /\ Continues(m, Front, Front')
              /\ UNCHANGED <<tx, lastWatermark, catchupQueue, running, replicaVars, backedUp>>
              /\ phase \in {"streaming", "cancelled"}
              /\ m.tag # "begin" => phase' \in {phase, "ended"} /\ ~inTransaction'
              /\ phase = "streaming" => phase' = "streaming"
    BY <1>1, <1>4, ReceiveOf
  <2>2. CASE phase = "streaming"
    BY <1>1, <2>1, <2>2, ServedForward
  <2>3. CASE phase = "cancelled"
    <3>1. queue = << >> /\ catchupQueue' = {} /\ queue \in Seq(Entry) /\ Len(queue) = 0
      BY <1>1, <2>1, <2>3, EmptySeq DEF Loop, StorerInvariant, TypeOK
    <3>2. \A i \in 1 .. Len(queue') : queue'[i].type # "subscriber"
      <4>1. Len(queue') = 1 /\ queue'[1] = e
        BY <2>1, <3>1, AppendOf
      <4> QED
        BY <2>1, <4>1
    <3> QED
      BY <3>1, <3>2, ServedNone
  <2> QED
    BY <2>1, <2>2, <2>3
<1>5. CASE Disconnect \/ Interrupt
  <2>1. EndStream /\ phase # "stopping"
    BY <1>5 DEF Disconnect, Interrupt
  <2> QED
    BY <1>1, <2>1, ServedEndStream
<1>6. CASE StoreAssertFails \/ StoreStop \/ StorerError \/ StorerErrorAfterCommit
  <2>1. Dropped
    BY <1>6, DropsQueue
  <2> QED
    BY <2>1, ServedEmpty DEF Dropped
<1>7. CASE Crash
  BY <1>7, ServedEmpty DEF Crash
<1>8. ASSUME NEW r \in Replicas,
             \/ CatchupStarts(r) \/ CatchupTooOld(r) \/ CatchupSends(r) \/ SetCaughtUp(r)
             \/ DrainBacklog(r) \/ Subscribe(r) \/ ReplicaBegins(r) \/ ReplicaCommits(r)
             \/ ReplicaRollsBack(r) \/ ReplicaRestores(r) \/ StreamEnds(r)
      PROVE  Serving'
  <2>1. CASE Subscribe(r)
    BY <1>1, <2>1, ServedSubscribe
  <2>2. CASE StreamEnds(r)
    BY <1>1, <2>2, ServedForget
  <2> QED
    BY <1>2, <1>8, <2>1, <2>2, QuietReplica
<1> QED
  BY <1>1, <1>2, <1>3, <1>4, <1>5, <1>6, <1>7, <1>8, QuietRest, ServedStorer DEF Next

-----------------------------------------------------------------------------
(* What is in the queue when the stream has ended. *)

\* The new queue is part of the old one, in the same order.
Part(g) ==
    /\ \A i \in 1 .. Len(queue') : g[i] \in 1 .. Len(queue) /\ queue'[i] = queue[g[i]]
    /\ \A i, j \in 1 .. Len(queue') : i < j => g[i] < g[j]

LEMMA PartTail ==
    ASSUME queue \in Seq(Entry), queue # << >>, queue' = Tail(queue)
    PROVE  \E g : Part(g) /\ \A i \in 1 .. Len(queue') : g[i] = i + 1
<1>1. /\ Len(queue) \in Nat \ {0} /\ Len(queue') = Len(queue) - 1
      /\ \A i \in 1 .. Len(queue) - 1 : queue'[i] = queue[i + 1]
  BY TailOf
<1>2. PICK g : g = [i \in 1 .. Len(queue') |-> i + 1]
  OBVIOUS
<1>3. \A i \in 1 .. Len(queue') : g[i] = i + 1 /\ g[i] \in 1 .. Len(queue) /\ queue'[i] = queue[g[i]]
  BY <1>1, <1>2
<1>4. \A i, j \in 1 .. Len(queue') : i < j => g[i] < g[j]
  BY <1>1, <1>2
<1> QED
  BY <1>3, <1>4 DEF Part

LEMMA PartForget ==
    ASSUME queue \in Seq(Entry), NEW r \in Replicas, queue' = Forget(queue, r)
    PROVE  \E g : Part(g)
<1>1. CASE queue' = queue
  <2>1. PICK g : g = [i \in 1 .. Len(queue') |-> i]
    OBVIOUS
  <2>2. Part(g)
    BY <1>1, <2>1 DEF Part
  <2> QED
    BY <2>2
<1>2. ASSUME NEW k \in 1 .. Len(queue), Without(queue, k, queue')
      PROVE  \E g : Part(g)
  <2>1. PICK g : g = [i \in 1 .. Len(queue') |-> IF i < k THEN i ELSE i + 1]
    OBVIOUS
  <2>2. /\ Len(queue) \in Nat /\ Len(queue') = Len(queue) - 1
        /\ \A i \in 1 .. Len(queue) - 1 : queue'[i] = IF i < k THEN queue[i] ELSE queue[i + 1]
    BY <1>2, LenProperties DEF Without
  <2>3. \A i \in 1 .. Len(queue') : g[i] \in 1 .. Len(queue) /\ queue'[i] = queue[g[i]]
    BY <1>2, <2>1, <2>2
  <2>4. \A i, j \in 1 .. Len(queue') : i < j => g[i] < g[j]
    BY <1>2, <2>1, <2>2
  <2>5. Part(g)
    BY <2>3, <2>4 DEF Part
  <2> QED
    BY <2>5
<1> QED
  BY <1>1, <1>2, ForgetOf

LEMMA LateKept ==
    ASSUME CatchupInvariant, Late, Next
    PROVE  Late'
<1>1. StorerInvariant /\ Loop /\ queue \in Seq(Entry)
  BY DEF CatchupInvariant, StorerInvariant, TypeOK
<1>2. ASSUME Quiet
      PROVE  Late'
  BY <1>2 DEF Quiet, Late
<1>3. CASE Connect \/ Disconnect \/ Interrupt
  BY <1>3 DEF Connect, Disconnect, Interrupt, EndStream, Late
<1>4. CASE ReceiveBegin \/ ReceiveCommit \/ ReceiveRollback
  <2>1. PICK m \in Message, e \in Entry :
              /\ e.type = "change" /\ queue' = Append(queue, e)
              /\ phase \in {"streaming", "cancelled"}
              /\ phase = "streaming" => phase' = "streaming"
    BY <1>1, <1>4, ReceiveOf
  <2>2. CASE phase = "cancelled"
    <3>1. queue = << >> /\ Len(queue) = 0
      BY <1>1, <2>2, EmptySeq DEF Loop
    <3>2. Len(queue') = 1 /\ queue'[1] = e
      BY <1>1, <2>1, <3>1, AppendOf
    <3> QED
      BY <2>1, <3>2 DEF Late
  <2> QED
    BY <2>1, <2>2 DEF Late
<1>5. CASE StoreAssertFails \/ StoreStop \/ StorerError \/ StorerErrorAfterCommit \/ Crash
  <2>1. queue' = << >>
    BY <1>5, DropsQueue DEF Dropped, Crash
  <2> QED
    BY <2>1, EmptySeq DEF Late
<1>6. CASE StoreBegin \/ StoreCommit \/ StoreRollback \/ StoreSubscriber \/ StoreAbort
  <2>1. running /\ phase' = phase
    BY <1>1, <1>6, StoreNext DEF StorerInvariant, loopVars
  <2> QED
    BY <1>1, <2>1 DEF Late, Loop
<1>7. ASSUME NEW r \in Replicas,
             \/ CatchupStarts(r) \/ CatchupTooOld(r) \/ CatchupSends(r) \/ SetCaughtUp(r)
             \/ DrainBacklog(r) \/ Subscribe(r) \/ ReplicaBegins(r) \/ ReplicaCommits(r)
             \/ ReplicaRollsBack(r) \/ ReplicaRestores(r) \/ StreamEnds(r)
      PROVE  Late'
  <2>1. CASE Subscribe(r)
    BY <2>1 DEF Subscribe, loopVars, Late
  <2>2. CASE StreamEnds(r)
    <3>1. PICK g : Part(g)
      BY <1>1, <2>2, PartForget DEF StreamEnds
    <3>2. phase' = phase
      BY <2>2 DEF StreamEnds, loopVars
    <3> QED
      BY <3>1, <3>2 DEF Late, Part
  <2> QED
    BY <1>2, <1>7, <2>1, <2>2, QuietReplica
<1> QED
  BY <1>2, <1>3, <1>4, <1>5, <1>6, <1>7, QuietRest DEF Next

LEMMA AbortsPart ==
    ASSUME queue \in Seq(Entry), queue' \in Seq(Entry), Aborts, NEW g, Part(g),
           UNCHANGED <<phase, running>>,
           catchupQueue' \subseteq catchupQueue,
           catchupQueue' # {} /\ tx' = 0 =>
              \/ tx = 0
              \/ phase = "stopping" /\ \A i \in 1 .. Len(queue') : queue'[i].type # "change"
    PROVE  Aborts'
<1>1. Len(queue) \in Nat /\ Len(queue') \in Nat
  BY LenProperties
<1>2. ASSUME NEW i \in 1 .. Len(queue'), queue'[i] = Abort,
             \/ phase # "stopping"
             \/ ~running
             \/ \E j \in i + 1 .. Len(queue') : queue'[j].type = "change"
      PROVE  catchupQueue' = {} /\ \A p \in 1 .. i : queue'[p].type # "subscriber"
  <2>1. g[i] \in 1 .. Len(queue) /\ queue[g[i]] = Abort
    BY <1>2 DEF Part
  <2>2. ASSUME NEW j \in i + 1 .. Len(queue'), queue'[j].type = "change"
        PROVE  \E k \in g[i] + 1 .. Len(queue) : queue[k].type = "change"
    <3>1. j \in 1 .. Len(queue') /\ i < j
      BY <1>1
    <3>2. g[j] \in 1 .. Len(queue) /\ queue[g[j]].type = "change" /\ g[i] < g[j]
      BY <2>2, <3>1 DEF Part
    <3>3. g[j] \in g[i] + 1 .. Len(queue)
      BY <1>1, <2>1, <3>2
    <3> QED
      BY <3>2, <3>3
  <2>3. catchupQueue = {} /\ \A p \in 1 .. g[i] : queue[p].type # "subscriber"
    BY <1>2, <2>1, <2>2 DEF Aborts
  <2>4. ASSUME NEW p \in 1 .. i
        PROVE  queue'[p].type # "subscriber"
    <3>1. p \in 1 .. Len(queue') /\ (p < i \/ p = i)
      BY <1>1
    <3>2. g[p] \in 1 .. Len(queue) /\ queue'[p] = queue[g[p]] /\ (g[p] < g[i] \/ g[p] = g[i])
      BY <3>1 DEF Part
    <3>3. g[p] \in 1 .. g[i]
      BY <1>1, <2>1, <3>2
    <3> QED
      BY <2>3, <3>2, <3>3
  <2> QED
    BY <2>3, <2>4
<1>3. ASSUME catchupQueue' # {}, tx' = 0
      PROVE  phase = "stopping" /\ \A i \in 1 .. Len(queue') : queue'[i].type # "change"
  <2>1. CASE tx = 0
    <3>1. catchupQueue # {}
      BY <1>3
    <3> QED
      BY <2>1, <3>1 DEF Aborts, Part
  <2> QED
    BY <1>3, <2>1
<1> QED
  BY <1>2, <1>3 DEF Aborts

\* While the stream goes on, nobody waits that an abort could concern.
LEMMA AbortsEnd ==
    ASSUME CatchupInvariant, Late, Aborts, EndStream, phase # "stopping"
    PROVE  Aborts'
<1>1. /\ Loop /\ queue \in Seq(Entry) /\ Len(queue) \in Nat
      /\ phase \in {"streaming", "cancelled", "ended"}
  BY LenProperties DEF CatchupInvariant, StorerInvariant, TypeOK
<1>2. /\ Len(queue') \in Nat /\ Len(queue) <= Len(queue')
      /\ \A i \in 1 .. Len(queue) : queue'[i] = queue[i]
      /\ \A i \in 1 .. Len(queue') : i \in 1 .. Len(queue) \/ queue'[i] \in {Abort, Stop}
  BY <1>1, EndStreamGrows
<1>3. phase' = "stopping" /\ UNCHANGED <<running, tx, catchupQueue>>
  BY DEF EndStream
<1>4. Abort.type = "abort" /\ Stop.type = "stop"
  BY DEF Abort, Stop
<1>5. ASSUME NEW i \in 1 .. Len(queue'), queue'[i] = Abort,
             ~running \/ \E j \in i + 1 .. Len(queue') : queue'[j].type = "change"
      PROVE  catchupQueue = {} /\ \A p \in 1 .. i : queue'[p].type # "subscriber"
  <2>1. CASE i \in 1 .. Len(queue)
    <3>1. queue[i] = Abort
      BY <1>2, <1>5, <2>1
    <3>2. catchupQueue = {} /\ \A p \in 1 .. i : queue[p].type # "subscriber"
      BY <2>1, <3>1 DEF Aborts
    <3>3. \A p \in 1 .. i : p \in 1 .. Len(queue)
      BY <1>1, <2>1
    <3> QED
      BY <1>2, <3>2, <3>3
  <2>2. CASE i \notin 1 .. Len(queue)
    <3>1. \A j \in i + 1 .. Len(queue') : j \in 1 .. Len(queue') /\ j \notin 1 .. Len(queue)
      BY <1>1, <1>2, <2>2
    <3>2. \A j \in i + 1 .. Len(queue') : queue'[j] \in {Abort, Stop}
      BY <1>2, <3>1
    <3>3. ~running
      BY <1>4, <1>5, <3>2
    <3>4. catchupQueue = {} /\ \A p \in 1 .. Len(queue) : queue[p].type = "change"
      BY <1>1, <3>3 DEF Loop, Late
    <3>5. \A p \in 1 .. i : p \in 1 .. Len(queue')
      BY <1>2
    <3> QED
      BY <1>2, <1>4, <3>4, <3>5
  <2> QED
    BY <2>1, <2>2
<1>6. catchupQueue # {} => tx # 0
  BY <1>1 DEF Aborts
<1> QED
  BY <1>3, <1>5, <1>6 DEF Aborts

LEMMA AbortsAppend ==
    ASSUME queue \in Seq(Entry), Aborts, NEW e \in Entry, e # Abort, queue' = Append(queue, e),
           UNCHANGED <<running, tx, catchupQueue>>,
           \/ phase # "stopping"
           \/ phase' = phase /\ e.type # "change"
    PROVE  Aborts'
<1>1. /\ Len(queue) \in Nat /\ Len(queue') = Len(queue) + 1 /\ queue'[Len(queue) + 1] = e
      /\ \A i \in 1 .. Len(queue) : queue'[i] = queue[i]
  BY AppendOf
<1>2. ASSUME NEW i \in 1 .. Len(queue'), queue'[i] = Abort,
             \/ phase' # "stopping"
             \/ ~running
             \/ \E j \in i + 1 .. Len(queue') : queue'[j].type = "change"
      PROVE  catchupQueue = {} /\ \A p \in 1 .. i : queue'[p].type # "subscriber"
  <2>1. i \in 1 .. Len(queue) /\ queue[i] = Abort /\ \A p \in 1 .. i : p \in 1 .. Len(queue)
    BY <1>1, <1>2
  <2>2. \/ phase # "stopping"
        \/ ~running
        \/ \E j \in i + 1 .. Len(queue) : queue[j].type = "change"
    <3>1. CASE phase' = phase /\ e.type # "change"
      <4>1. \A j \in i + 1 .. Len(queue') : queue'[j].type = "change" =>
               j \in i + 1 .. Len(queue) /\ queue[j].type = "change"
        <5>1. \A j \in i + 1 .. Len(queue') :
                 j = Len(queue) + 1 \/ (j \in i + 1 .. Len(queue) /\ j \in 1 .. Len(queue))
          BY <1>1, <2>1
        <5> QED
          BY <1>1, <3>1, <5>1
      <4> QED
        BY <1>2, <3>1, <4>1
    <3> QED
      BY <3>1
  <2>3. catchupQueue = {} /\ \A p \in 1 .. i : queue[p].type # "subscriber"
    BY <2>1, <2>2 DEF Aborts
  <2> QED
    BY <1>1, <2>1, <2>3
<1>3. ASSUME catchupQueue # {}, tx = 0
      PROVE  phase' = "stopping" /\ \A i \in 1 .. Len(queue') : queue'[i].type # "change"
  <2>1. phase = "stopping" /\ \A i \in 1 .. Len(queue) : queue[i].type # "change"
    BY <1>3 DEF Aborts
  <2>2. \A i \in 1 .. Len(queue') : i \in 1 .. Len(queue) \/ i = Len(queue) + 1
    BY <1>1
  <2> QED
    BY <1>1, <2>1, <2>2
<1> QED
  BY <1>2, <1>3 DEF Aborts

LEMMA AbortsStorer ==
    ASSUME CatchupInvariant, Aborts, StorerInvariant',
           StoreBegin \/ StoreCommit \/ StoreRollback \/ StoreSubscriber \/ StoreAbort
    PROVE  Aborts'
<1>1. StorerInvariant /\ Waits /\ TypeOK /\ Loop /\ \E l : Ledger(l)
  BY DEF CatchupInvariant, StorerInvariant
<1>2. /\ queue \in Seq(Entry) /\ queue' \in Seq(Entry) /\ queue # << >> /\ queue' = Tail(queue)
      /\ UNCHANGED <<phase, running>>
  BY <1>1, StoreNext DEF StorerInvariant, TypeOK, loopVars
<1>3. PICK g : Part(g) /\ \A i \in 1 .. Len(queue') : g[i] = i + 1
  BY <1>2, PartTail
<1>4. /\ Len(queue) \in Nat \ {0} /\ Len(queue') = Len(queue) - 1 /\ Head(queue) = queue[1]
      /\ \A i \in 1 .. Len(queue) - 1 : queue'[i] = queue[i + 1]
  BY <1>2, TailOf
<1>5. CASE StoreBegin \/ StoreCommit \/ StoreRollback \/ (StoreSubscriber /\ tx = 0)
  <2>1. catchupQueue' \subseteq catchupQueue /\ (catchupQueue' # {} /\ tx' = 0 => tx = 0)
    BY <1>5 DEF StoreBegin, StoreCommit, StoreRollback, StoreSubscriber
  <2> QED
    BY <1>1, <1>2, <1>3, <2>1, AbortsPart
<1>6. CASE StoreAbort
  <2>1. queue[1] = Abort /\ catchupQueue' = catchupQueue
    <3>1. queue[1] \in Entry /\ queue[1].type = "abort"
      BY <1>2, <1>4, <1>6, TailOf DEF StoreAbort, Dequeue
    <3> QED
      BY <1>6, <3>1 DEF StoreAbort, Entry, Stop
  <2>2. ASSUME catchupQueue # {}
        PROVE  phase = "stopping" /\ \A i \in 1 .. Len(queue') : queue'[i].type # "change"
    <3>1. 1 \in 1 .. Len(queue) /\ 1 + 1 = 2
      BY <1>4
    <3>2. phase = "stopping" /\ \A i \in 2 .. Len(queue) : queue[i].type # "change"
      BY <2>1, <2>2, <3>1 DEF Aborts
    <3>3. \A i \in 1 .. Len(queue') : i + 1 \in 2 .. Len(queue) /\ queue'[i] = queue[i + 1]
      BY <1>4
    <3> QED
      BY <3>2, <3>3
  <2> QED
    BY <1>1, <1>2, <1>3, <2>1, <2>2, AbortsPart
<1>7. CASE StoreSubscriber /\ tx # 0
  <2>1. tx' # 0 /\ IsSubscriber(queue[1], Head(queue).replica)
    BY <1>1, <1>7, HeadSubscriber DEF StoreSubscriber
  <2>2. ASSUME NEW i \in 1 .. Len(queue'), queue'[i] = Abort,
               \/ phase' # "stopping"
               \/ ~running'
               \/ \E j \in i + 1 .. Len(queue') : queue'[j].type = "change"
        PROVE  FALSE
    <3>1. /\ i + 1 \in 1 .. Len(queue) /\ queue[i + 1] = Abort /\ 1 \in 1 .. i + 1
          /\ \A j \in i + 1 .. Len(queue') : /\ j + 1 \in i + 1 + 1 .. Len(queue)
                                             /\ queue[j + 1] = queue'[j]
      BY <1>4, <2>2
    <3>2. \/ phase # "stopping"
          \/ ~running
          \/ \E j \in i + 1 + 1 .. Len(queue) : queue[j].type = "change"
      BY <1>2, <2>2, <3>1
    <3>3. \A p \in 1 .. i + 1 : queue[p].type # "subscriber"
      BY <3>1, <3>2 DEF Aborts
    <3> QED
      BY <2>1, <3>1, <3>3 DEF IsSubscriber
  <2> QED
    BY <2>1, <2>2 DEF Aborts
<1> QED
  BY <1>5, <1>6, <1>7

LEMMA AbortsKept ==
    ASSUME CatchupInvariant, Late, Aborts, StorerInvariant', Next
    PROVE  Aborts'
<1>1. StorerInvariant /\ Loop /\ queue \in Seq(Entry) /\ queue' \in Seq(Entry)
  BY DEF CatchupInvariant, StorerInvariant, TypeOK
<1>2. ASSUME Quiet
      PROVE  Aborts'
  BY <1>2 DEF Quiet, Aborts
<1>3. CASE Connect
  <2>1. queue' = queue /\ catchupQueue' = {} /\ ~running
    BY <1>3 DEF Connect
  <2> QED
    BY <2>1 DEF Aborts
<1>4. CASE Disconnect \/ Interrupt
  BY <1>4, AbortsEnd DEF Disconnect, Interrupt
<1>5. CASE ReceiveBegin \/ ReceiveCommit \/ ReceiveRollback
  <2>1. PICK m \in Message, e \in Entry :
              /\ e.type = "change" /\ queue' = Append(queue, e)
              /\ UNCHANGED <<tx, lastWatermark, catchupQueue, running, replicaVars, backedUp>>
              /\ phase \in {"streaming", "cancelled"}
    BY <1>1, <1>5, ReceiveOf
  <2>2. e # Abort /\ phase # "stopping"
    BY <2>1 DEF Abort
  <2> QED
    BY <1>1, <2>1, <2>2, AbortsAppend
<1>6. CASE StoreAssertFails \/ StoreStop \/ StorerError \/ StorerErrorAfterCommit \/ Crash
  <2>1. queue' = << >> /\ catchupQueue' = {}
    BY <1>6, DropsQueue DEF Dropped, Crash
  <2> QED
    BY <2>1, EmptySeq DEF Aborts
<1>7. ASSUME NEW r \in Replicas,
             \/ CatchupStarts(r) \/ CatchupTooOld(r) \/ CatchupSends(r) \/ SetCaughtUp(r)
             \/ DrainBacklog(r) \/ Subscribe(r) \/ ReplicaBegins(r) \/ ReplicaCommits(r)
             \/ ReplicaRollsBack(r) \/ ReplicaRestores(r) \/ StreamEnds(r)
      PROVE  Aborts'
  <2>1. CASE Subscribe(r)
    <3>1. PICK e \in Entry : e = [type |-> "subscriber", replica |-> r]
      <4>1. [type |-> "subscriber", replica |-> r] \in Entry
        BY DEF Entry
      <4> QED
        BY <4>1
    <3>2. e # Abort /\ e.type # "change" /\ queue' = Append(queue, e) /\ phase' = phase
          /\ UNCHANGED <<running, tx, catchupQueue>>
      BY <2>1, <3>1 DEF Subscribe, loopVars, Abort
    <3> QED
      BY <1>1, <3>2, AbortsAppend
  <2>2. CASE StreamEnds(r)
    <3>1. PICK g : Part(g)
      BY <1>1, <2>2, PartForget DEF StreamEnds
    <3>2. UNCHANGED <<phase, running, tx>> /\ catchupQueue' \subseteq catchupQueue
      BY <2>2 DEF StreamEnds, loopVars
    <3> QED
      BY <1>1, <3>1, <3>2, AbortsPart
  <2> QED
    BY <1>2, <1>7, <2>1, <2>2, QuietReplica
<1> QED
  BY <1>2, <1>3, <1>4, <1>5, <1>6, <1>7, QuietRest, AbortsStorer DEF Next

-----------------------------------------------------------------------------
(* What is sent to the replicas. *)

LEMMA PlaceOf ==
    ASSUME TypeOK, NEW r \in Replicas
    PROVE  /\ Place(r) \in Position /\ Place(r).wm = replicaWm[r] /\ Place(r).tx = replicaTx[r]
           /\ sub[r] \in Subscriber
<1>1. replicaWm[r] \in Nat /\ replicaTx[r] \in Nat /\ sub[r] \in Subscriber
  BY WatermarkType DEF TypeOK
<1> QED
  BY <1>1 DEF Place, Position

LEMMA SoundsSame ==
    ASSUME Sounds, UNCHANGED <<replicaVars, sub>>, Front \subseteq Front'
    PROVE  Sounds'
<1> SUFFICES ASSUME NEW r \in Replicas
             PROVE  Sound(sub'[r], Place(r)', Front')
  BY DEF Sounds
<1>1. Place(r)' = Place(r) /\ sub'[r] = sub[r]
  BY DEF Place, replicaVars
<1>2. Sound(sub[r], Place(r), Front)
  BY DEF Sounds
<1> QED
  BY <1>1, <1>2, SoundMore

\* All subscribers but that of r stay as they are.
LEMMA SoundsOne ==
    ASSUME TypeOK, Sounds, NEW r \in Replicas, NEW y, sub' = [sub EXCEPT ![r] = y],
           \A q \in Replicas : q # r => Place(q)' = Place(q),
           Front' = Front, Sound(y, Place(r)', Front)
    PROVE  Sounds'
<1> SUFFICES ASSUME NEW q \in Replicas
             PROVE  Sound(sub'[q], Place(q)', Front')
  BY DEF Sounds
<1>1. sub'[q] = IF q = r THEN y ELSE sub[q]
  BY DEF TypeOK
<1>2. Sound(sub[q], Place(q), Front)
  BY DEF Sounds
<1> QED
  BY <1>1, <1>2

LEMMA SoundsReceive ==
    ASSUME CatchupInvariant, Sounds, NEW m \in Message, sub' = Forward(m),
           Continues(m, Front, Front'), UNCHANGED replicaVars
    PROVE  Sounds'
<1> SUFFICES ASSUME NEW r \in Replicas
             PROVE  Sound(sub'[r], Place(r)', Front')
  BY DEF Sounds
<1>1. TypeOK /\ (sub[r].state = "closed" => sub[r].forwarder = "out")
  BY DEF CatchupInvariant, StorerInvariant, Settled
<1>2. Place(r)' = Place(r)
  BY DEF Place, replicaVars
<1>3. sub'[r] = ForwardTo(sub[r], m)
  BY DEF Forward, ForwardTo
<1>4. Sound(sub[r], Place(r), Front) /\ Front \in SUBSET Position
  BY DEF Sounds, Front
<1> QED
  BY <1>1, <1>2, <1>3, <1>4, PlaceOf, SoundForward

LEMMA SoundsEndStream ==
    ASSUME CatchupInvariant, Sounds, EndStream, phase # "stopping"
    PROVE  Sounds'
<1>1. StorerInvariant /\ watermark \in Watermark /\ UNCHANGED replicaVars
  BY DEF CatchupInvariant, StorerInvariant, TypeOK, EndStream
<1>2. CASE watermark = 0
  <2>1. Front \subseteq Front' /\ sub' = sub
    BY <1>1, <1>2, FrontEndStream DEF EndStream
  <2> QED
    BY <1>1, <2>1, SoundsSame
<1>3. CASE watermark # 0
  <2>1. PICK m \in Message : m = [tag |-> "rollback", watermark |-> watermark]
    BY <1>1, EntryTypes
  <2>2. Continues(m, Front, Front') /\ sub' = Forward(m)
    BY <1>1, <1>3, <2>1, FrontEndStream DEF EndStream
  <2> QED
    BY <1>1, <2>2, SoundsReceive
<1> QED
  BY <1>2, <1>3

\* The Storer closes those in its queue and those that wait for a transaction.
LEMMA SoundsStops ==
    ASSUME CatchupInvariant, StorerInvariant', Sounds, Dropped,
           NEW L, sub' = [r \in Replicas |-> IF r \in L THEN Close(sub[r]) ELSE sub[r]]
    PROVE  Sounds'
<1>1. TypeOK /\ Front \subseteq Front'
  BY FrontStops DEF CatchupInvariant, StorerInvariant, Dropped
<1> SUFFICES ASSUME NEW r \in Replicas
             PROVE  Sound(sub'[r], Place(r)', Front')
  BY DEF Sounds
<1>2. Place(r)' = Place(r) /\ Place(r) \in Position /\ sub[r] \in Subscriber
  BY <1>1, PlaceOf DEF Dropped, Place, replicaVars
<1>3. Sound(sub[r], Place(r), Front) /\ Settled(sub[r], Place(r).wm)
  BY <1>1, PlaceOf DEF Sounds, CatchupInvariant
<1>4. Sound(Close(sub[r]), Place(r), Front)
  BY <1>2, <1>3, SoundClose
<1> QED
  BY <1>1, <1>2, <1>3, <1>4, SoundMore

\* Those in W are caught up from a snapshot.
LEMMA SoundsServes ==
    ASSUME CatchupInvariant, StorerInvariant', Sounds, Front' = Front, UNCHANGED replicaVars,
           NEW W,
           sub' = [r \in Replicas |->
                     IF r \in W THEN StartCatchup(sub[r], changeLog', lastWatermark') ELSE sub[r]],
           \A r \in W : sub[r].state = "waiting" /\ JoinsAt(sub[r], lastWatermark', Front)
    PROVE  Sounds'
<1>1. TypeOK /\ changeLog' \in SUBSET Watermark /\ lastWatermark' \in Watermark
      /\ lastWatermark' \in changeLog' /\ Contiguous(changeLog')
  BY DEF CatchupInvariant, StorerInvariant, TypeOK, LogIsContiguous, Contiguous
<1> SUFFICES ASSUME NEW r \in Replicas
             PROVE  Sound(sub'[r], Place(r)', Front')
  BY DEF Sounds
<1>2. Place(r)' = Place(r) /\ Place(r) \in Position /\ sub[r] \in Subscriber
  BY <1>1, PlaceOf DEF Place, replicaVars
<1>3. Sound(sub[r], Place(r), Front) /\ Settled(sub[r], Place(r).wm)
  BY <1>1, PlaceOf DEF Sounds, CatchupInvariant
<1>4. CASE r \in W
  <2>1. sub'[r] = StartCatchup(sub[r], changeLog', lastWatermark')
    BY <1>4
  <2>2. sub[r].state = "waiting" /\ JoinsAt(sub[r], lastWatermark', Front)
    BY <1>4
  <2>3. Sound(StartCatchup(sub[r], changeLog', lastWatermark'), Place(r), Front)
    BY <1>1, <1>2, <1>3, <2>2, SoundCatchup
  <2> QED
    BY <1>2, <2>1, <2>3
<1>5. CASE r \notin W
  BY <1>2, <1>3, <1>5
<1> QED
  BY <1>4, <1>5

\* The front does not move while the Storer runs.
LEMMA SoundsStorer ==
    ASSUME CatchupInvariant, StorerInvariant', Serving, Sounds,
           StoreBegin \/ StoreCommit \/ StoreRollback \/ StoreSubscriber \/ StoreAbort
    PROVE  Sounds'
<1>1. StorerInvariant /\ Waits /\ TypeOK /\ Loop
  BY DEF CatchupInvariant, StorerInvariant
<1>2. PICK l : Ledger(l) /\ Served(l)
  BY <1>1, LedgerOf
<1>3. /\ l[1] = [open |-> tx', done |-> lastWatermark', fate |-> "runs"]
      /\ queue # << >> /\ running /\ running' = running /\ UNCHANGED loopVars
  BY <1>1, <1>2, StoreNext
<1>4. Front' = Front
  BY <1>3 DEF Front, Aligned, Upcoming, loopVars
<1>5. UNCHANGED replicaVars
  BY DEF StoreBegin, StoreCommit, StoreRollback, StoreSubscriber, StoreAbort
<1>6. 1 \in 1 .. Len(queue) /\ queue[1] = Head(queue) /\ 1 .. 0 = {}
  BY <1>1, <1>3, TailOf DEF TypeOK
<1>7. CASE StoreBegin \/ StoreAbort
  BY <1>4, <1>5, <1>7, SoundsSame DEF StoreBegin, StoreAbort
<1>8. CASE StoreCommit \/ StoreRollback
  <2>1. tx # 0 /\ queue[1].type = "change" /\ queue[1].tag \in {"commit", "rollback"}
    BY <1>6, <1>8 DEF StoreCommit, StoreRollback, DequeueChange, Dequeue
  <2>2. sub' = [r \in Replicas |->
                  IF r \in catchupQueue THEN StartCatchup(sub[r], changeLog', lastWatermark')
                  ELSE sub[r]]
    BY <1>8 DEF StoreCommit, StoreRollback, dbVars
  <2>3. ASSUME NEW r \in catchupQueue
        PROVE  sub[r].state = "waiting" /\ JoinsAt(sub[r], lastWatermark', Front)
    <3>1. Awaits(l, queue, 0, sub[r], Front)
      BY <1>2, <2>1 DEF Served
    <3>2. l[1].done = lastWatermark'
      BY <1>3
    <3>3. JoinsAt(sub[r], l[1].done, Front)
      <4>1. 1 \in 0 + 1 .. Len(queue) /\ 0 + 1 .. 1 - 1 = {}
        BY <1>6
      <4> QED
        BY <2>1, <3>1, <4>1 DEF Awaits
    <3> QED
      BY <1>1, <3>2, <3>3 DEF Waits
  <2> QED
    BY <1>4, <1>5, <2>2, <2>3, SoundsServes
<1>9. CASE StoreSubscriber
  <2>1. PICK r \in Replicas :
           /\ Head(queue).replica = r /\ IsSubscriber(queue[1], r) /\ sub[r].state = "waiting"
    BY <1>1, <1>9, HeadSubscriber
  <2>2. CASE tx # 0
    BY <1>4, <1>5, <1>9, <2>2, SoundsSame DEF StoreSubscriber
  <2>3. CASE tx = 0
    <3>1. tx' = tx /\ UNCHANGED <<changeLog, lastWatermark>>
          /\ sub' = [sub EXCEPT ![r] = StartCatchup(@, changeLog, lastWatermark)]
      BY <1>9, <2>1, <2>3 DEF StoreSubscriber, dbVars
    <3>2. JoinsAt(sub[r], lastWatermark', Front)
      <4>1. l[1].open = 0 /\ l[1].done = lastWatermark' /\ l[1].fate = "runs"
        BY <1>3, <2>3, <3>1
      <4>2. Due(l, queue, 1, sub[r], Front)
        BY <1>2, <1>6, <2>1, <4>1 DEF Served
      <4> QED
        BY <4>1, <4>2 DEF Due
    <3>3. PICK W : W = {r}
      OBVIOUS
    <3>4. sub' = [q \in Replicas |->
                    IF q \in W THEN StartCatchup(sub[q], changeLog', lastWatermark') ELSE sub[q]]
      BY <1>1, <3>1, <3>3 DEF TypeOK
    <3>5. \A q \in W : sub[q].state = "waiting" /\ JoinsAt(sub[q], lastWatermark', Front)
      BY <2>1, <3>2, <3>3
    <3> QED
      BY <1>4, <1>5, <3>4, <3>5, SoundsServes
  <2> QED
    BY <2>2, <2>3
<1> QED
  BY <1>7, <1>8, <1>9

\* A catchup goes on.
LEMMA SoundsCatchup ==
    ASSUME CatchupInvariant, Sounds, Recent, Start # 0, NEW r \in Replicas,
           CatchupStarts(r) \/ CatchupTooOld(r) \/ CatchupSends(r) \/ SetCaughtUp(r)
           \/ DrainBacklog(r)
    PROVE  Sounds'
<1> DEFINE x == sub[r]
           p == Place(r)
<1>1. TypeOK /\ x \in Subscriber /\ p \in Position /\ p.wm = replicaWm[r]
  BY PlaceOf DEF CatchupInvariant, StorerInvariant
<1>2. Sound(x, p, Front) /\ Settled(x, p.wm)
  BY <1>1 DEF Sounds, CatchupInvariant
<1>3. UNCHANGED replicaVars /\ Quiet
  BY QuietReplica DEF CatchupStarts, CatchupTooOld, CatchupSends, SetCaughtUp, DrainBacklog
<1>4. Front' = Front /\ \A q \in Replicas : Place(q)' = Place(q)
  BY <1>3, FrontQuiet DEF Place, replicaVars
<1>5. ASSUME NEW y, sub' = [sub EXCEPT ![r] = y], Sound(y, p, Front)
      PROVE  Sounds'
  BY <1>1, <1>4, <1>5, SoundsOne
<1> HIDE DEF x, p
<1>6. CASE CatchupStarts(r)
  <2>1. PICK y : y = [x EXCEPT !.state = "sending", !.rows = x.rows \ {x.watermark}]
    OBVIOUS
  <2>2. sub' = [sub EXCEPT ![r] = y] /\ x.state = "catchup"
    BY <1>1, <1>6, <2>1 DEF CatchupStarts, TypeOK, x
  <2>3. x.watermark # 0
    <3>1. Start \in Nat /\ replicaWm[r] \in Nat /\ x.watermark \in Nat
      BY <1>1, WatermarkType DEF TypeOK, Subscriber
    <3>2. replicaWm[r] <= x.watermark
      BY <1>1, <1>2, <2>2 DEF Settled, Rising
    <3>3. Start <= replicaWm[r]
      BY DEF Recent
    <3> QED
      BY <3>1, <3>2, <3>3
  <2>4. x.rows = {} \/ x.watermark \in x.rows
    BY <1>6, <2>3 DEF CatchupStarts, WatermarkFound, x
  <2> QED
    BY <1>1, <1>2, <1>5, <2>1, <2>2, <2>4, SoundStarts
<1>7. CASE CatchupTooOld(r)
  <2>1. \/ sub' = [sub EXCEPT ![r] = Close(x)]
        \/ sub' = [sub EXCEPT ![r] = CloseWithError(x)]
    BY <1>7 DEF CatchupTooOld, x
  <2> QED
    BY <1>1, <1>2, <1>5, <2>1, SoundClose, SoundError
<1>8. CASE CatchupSends(r)
  <2>1. PICK w \in x.rows : /\ \A v \in x.rows : w <= v
                            /\ sub' = [sub EXCEPT ![r] = SendTransaction(x, w)]
    BY <1>8 DEF CatchupSends, x
  <2>2. x.state = "sending"
    BY <1>8 DEF CatchupSends, x
  <2> QED
    BY <1>1, <1>2, <1>5, <2>1, <2>2, SoundSends
<1>9. CASE SetCaughtUp(r)
  <2>1. PICK y : y = [x EXCEPT !.state = "draining"]
    OBVIOUS
  <2>2. sub' = [sub EXCEPT ![r] = y] /\ x.state = "sending" /\ x.rows = {}
    BY <1>1, <1>9, <2>1 DEF SetCaughtUp, TypeOK, x
  <2> QED
    BY <1>1, <1>2, <1>5, <2>1, <2>2, SoundCaughtUp
<1>10. CASE DrainBacklog(r)
  <2>1. sub' = [sub EXCEPT ![r] = Drain(x)] /\ x.state = "draining"
    BY <1>10 DEF DrainBacklog, x
  <2> QED
    BY <1>1, <1>2, <1>5, <2>1, SoundDrain
<1> QED
  BY <1>6, <1>7, <1>8, <1>9, <1>10

\* A replica takes in a message, or its connection changes.
LEMMA SoundsReplica ==
    ASSUME CatchupInvariant, Sounds, NEW r \in Replicas,
           ReplicaBegins(r) \/ ReplicaCommits(r) \/ ReplicaRollsBack(r) \/ ReplicaRestores(r)
           \/ Subscribe(r) \/ StreamEnds(r)
    PROVE  Sounds'
<1> DEFINE x == sub[r]
           p == Place(r)
<1>1. TypeOK /\ x \in Subscriber /\ p \in Position /\ p.wm = replicaWm[r] /\ p.tx = replicaTx[r]
      /\ Place(r)' = [wm |-> replicaWm'[r], tx |-> replicaTx'[r]]
      /\ p = [wm |-> replicaWm[r], tx |-> replicaTx[r]]
  BY PlaceOf DEF CatchupInvariant, StorerInvariant, Place
<1>2. Sound(x, p, Front) /\ Settled(x, p.wm)
  BY <1>1 DEF Sounds, CatchupInvariant
<1>3. Front' = Front /\ \A q \in Replicas : q # r => Place(q)' = Place(q)
  <2>1. UNCHANGED <<inTransaction, phase, running, lastWatermark, next>>
    BY DEF ReplicaBegins, ReplicaCommits, ReplicaRollsBack, ReplicaRestores, Subscribe,
           StreamEnds, dbVars, loopVars, storerVars
  <2>2. \A q \in Replicas : q # r => replicaWm'[q] = replicaWm[q] /\ replicaTx'[q] = replicaTx[q]
    BY <1>1 DEF ReplicaBegins, ReplicaCommits, ReplicaRollsBack, ReplicaRestores, Subscribe,
                StreamEnds, replicaVars, TypeOK
  <2> QED
    BY <2>1, <2>2 DEF Front, Aligned, Upcoming, Place
<1>4. ASSUME NEW y, sub' = [sub EXCEPT ![r] = y], Sound(y, Place(r)', Front)
      PROVE  Sounds'
  BY <1>1, <1>3, <1>4, SoundsOne
<1> HIDE DEF x, p
<1>5. CASE ReplicaBegins(r) \/ ReplicaCommits(r) \/ ReplicaRollsBack(r)
  <2>1. PICK y : y = [x EXCEPT !.downstream = Tail(@)]
    OBVIOUS
  <2>2. sub' = [sub EXCEPT ![r] = y] /\ x.downstream # << >>
    BY <1>1, <1>5, <2>1 DEF ReplicaBegins, ReplicaCommits, ReplicaRollsBack, NextMessage, TypeOK, x
  <2>3. PICK m : m = Head(x.downstream)
    OBVIOUS
  <2>4. m \in Message /\ New(m, p) /\ Sound(y, Take(m, p), Front)
    <3>1. x.downstream \in Seq(Message)
      BY <1>1 DEF Subscriber
    <3> QED
      BY <1>1, <1>2, <2>1, <2>2, <2>3, <3>1, SoundTail, TailOf
  <2>5. m.tag # "error" /\ m.watermark \in Nat /\ p.wm \in Nat
    BY <1>1, <1>5, <2>3, <2>4, WatermarkType
       DEF ReplicaBegins, ReplicaCommits, ReplicaRollsBack, NextMessage, Message, Position, x
  <2>6. ~ (m.watermark <= p.wm)
    BY <2>4, <2>5 DEF New
  <2>7. Place(r)' = Take(m, p)
    <3>1. CASE ReplicaBegins(r)
      <4>1. m.tag = "begin" /\ replicaTx'[r] = m.watermark /\ replicaWm'[r] = replicaWm[r]
        BY <1>1, <2>3, <3>1 DEF ReplicaBegins, NextMessage, TypeOK, x
      <4> QED
        BY <1>1, <2>6, <4>1 DEF Take
    <3>2. CASE ReplicaCommits(r)
      <4>1. m.tag = "commit" /\ replicaTx'[r] = 0 /\ replicaWm'[r] = m.watermark
        BY <1>1, <2>3, <3>2 DEF ReplicaCommits, NextMessage, TypeOK, x
      <4> QED
        BY <1>1, <2>6, <4>1 DEF Take
    <3>3. CASE ReplicaRollsBack(r)
      <4>1. m.tag = "rollback" /\ replicaTx'[r] = 0 /\ replicaWm'[r] = replicaWm[r]
        BY <1>1, <2>3, <3>3 DEF ReplicaRollsBack, NextMessage, TypeOK, x
      <4> QED
        BY <1>1, <2>6, <4>1 DEF Take
    <3> QED
      BY <1>5, <3>1, <3>2, <3>3
  <2> QED
    BY <1>4, <2>2, <2>4, <2>7
<1>6. CASE ReplicaRestores(r) \/ StreamEnds(r)
  <2>1. sub' = [sub EXCEPT ![r] = NoSubscriber] /\ replicaTx'[r] = 0
    BY <1>1, <1>6 DEF ReplicaRestores, StreamEnds, TypeOK
  <2>2. Sound(NoSubscriber, Place(r)', Front)
    BY <1>1, <2>1, SoundNone
  <2> QED
    BY <1>4, <2>1, <2>2
<1>7. CASE Subscribe(r)
  <2>1. PICK y : /\ sub' = [sub EXCEPT ![r] = y]
                 /\ y = [NoSubscriber EXCEPT !.state = "waiting",
                            !.forwarder = IF inTransaction THEN "queued" ELSE "active",
                            !.watermark = replicaWm[r]]
    BY <1>7 DEF Subscribe
  <2>2. y.state = "waiting"
    BY <2>1 DEF NoSubscriber
  <2>3. Place(r)' = p /\ x.state = "off"
    BY <1>1, <1>7 DEF Subscribe, replicaVars, x
  <2>4. p.tx = 0
    BY <1>2, <2>3 DEF Sound
  <2>5. Sound(y, p, Front)
    BY <2>2, <2>4 DEF Sound
  <2> QED
    BY <1>4, <2>1, <2>3, <2>5
<1> QED
  BY <1>5, <1>6, <1>7

LEMMA SoundsCrash ==
    ASSUME CatchupInvariant, Sounds, Crash
    PROVE  Sounds'
<1> SUFFICES ASSUME NEW r \in Replicas
             PROVE  Sound(sub'[r], Place(r)', Front')
  BY DEF Sounds
<1>1. TypeOK /\ sub[r] \in Subscriber /\ Place(r) \in Position /\ Place(r).wm = replicaWm[r]
      /\ Place(r).tx = replicaTx[r]
  BY PlaceOf DEF CatchupInvariant, StorerInvariant
<1>2. Sound(sub[r], Place(r), Front) /\ Settled(sub[r], Place(r).wm)
  BY <1>1 DEF Sounds, CatchupInvariant
<1>3. sub'[r] = IF r = Backup \/ sub[r].state = "off" THEN NoSubscriber ELSE Close(sub[r])
  BY DEF Crash
<1>4. replicaTx'[r] = IF r = Backup THEN 0 ELSE replicaTx[r]
  BY DEF Crash
<1>5. CASE r = Backup \/ sub[r].state = "off"
  <2>1. sub[r].state = "off" => replicaTx[r] = 0
    BY <1>1, <1>2 DEF Sound
  <2>2. Place(r)'.tx = 0
    BY <1>4, <1>5, <2>1 DEF Place
  <2> QED
    BY <1>3, <1>5, <2>2, SoundNone
<1>6. CASE ~ (r = Backup \/ sub[r].state = "off")
  <2>1. replicaWm'[r] = replicaWm[r]
    BY <1>1, <1>6 DEF Crash
  <2>2. Place(r)' = Place(r)
    BY <1>4, <1>6, <2>1 DEF Place
  <2>3. Sound(Close(sub[r]), Place(r), Front) /\ Close(sub[r]).state = "closed"
    BY <1>1, <1>2, SoundClose DEF Close, Subscriber
  <2>4. Sound(Close(sub[r]), Place(r), Front')
    BY <2>3 DEF Sound
  <2> QED
    BY <1>3, <1>6, <2>2, <2>4
<1> QED
  BY <1>5, <1>6

LEMMA SoundsKept ==
    ASSUME CatchupInvariant, StorerInvariant', Serving, Sounds, Recent, Start # 0, Next
    PROVE  Sounds'
<1>1. StorerInvariant /\ StorerInvariant' /\ Loop
  BY DEF CatchupInvariant, StorerInvariant
<1>2. CASE Connect
  BY <1>1, <1>2, FrontConnect, SoundsSame DEF Connect
<1>3. CASE FlowControlDone \/ StartPurge \/ FinishPurge \/ BackUp
  <2>1. Front' = Front
    BY <1>3, QuietRest, FrontQuiet
  <2> QED
    BY <1>3, <2>1, SoundsSame DEF FlowControlDone, StartPurge, FinishPurge, BackUp
<1>4. CASE ReceiveBegin \/ ReceiveCommit \/ ReceiveRollback
  <2>1. PICK m \in Message, e \in Entry :
              /\ sub' = Forward(m) /\ Continues(m, Front, Front')
              /\ UNCHANGED <<tx, lastWatermark, catchupQueue, running, replicaVars, backedUp>>
    BY <1>1, <1>4, ReceiveOf
  <2> QED
    BY <2>1, SoundsReceive
<1>5. CASE Disconnect \/ Interrupt
  BY <1>5, SoundsEndStream DEF Disconnect, Interrupt
<1>6. CASE StoreAssertFails \/ StoreStop \/ StorerError \/ StorerErrorAfterCommit
  <2>1. Dropped
    BY <1>6, DropsQueue
  <2>2. \E L : sub' = [r \in Replicas |-> IF r \in L THEN Close(sub[r]) ELSE sub[r]]
    <3>1. CASE StoreStop
      <4>1. PICK L : L = {r \in Replicas : \E i \in 1 .. Len(queue) :
                            queue[i].type = "subscriber" /\ queue[i].replica = r}
        OBVIOUS
      <4>2. sub' = [r \in Replicas |-> IF r \in L THEN Close(sub[r]) ELSE sub[r]]
        BY <3>1, <4>1 DEF StoreStop
      <4> QED
        BY <4>2
    <3>2. CASE StorerFails
      <4>1. PICK L : L = catchupQueue \cup {r \in Replicas : \E i \in 1 .. Len(queue) :
                            queue[i].type = "subscriber" /\ queue[i].replica = r}
        OBVIOUS
      <4>2. sub' = [r \in Replicas |-> IF r \in L THEN Close(sub[r]) ELSE sub[r]]
        BY <3>2, <4>1 DEF StorerFails
      <4> QED
        BY <4>2
    <3> QED
      BY <1>6, <3>1, <3>2 DEF StoreAssertFails, StorerError, StorerErrorAfterCommit
  <2> QED
    BY <2>1, <2>2, SoundsStops
<1>7. CASE Crash
  BY <1>7, SoundsCrash
<1> QED
  BY <1>2, <1>3, <1>4, <1>5, <1>6, <1>7, SoundsStorer, SoundsCatchup, SoundsReplica DEF Next

LEMMA RecentKept ==
    ASSUME CatchupInvariant, Recent, StorerInvariant', Next
    PROVE  Recent'
<1>1. /\ TypeOK /\ backedUp \in Nat /\ backedUp' \in Nat /\ Start \in Nat
      /\ \A r \in Replicas : replicaWm[r] \in Nat
  BY WatermarkType DEF CatchupInvariant, StorerInvariant, TypeOK
<1>2. ASSUME backedUp' = backedUp,
             \A r \in Replicas : Start <= replicaWm'[r]
      PROVE  Recent'
  BY <1>2 DEF Recent
<1>3. ASSUME UNCHANGED <<replicaWm, backedUp>>
      PROVE  Recent'
  BY <1>3 DEF Recent
<1>4. CASE Connect \/ FlowControlDone \/ StartPurge \/ FinishPurge \/ StoreBegin \/ StoreCommit
           \/ StoreRollback \/ StoreAssertFails \/ StoreSubscriber \/ StoreAbort \/ StoreStop
           \/ StorerError \/ StorerErrorAfterCommit
  BY <1>3, <1>4 DEF Connect, FlowControlDone, StartPurge, FinishPurge, StoreBegin, StoreCommit,
     StoreRollback, StoreAssertFails, StoreSubscriber, StoreAbort, StoreStop, StorerError,
     StorerErrorAfterCommit, replicaVars
<1>5. CASE ReceiveBegin \/ ReceiveCommit \/ ReceiveRollback \/ Disconnect \/ Interrupt
  BY <1>3, <1>5 DEF ReceiveBegin, ReceiveCommit, ReceiveRollback, Disconnect, Interrupt,
     EndStream, replicaVars
<1>6. CASE BackUp
  BY <1>1, <1>6 DEF BackUp, Recent, replicaVars
<1>7. CASE Crash
  BY <1>2, <1>7 DEF Crash, Recent
<1>8. ASSUME NEW r \in Replicas,
             \/ CatchupStarts(r) \/ CatchupTooOld(r) \/ CatchupSends(r) \/ SetCaughtUp(r)
             \/ DrainBacklog(r) \/ Subscribe(r) \/ ReplicaBegins(r) \/ ReplicaCommits(r)
             \/ ReplicaRollsBack(r) \/ ReplicaRestores(r) \/ StreamEnds(r)
      PROVE  Recent'
  <2>1. CASE ReplicaCommits(r)
    <3>1. PICK m : m = Head(sub[r].downstream)
      OBVIOUS
    <3>2. /\ sub[r].downstream # << >> /\ m.tag = "commit"
          /\ replicaWm' = [replicaWm EXCEPT ![r] = m.watermark] /\ backedUp' = backedUp
      BY <2>1, <3>1 DEF ReplicaCommits, NextMessage
    <3>3. m \in Message
      <4>1. sub[r].downstream \in Seq(Message)
        BY <1>1 DEF TypeOK, Subscriber
      <4> QED
        BY <3>1, <3>2, <4>1, TailOf
    <3>4. m.watermark \in Nat /\ replicaWm[r] < m.watermark
      <4>1. sub[r] \in Subscriber /\ replicaWm[r] \in Watermark /\ Rising(sub[r], replicaWm[r])
        BY <1>1 DEF TypeOK, CatchupInvariant, Settled
      <4> QED
        BY <3>1, <3>2, <3>3, <4>1, RisingTail, WatermarkType DEF Message
    <3>5. \A q \in Replicas : Start <= replicaWm[q]
      BY DEF Recent
    <3>6. \A q \in Replicas : replicaWm'[q] = IF q = r THEN m.watermark ELSE replicaWm[q]
      BY <1>1, <3>2 DEF TypeOK
    <3>7. Start <= m.watermark
      BY <1>1, <3>4, <3>5
    <3> QED
      BY <1>2, <3>2, <3>5, <3>6, <3>7
  <2>2. CASE ReplicaRestores(r)
    BY <1>1, <1>2, <2>2 DEF ReplicaRestores, Recent, TypeOK
  <2>3. CASE CatchupStarts(r) \/ CatchupTooOld(r) \/ CatchupSends(r) \/ SetCaughtUp(r)
             \/ DrainBacklog(r) \/ Subscribe(r) \/ ReplicaBegins(r)
             \/ ReplicaRollsBack(r) \/ StreamEnds(r)
    BY <1>3, <2>3 DEF CatchupStarts, CatchupTooOld, CatchupSends, SetCaughtUp, DrainBacklog,
       Subscribe, ReplicaBegins, ReplicaRollsBack, StreamEnds, replicaVars
  <2> QED
    BY <1>8, <2>1, <2>2, <2>3
<1> QED
  BY <1>4, <1>5, <1>6, <1>7, <1>8 DEF Next

-----------------------------------------------------------------------------
(* The theorems. *)

LEMMA InitDelivery == Init => DeliveryInvariant
<1> SUFFICES ASSUME Init
             PROVE  DeliveryInvariant
  OBVIOUS
<1>1. CatchupInvariant
  BY InitCaught
<1>2. Late /\ Aborts /\ Serving
  BY EmptySeq DEF Init, Late, Aborts, Serving, Served
<1>3. Sounds
  <2>1. \A r \in Replicas : sub[r] = NoSubscriber /\ Place(r).tx = 0
    BY DEF Init, Place
  <2> QED
    BY <2>1, SoundNone DEF Sounds
<1>4. Recent
  BY WatermarkType DEF Init, Recent
<1> QED
  BY <1>1, <1>2, <1>3, <1>4 DEF DeliveryInvariant

LEMMA StepDelivery ==
    ASSUME Start # 0
    PROVE  DeliveryInvariant /\ [Next]_vars => DeliveryInvariant'
<1> SUFFICES ASSUME DeliveryInvariant, [Next]_vars
             PROVE  DeliveryInvariant'
  OBVIOUS
<1>1. CatchupInvariant /\ CatchupInvariant' /\ StorerInvariant'
  BY StepCaught DEF DeliveryInvariant, CatchupInvariant
<1>2. Late /\ Aborts /\ Serving /\ Sounds /\ Recent
  BY DEF DeliveryInvariant
<1>3. CASE Next
  <2>1. Late' /\ Aborts' /\ Serving' /\ Sounds' /\ Recent'
    BY <1>1, <1>2, <1>3, LateKept, AbortsKept, ServingKept, SoundsKept, RecentKept
  <2> QED
    BY <1>1, <2>1 DEF DeliveryInvariant
<1>4. CASE UNCHANGED vars
  <2>1. Quiet /\ Front' = Front /\ UNCHANGED <<replicaVars, sub, backedUp>>
    BY <1>4, QuietRest, FrontQuiet DEF vars
  <2>2. Serving'
    BY <1>1, <1>2, <2>1, ServedSame DEF Quiet, CatchupInvariant
  <2>3. Sounds'
    BY <1>2, <2>1, SoundsSame
  <2>4. Late' /\ Aborts' /\ Recent'
    BY <1>2, <2>1 DEF Quiet, Late, Aborts, Recent, replicaVars
  <2> QED
    BY <1>1, <2>2, <2>3, <2>4 DEF DeliveryInvariant
<1> QED
  BY <1>3, <1>4

\* What a replica receives next.
LEMMA NextReceived ==
    ASSUME DeliveryInvariant, NEW r \in Replicas, sub[r].downstream # << >>,
           NEW m, m = Head(sub[r].downstream)
    PROVE  /\ m \in Message /\ replicaWm[r] \in Nat
           /\ m.tag # "error" => m.watermark = replicaWm[r] + 1
           /\ m.tag = "begin" => replicaTx[r] = 0
           /\ m.tag \in {"commit", "rollback"} => replicaTx[r] = m.watermark
<1>1. TypeOK /\ CatchupInvariant /\ Sounds
  BY DEF DeliveryInvariant, CatchupInvariant, StorerInvariant
<1>2. sub[r] \in Subscriber /\ Place(r) \in Position /\ Place(r).wm = replicaWm[r]
      /\ Place(r).tx = replicaTx[r]
  BY <1>1, PlaceOf
<1>3. Sound(sub[r], Place(r), Front) /\ Settled(sub[r], Place(r).wm)
  BY <1>1, <1>2 DEF Sounds, CatchupInvariant
<1>4. Fits(m, Place(r)) /\ New(m, Place(r))
  BY <1>2, <1>3, SoundTail
<1>5. m \in Message
  <2>1. sub[r].downstream \in Seq(Message)
    BY <1>2 DEF Subscriber
  <2> QED
    BY <2>1, TailOf
<1>6. m.watermark \in Nat /\ replicaWm[r] \in Nat
  BY <1>2, <1>5, WatermarkType DEF Message, Position
<1>7. ASSUME m.tag # "error"
      PROVE  /\ m.watermark = replicaWm[r] + 1
             /\ replicaTx[r] = IF m.tag = "begin" THEN 0 ELSE m.watermark
  BY <1>2, <1>4, <1>6, <1>7 DEF Fits, New
<1> QED
  BY <1>5, <1>6, <1>7

\* Catchup, backlog and live changes fit together: DeliveryInvariant is
\* inductive, if the replicas start after a transaction.  From the replica
\* version itself, Storer.#catchup sends on whatever it finds.
THEOREM DeliversTheorem ==
    ASSUME Start # 0
    PROVE  Spec => []DeliveryInvariant
<1>1. Init => DeliveryInvariant
  BY InitDelivery
<1>2. DeliveryInvariant /\ [Next]_vars => DeliveryInvariant'
  BY StepDelivery
<1> QED
  BY <1>1, <1>2, PTL DEF Spec

\* A replica receives whole transactions, one after the other, none missing
\* and none twice, whatever mix of catchup (Storer.#catchup), backlog and live
\* changes (Subscriber.send) they come from.
THEOREM DeliveryTheorem ==
    ASSUME Start # 0
    PROVE  Spec => []DeliversInOrder
<1>1. DeliveryInvariant => DeliversInOrder
  <2> SUFFICES ASSUME DeliveryInvariant, NEW r \in Replicas, sub[r].downstream # << >>,
                      NEW m, m = Head(sub[r].downstream)
               PROVE  /\ m.tag = "begin" => replicaTx[r] = 0 /\ m.watermark = replicaWm[r] + 1
                      /\ m.tag \in {"commit", "rollback"} => m.watermark = replicaTx[r]
    BY DEF DeliversInOrder
  <2> QED
    BY NextReceived
<1> QED
  BY <1>1, DeliversTheorem, PTL

\* What a step does to the replicas and the backup is a step of ReplicaHistory.
LEMMA StepHistory ==
    ASSUME DeliveryInvariant, CatchupInvariant', Next
    PROVE  History!Next \/ UNCHANGED <<replicaWm, backedUp>>
<1>1. /\ TypeOK /\ backedUp \in Nat /\ backedUp' \in Watermark
      /\ \A r \in Replicas : replicaWm[r] \in Nat /\ replicaWm'[r] \in Watermark
  BY WatermarkType DEF DeliveryInvariant, CatchupInvariant, StorerInvariant, TypeOK
<1>2. CASE Connect \/ FlowControlDone \/ StartPurge \/ FinishPurge \/ StoreBegin \/ StoreCommit
           \/ StoreRollback \/ StoreAssertFails \/ StoreSubscriber \/ StoreAbort \/ StoreStop
           \/ StorerError \/ StorerErrorAfterCommit
  BY <1>2 DEF Connect, FlowControlDone, StartPurge, FinishPurge, StoreBegin, StoreCommit,
     StoreRollback, StoreAssertFails, StoreSubscriber, StoreAbort, StoreStop, StorerError,
     StorerErrorAfterCommit, replicaVars
<1>3. CASE ReceiveBegin \/ ReceiveCommit \/ ReceiveRollback \/ Disconnect \/ Interrupt
  BY <1>3 DEF ReceiveBegin, ReceiveCommit, ReceiveRollback, Disconnect, Interrupt,
     EndStream, replicaVars
<1>4. CASE BackUp
  <2>1. backedUp' \in backedUp + 1 .. MaxTx /\ replicaWm' = replicaWm
    BY <1>1, <1>4, WatermarkType DEF BackUp, replicaVars
  <2> QED
    BY <2>1 DEF History!Next, History!BackUp
<1>5. CASE Crash
  <2>1. backedUp' = backedUp
    BY <1>5 DEF Crash
  <2>2. CASE replicaWm' = replicaWm
    BY <2>1, <2>2
  <2>3. CASE replicaWm' # replicaWm
    <3>1. replicaWm' = [r \in Replicas |-> IF r = Backup THEN backedUp ELSE replicaWm[r]]
      BY <1>5, <2>3 DEF Crash
    <3>2. Backup \in Replicas
      BY <1>1, <2>3, <3>1 DEF TypeOK
    <3>3. replicaWm' = [replicaWm EXCEPT ![Backup] = backedUp]
      BY <1>1, <3>1, <3>2 DEF TypeOK
    <3> QED
      BY <2>1, <3>2, <3>3 DEF History!Next, History!Restore
  <2> QED
    BY <2>2, <2>3
<1>6. ASSUME NEW r \in Replicas,
             \/ CatchupStarts(r) \/ CatchupTooOld(r) \/ CatchupSends(r) \/ SetCaughtUp(r)
             \/ DrainBacklog(r) \/ Subscribe(r) \/ ReplicaBegins(r) \/ ReplicaCommits(r)
             \/ ReplicaRollsBack(r) \/ ReplicaRestores(r) \/ StreamEnds(r)
      PROVE  History!Next \/ UNCHANGED <<replicaWm, backedUp>>
  <2>1. CASE ReplicaCommits(r)
    <3>1. PICK m : m = Head(sub[r].downstream)
      OBVIOUS
    <3>2. /\ sub[r].downstream # << >> /\ m.tag = "commit"
          /\ replicaWm' = [replicaWm EXCEPT ![r] = m.watermark] /\ backedUp' = backedUp
      BY <2>1, <3>1 DEF ReplicaCommits, NextMessage
    <3>3. m.watermark = replicaWm[r] + 1
      BY <3>1, <3>2, NextReceived
    <3>4. replicaWm'[r] = replicaWm[r] + 1
      BY <1>1, <3>2, <3>3 DEF TypeOK
    <3>5. replicaWm[r] < MaxTx
      BY <1>1, <3>4, WatermarkType
    <3>6. replicaWm' = [replicaWm EXCEPT ![r] = @ + 1]
      BY <3>2, <3>3
    <3> QED
      BY <3>2, <3>5, <3>6 DEF History!Next, History!Apply
  <2>2. CASE ReplicaRestores(r)
    BY <2>2 DEF ReplicaRestores, History!Next, History!Restore
  <2>3. CASE CatchupStarts(r) \/ CatchupTooOld(r) \/ CatchupSends(r) \/ SetCaughtUp(r)
             \/ DrainBacklog(r) \/ Subscribe(r) \/ ReplicaBegins(r)
             \/ ReplicaRollsBack(r) \/ StreamEnds(r)
    BY <2>3 DEF CatchupStarts, CatchupTooOld, CatchupSends, SetCaughtUp, DrainBacklog,
       Subscribe, ReplicaBegins, ReplicaRollsBack, StreamEnds, replicaVars
  <2> QED
    BY <1>6, <2>1, <2>2, <2>3
<1> QED
  BY <1>2, <1>3, <1>4, <1>5, <1>6 DEF Next

\* The change-streamer (change-streamer-service), its Storer and Forwarder,
\* the Subscribers and the replicas' IncrementalSyncer together implement the
\* gapless history of ReplicaHistory: a replica moves to the next transaction
\* or to the current backup, and nowhere else.
THEOREM HistoryTheorem ==
    ASSUME Start # 0
    PROVE  Spec => ImplementsHistory
<1>1. Init => History!Init
  <2> SUFFICES ASSUME Init
               PROVE  History!Init
    OBVIOUS
  <2>1. backedUp \in 0 .. MaxTx /\ replicaWm = [r \in Replicas |-> backedUp]
    BY TxAssumption DEF Init
  <2> QED
    BY <2>1 DEF History!Init
<1>2. DeliveryInvariant /\ DeliveryInvariant' /\ [Next]_vars => [History!Next]_<<replicaWm, backedUp>>
  <2> SUFFICES ASSUME DeliveryInvariant, DeliveryInvariant', [Next]_vars
               PROVE  History!Next \/ UNCHANGED <<replicaWm, backedUp>>
    OBVIOUS
  <2>1. CASE Next
    BY <2>1, StepHistory DEF DeliveryInvariant
  <2>2. CASE UNCHANGED vars
    BY <2>2 DEF vars, replicaVars
  <2> QED
    BY <2>1, <2>2
<1> QED
  BY <1>1, <1>2, DeliversTheorem, PTL DEF Spec, ImplementsHistory, History!Spec, History!vars

=============================================================================
