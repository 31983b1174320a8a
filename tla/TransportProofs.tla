--------------------------- MODULE TransportProofs ---------------------------
(***************************************************************************)
(* Proofs about the upstream transports, for every set of requests and     *)
(* every value of the limits and bounds.                                   *)
(***************************************************************************)
EXTENDS MCTransport, FiniteSetTheorems, TLAPS

-----------------------------------------------------------------------------
(* CurlTransport: the context of a request *)

Aborts ==
    {"none", "cancelled", "stopped", "exception", "budget", "allocation",
     "too large", "headers too large"} \cup Timeouts

CurlResults ==
    {"none", "idle", "complete", "stopped", "499", "500", "502", "503"} \cup Timeouts

Contexts ==
    [at : {"start", "acquire", "asleep", "setup", "perform", "check", "finish", "done"},
     abort : Aborts, phase : {0, 1, 2, 3}, part : {"none", "header", "body"},
     interim : BOOLEAN, streaming : BOOLEAN, header : Nat, body : Nat,
     lease : Nat, pieces : Nat,
     transfer : {"running", "ok", "failed", "timeout"}, outcome : CurlResults]

\* The lease is what the response holds.
Leased(c) == c.lease = c.header + c.body

\* What a request has received is what upstream has sent it, until a
\* callback refuses.
Received(c) ==
    /\ c.part # "body" => c.body = 0 /\ c.pieces = 0
    /\ c.part = "body" /\ ~c.streaming /\ c.transfer # "failed" => c.body = c.pieces

\* The reason to end is given once, and is true.
ReasonTrue(c, r) ==
    /\ c.abort = "stopped" => c.streaming
    /\ c.abort = "cancelled" => r \in gone
    /\ c.abort \in Timeouts => c.at = "finish" /\ c.abort \in {"total", PhaseDeadline(c)}
    /\ c.transfer = "running" => (c.abort = "none" <=> c.at # "finish")

GoodContext(c, r) ==
    /\ c \in Contexts
    /\ Leased(c)
    /\ c.at # "done" => c.outcome = "none" /\ Received(c) /\ ReasonTrue(c, r)

CurlInv ==
    /\ curl \in [Requests -> Contexts]
    /\ \A r \in Requests : GoodContext(curl[r], r)

\* The deadline of a phase is a timeout, and not the total one.
LEMMA PhaseDeadlineType ==
    ASSUME NEW c \in Contexts
    PROVE  PhaseDeadline(c) \in Timeouts \ {"total"}
BY DEF Contexts, PhaseDeadline, Timeouts

\* A request begins with a good context.
LEMMA FreshContext ==
    ASSUME NEW r
    PROVE  GoodContext(Context, r)
BY DEF GoodContext, Context, Contexts, Aborts, CurlResults, Leased, Received,
       ReasonTrue, Timeouts

\* A request that returns or throws keeps the lease of its response, if any.
LEMMA EndedContext ==
    ASSUME NEW c \in Contexts, Leased(c), NEW result \in CurlResults, NEW r
    PROVE  GoodContext(Ended(c, result), r)
<1>0. Context \in Contexts BY FreshContext DEF GoodContext
<1>1. Ended(c, result) \in Contexts
  <2>1. CASE result \in {"complete", "stopped"}
    BY <1>0, <2>1 DEF Ended, Contexts
  <2>2. CASE result \notin {"complete", "stopped"}
    BY <1>0, <2>2 DEF Ended, Contexts
  <2>3. QED BY <2>1, <2>2
<1>2. Leased(Ended(c, result)) BY DEF Ended, Context, Contexts, Leased
<1>3. Ended(c, result).at = "done" BY DEF Ended, Context
<1>4. QED BY <1>1, <1>2, <1>3 DEF GoodContext

\* A request that is not finishing may be refused for any reason that is
\* true; no other callback follows.
LEMMA RefusedContext ==
    ASSUME NEW c, NEW r, GoodContext(c, r), c.at = "perform",
           NEW reason \in Aborts \ (Timeouts \cup {"none"}),
           reason = "stopped" => c.streaming, reason = "cancelled" => r \in gone
    PROVE  GoodContext(Refuse(c, reason), r) /\ Refuse(c, reason).at = "perform"
<1>1. Refuse(c, reason) \in Contexts BY DEF Refuse, Contexts, GoodContext
<1>2. Leased(Refuse(c, reason)) /\ Received(Refuse(c, reason))
  BY DEF GoodContext, Contexts, Refuse, Leased, Received
<1>3. ReasonTrue(Refuse(c, reason), r)
  BY DEF GoodContext, Contexts, Refuse, ReasonTrue
<1>4. Refuse(c, reason).outcome = "none" /\ Refuse(c, reason).at = "perform"
  BY DEF GoodContext, Contexts, Refuse
<1>5. QED BY <1>1, <1>2, <1>3, <1>4 DEF GoodContext

\* A running transfer has no reason to end.
LEMMA RunningContext ==
    ASSUME CurlInv, NEW r \in Requests, Running(r)
    PROVE  /\ GoodContext(curl[r], r)
           /\ curl[r].at = "perform" /\ curl[r].transfer = "running"
           /\ curl[r].abort = "none"
BY DEF CurlInv, Running, At, GoodContext, ReasonTrue

-----------------------------------------------------------------------------
(* The callbacks of libcurl preserve it *)

\* A line of the header is taken with its lease, or refused.
LEMMA ReservedContext ==
    ASSUME NEW c, NEW next, NEW r,
           GoodContext(c, r), c.at = "perform",
           next \in Contexts, next.at = "perform",
           GoodContext([next EXCEPT !.header = c.header + 1, !.lease = c.lease + 1], r),
           NEW d \in Reserved(c, next)
    PROVE  GoodContext(d, r) /\ d.at = "perform"
<1>1. /\ "headers too large" \in Aborts \ (Timeouts \cup {"none"})
      /\ "budget" \in Aborts \ (Timeouts \cup {"none"})
  BY DEF Aborts, Timeouts
<1>2. \/ d = Refuse(c, "headers too large") \/ d = Refuse(c, "budget")
      \/ d = [next EXCEPT !.header = c.header + 1, !.lease = c.lease + 1]
  BY DEF Reserved
<1>3. CASE d = Refuse(c, "headers too large") BY <1>1, <1>3, RefusedContext
<1>4. CASE d = Refuse(c, "budget") BY <1>1, <1>4, RefusedContext
<1>5. CASE d = [next EXCEPT !.header = c.header + 1, !.lease = c.lease + 1]
  <2>1. d.at = next.at BY <1>5 DEF Contexts
  <2>2. QED BY <1>5, <2>1
<1>6. QED BY <1>2, <1>3, <1>4, <1>5

\* A running transfer goes on after a callback that only takes note.
LEMMA NotedContext ==
    ASSUME NEW c, NEW r, GoodContext(c, r), c.at = "perform",
           NEW d \in Contexts, d.at = "perform", d.outcome = c.outcome,
           d.abort = c.abort, d.transfer = c.transfer,
           d.abort = "stopped" => d.streaming,
           Leased(d), Received(d)
    PROVE  GoodContext(d, r)
<1>1. ReasonTrue(d, r) BY DEF GoodContext, ReasonTrue
<1>2. QED BY <1>1 DEF GoodContext

\* The request has come to another phase.
LEMMA PhaseContext ==
    ASSUME NEW c, NEW r, GoodContext(c, r), c.at = "perform", NEW p \in {0, 1, 2, 3}
    PROVE  GoodContext([c EXCEPT !.phase = p], r) /\ [c EXCEPT !.phase = p].at = "perform"
<1> DEFINE d == [c EXCEPT !.phase = p]
<1>1. c \in Contexts BY DEF GoodContext
<1>2. /\ d \in Contexts /\ d.at = "perform" /\ d.outcome = c.outcome /\ d.abort = c.abort
      /\ d.transfer = c.transfer /\ d.streaming = c.streaming /\ d.part = c.part
      /\ d.body = c.body /\ d.pieces = c.pieces
      /\ d.lease = c.lease /\ d.header = c.header
  BY <1>1 DEF Contexts
<1> HIDE DEF d
<1>3. Leased(d) /\ Received(d) BY <1>2 DEF GoodContext, Leased, Received
<1>4. d.abort = "stopped" => d.streaming BY <1>2 DEF GoodContext, ReasonTrue
<1>5. GoodContext(d, r) BY <1>2, <1>3, <1>4, NotedContext
<1>6. QED BY <1>2, <1>5 DEF d

LEMMA ProgressContext ==
    ASSUME NEW c, NEW r, GoodContext(c, r), c.at = "perform",
           NEW d \in Progress(c, r \in gone)
    PROVE  GoodContext(d, r) /\ d.at = "perform"
<1>1. CASE r \in gone
  <2>1. d = Refuse(c, "cancelled") BY <1>1 DEF Progress
  <2>2. "cancelled" \in Aborts \ (Timeouts \cup {"none"}) BY DEF Aborts, Timeouts
  <2>3. QED BY <1>1, <2>1, <2>2, RefusedContext
<1>2. CASE r \notin gone
  <2>1. PICK p \in c.phase .. 3 : d = [c EXCEPT !.phase = p] BY <1>2 DEF Progress
  <2>2. p \in {0, 1, 2, 3} BY <2>1 DEF GoodContext, Contexts
  <2>3. QED BY <2>1, <2>2, PhaseContext
<1>3. QED BY <1>1, <1>2

LEMMA StatusLineContext ==
    ASSUME NEW c, NEW r, GoodContext(c, r), c.at = "perform",
           c.transfer = "running", c.part = "none", NEW d \in StatusLine(c)
    PROVE  GoodContext(d, r) /\ d.at = "perform"
<1>1. PICK i \in BOOLEAN :
         d \in Reserved(Reset(c), [c EXCEPT !.part = "header", !.interim = i, !.body = 0,
                                            !.streaming = FALSE, !.phase = 3])
  BY DEF StatusLine
<1> DEFINE n == [c EXCEPT !.part = "header", !.interim = i, !.body = 0,
                          !.streaming = FALSE, !.phase = 3]
           taken == [n EXCEPT !.header = Reset(c).header + 1, !.lease = Reset(c).lease + 1]
<1>2. c \in Contexts /\ Leased(c) /\ c.body = 0 /\ c.pieces = 0 /\ c.abort = "none"
      /\ c.outcome = "none"
  BY DEF GoodContext, Received, ReasonTrue
<1>3. /\ Reset(c) \in Contexts /\ Reset(c).at = "perform"
      /\ Reset(c).header = 0 /\ Reset(c).body = 0 /\ Reset(c).lease = 0
      /\ Reset(c).outcome = c.outcome /\ Reset(c).abort = c.abort
      /\ Reset(c).transfer = c.transfer /\ Reset(c).pieces = 0 /\ Reset(c).part = "none"
  <2>1. c.lease - c.header - c.body = 0 BY <1>2 DEF Leased, Contexts
  <2>2. Reset(c) = [[[c EXCEPT !.lease = 0] EXCEPT !.header = 0] EXCEPT !.body = 0]
    BY <2>1, <1>2 DEF Reset, Contexts
  <2>3. QED BY <1>2, <2>2 DEF Contexts
<1>4. GoodContext(Reset(c), r)
  BY <1>2, <1>3, NotedContext DEF Leased, Received
<1>5. /\ taken \in Contexts
      /\ taken.at = "perform" /\ taken.outcome = c.outcome
      /\ taken.abort = "none" /\ taken.transfer = c.transfer
      /\ taken.body = 0 /\ taken.pieces = 0 /\ taken.part = "header"
      /\ taken.header = 1 /\ taken.lease = 1
  <2>1. /\ n \in Contexts /\ n.at = "perform" /\ n.outcome = c.outcome
        /\ n.abort = "none" /\ n.transfer = c.transfer
        /\ n.body = 0 /\ n.pieces = 0 /\ n.part = "header"
    BY <1>2 DEF Contexts
  <2>2. Reset(c).header + 1 = 1 /\ Reset(c).lease + 1 = 1 BY <1>3
  <2> HIDE DEF n
  <2>3. taken = [n EXCEPT !.header = 1, !.lease = 1] BY <2>2
  <2> HIDE DEF taken
  <2>4. QED BY <2>1, <2>3 DEF Contexts
<1> HIDE DEF taken
<1>6. GoodContext(taken, r)
  BY <1>2, <1>5, NotedContext DEF Leased, Received
<1>7. n \in Contexts /\ n.at = "perform" BY <1>2 DEF Contexts
<1>8. QED BY <1>1, <1>3, <1>4, <1>6, <1>7, ReservedContext DEF taken, n

\* A good context with one more line is good.
LEMMA TakenContext ==
    ASSUME NEW c, NEW r, GoodContext(c, r), c.at = "perform"
    PROVE  GoodContext([c EXCEPT !.header = c.header + 1, !.lease = c.lease + 1], r)
<1> DEFINE d == [c EXCEPT !.header = c.header + 1, !.lease = c.lease + 1]
<1>1. c \in Contexts /\ c.header + 1 \in Nat /\ c.lease + 1 \in Nat
  BY DEF GoodContext, Contexts
<1>2. /\ d \in Contexts /\ d.header = c.header + 1 /\ d.lease = c.lease + 1
      /\ d.at = c.at /\ d.abort = c.abort /\ d.phase = c.phase /\ d.part = c.part
      /\ d.streaming = c.streaming /\ d.body = c.body /\ d.pieces = c.pieces
      /\ d.transfer = c.transfer /\ d.outcome = c.outcome
  <2>1. PICK h \in Nat, l \in Nat : h = c.header + 1 /\ l = c.lease + 1 BY <1>1
  <2>2. d = [c EXCEPT !.header = h, !.lease = l] BY <2>1
  <2> HIDE DEF d
  <2>3. QED BY <1>1, <2>1, <2>2 DEF Contexts
<1> HIDE DEF d
<1>3. Leased(d) BY <1>1, <1>2 DEF GoodContext, Leased, Contexts
<1>4. Received(d) BY <1>2 DEF GoodContext, Received
<1>5. d.abort = "stopped" => d.streaming BY <1>2 DEF GoodContext, ReasonTrue
<1>6. GoodContext(d, r) BY <1>2, <1>3, <1>4, <1>5, NotedContext
<1>7. QED BY <1>6 DEF d

LEMMA HeaderLineContext ==
    ASSUME NEW c, NEW r, GoodContext(c, r), c.at = "perform",
           NEW d \in HeaderLine(c)
    PROVE  GoodContext(d, r) /\ d.at = "perform"
<1>1. CASE d \in Reserved(c, c)
  BY <1>1, TakenContext, ReservedContext DEF GoodContext
<1>2. CASE d = Refuse(c, "allocation")
  <2>1. "allocation" \in Aborts \ (Timeouts \cup {"none"}) BY DEF Aborts, Timeouts
  <2>2. QED BY <1>2, <2>1, RefusedContext
<1>3. QED BY <1>1, <1>2 DEF HeaderLine

LEMMA BlankLineContext ==
    ASSUME NEW c, NEW r, GoodContext(c, r), c.at = "perform",
           c.transfer = "running", c.part = "header", NEW d \in BlankLine(c)
    PROVE  GoodContext(d, r) /\ d.at = "perform"
<1>1. c \in Contexts /\ Leased(c) /\ c.body = 0 /\ c.pieces = 0 /\ c.abort = "none"
      /\ c.outcome = "none"
  BY DEF GoodContext, Received, ReasonTrue
<1>2. \A p \in {"none", "body"}, s \in BOOLEAN :
         LET n == [c EXCEPT !.part = p, !.streaming = s]
         IN  GoodContext(n, r) /\ n.at = "perform" /\ n.streaming = s
  <2> TAKE p \in {"none", "body"}, s \in BOOLEAN
  <2> DEFINE n == [c EXCEPT !.part = p, !.streaming = s]
  <2>1. n \in Contexts BY <1>1 DEF Contexts
  <2>2. /\ n.at = "perform" /\ n.outcome = c.outcome /\ n.abort = c.abort
        /\ n.transfer = c.transfer /\ n.lease = c.lease /\ n.header = c.header
        /\ n.body = c.body /\ n.pieces = c.pieces /\ n.streaming = s
    BY <1>1 DEF Contexts
  <2> HIDE DEF n
  <2>3. Leased(n) /\ Received(n) BY <1>1, <2>2 DEF Leased, Received
  <2>4. GoodContext(n, r) BY <1>1, <2>1, <2>2, <2>3, NotedContext
  <2>5. QED BY <2>2, <2>4 DEF n
<1>3. CASE c.interim
  <2> DEFINE n == [c EXCEPT !.part = "none"]
  <2>1. d \in Reserved(c, n) BY <1>3 DEF BlankLine
  <2>2. n \in Contexts BY <1>1 DEF Contexts
  <2>3. /\ n.at = "perform" /\ n.outcome = c.outcome /\ n.abort = c.abort
        /\ n.transfer = c.transfer /\ n.lease = c.lease /\ n.header = c.header
        /\ n.body = c.body /\ n.pieces = c.pieces
    BY <1>1 DEF Contexts
  <2> HIDE DEF n
  <2>4. Leased(n) /\ Received(n) BY <1>1, <2>3 DEF Leased, Received
  <2>5. GoodContext(n, r) BY <1>1, <2>2, <2>3, <2>4, NotedContext
  <2>6. GoodContext([n EXCEPT !.header = c.header + 1, !.lease = c.lease + 1], r)
    BY <2>3, <2>5, TakenContext
  <2>7. QED BY <2>1, <2>2, <2>3, <2>6, ReservedContext
<1>4. CASE ~c.interim
  <2>1. PICK s \in BOOLEAN :
           LET n == [c EXCEPT !.part = "body", !.streaming = s]
           IN  d \in UNION {Reserved(c, m) : m \in
                        {n, Refuse(c, "budget")}
                        \cup IF s THEN {Refuse(n, "stopped"), Refuse(n, "exception")} ELSE {}}
    BY <1>4 DEF BlankLine
  <2> DEFINE n == [c EXCEPT !.part = "body", !.streaming = s]
  <2>2. PICK m \in {n, Refuse(c, "budget")}
                   \cup IF s THEN {Refuse(n, "stopped"), Refuse(n, "exception")} ELSE {} :
           d \in Reserved(c, m)
    BY <2>1
  <2>3. GoodContext(n, r) /\ n.at = "perform" /\ n.streaming = s BY <1>2
  <2>4. n.header = c.header /\ n.lease = c.lease BY <1>1 DEF Contexts
  <2> HIDE DEF n
  <2>5. {"budget", "stopped", "exception"} \subseteq Aborts \ (Timeouts \cup {"none"})
    BY DEF Aborts, Timeouts
  <2>6. GoodContext(m, r)
    <3>1. CASE m = n BY <3>1, <2>3
    <3>2. CASE m = Refuse(c, "budget") BY <3>2, <2>5, RefusedContext
    <3>3. CASE s /\ m = Refuse(n, "stopped") BY <3>3, <2>3, <2>5, RefusedContext
    <3>4. CASE s /\ m = Refuse(n, "exception") BY <3>4, <2>3, <2>5, RefusedContext
    <3>5. QED BY <2>2, <3>1, <3>2, <3>3, <3>4
  <2>7. m.at = "perform" /\ m.header = c.header /\ m.lease = c.lease
    <3>1. n \in Contexts BY <2>3 DEF GoodContext
    <3>2. \A x \in Contexts, y \in {"budget", "stopped", "exception"} :
             /\ Refuse(x, y).at = x.at /\ Refuse(x, y).header = x.header
             /\ Refuse(x, y).lease = x.lease
      BY DEF Refuse, Contexts
    <3>3. QED BY <1>1, <2>2, <2>3, <2>4, <3>1, <3>2
  <2>8. GoodContext([m EXCEPT !.header = c.header + 1, !.lease = c.lease + 1], r)
    BY <2>6, <2>7, TakenContext
  <2>9. QED BY <2>2, <2>6, <2>7, <2>8, ReservedContext DEF GoodContext
<1>5. QED BY <1>3, <1>4

LEMMA PieceContext ==
    ASSUME NEW c, NEW r, GoodContext(c, r), c.at = "perform",
           c.transfer = "running", c.part = "body",
           NEW d \in IF r \in gone THEN {Refuse([c EXCEPT !.pieces = @ + 1], "cancelled")}
                     ELSE Piece([c EXCEPT !.pieces = @ + 1])
    PROVE  GoodContext(d, r) /\ d.at = "perform"
<1> DEFINE p == [c EXCEPT !.pieces = @ + 1]
           b == [p EXCEPT !.body = @ + 1, !.lease = @ + 1]
<1>1. /\ c \in Contexts /\ c.abort = "none" /\ c.outcome = "none"
      /\ c.lease = c.header + c.body
      /\ ~c.streaming => c.body = c.pieces
  BY DEF GoodContext, Received, ReasonTrue, Leased
<1>2. /\ p \in Contexts /\ p.pieces = c.pieces + 1
      /\ p.at = "perform" /\ p.outcome = "none" /\ p.abort = "none" /\ p.transfer = "running"
      /\ p.lease = c.lease /\ p.header = c.header /\ p.body = c.body
      /\ p.streaming = c.streaming /\ p.part = "body"
  BY <1>1 DEF Contexts
<1> HIDE DEF p
<1>3. /\ b \in Contexts /\ b.pieces = p.pieces
      /\ b.at = "perform" /\ b.outcome = "none" /\ b.abort = "none" /\ b.transfer = "running"
      /\ b.lease = p.lease + 1 /\ b.header = p.header /\ b.body = p.body + 1
      /\ b.streaming = p.streaming /\ b.part = "body"
  <2>1. p.body + 1 \in Nat /\ p.lease + 1 \in Nat BY <1>2 DEF Contexts
  <2>2. b = [p EXCEPT !.body = p.body + 1, !.lease = p.lease + 1] BY <1>2 DEF Contexts
  <2> HIDE DEF b
  <2>3. QED BY <1>2, <2>1, <2>2 DEF Contexts
<1> HIDE DEF b
<1>4. {"budget", "stopped", "exception", "cancelled", "allocation", "too large"}
        \subseteq Aborts \ (Timeouts \cup {"none"})
  BY DEF Aborts, Timeouts
\* A piece that is refused: the transfer fails, nothing is promised.
<1>5. ASSUME NEW y \in {"budget", "stopped", "exception", "cancelled", "allocation", "too large"},
             y = "stopped" => p.streaming, y = "cancelled" => r \in gone
      PROVE  GoodContext(Refuse(p, y), r) /\ Refuse(p, y).at = "perform"
  <2> DEFINE f == Refuse(p, y)
  <2>1. /\ f.abort = y /\ f.transfer = "failed" /\ f.at = "perform" /\ f.outcome = "none"
        /\ f.lease = p.lease /\ f.header = p.header /\ f.body = p.body
        /\ f.streaming = p.streaming /\ f.part = "body"
    BY <1>2 DEF Refuse, Contexts
  <2>2. f \in Contexts
    <3>1. y \in Aborts BY <1>4
    <3>2. QED BY <1>2, <3>1 DEF Refuse, Contexts
  <2> HIDE DEF f
  <2>3. Leased(f) /\ Received(f) BY <1>1, <1>2, <2>1 DEF Leased, Received
  <2>4. ReasonTrue(f, r) BY <1>4, <1>5, <2>1 DEF ReasonTrue
  <2>5. GoodContext(f, r) BY <2>1, <2>2, <2>3, <2>4 DEF GoodContext
  <2>6. QED BY <2>1, <2>5 DEF f
<1>6. CASE r \in gone BY <1>5, <1>6 DEF p
<1>7. CASE r \notin gone /\ p.streaming
  <2>1. Leased(p) /\ Received(p) BY <1>1, <1>2, <1>7 DEF Leased, Received
  <2>2. GoodContext(p, r) BY <1>1, <1>2, <2>1, NotedContext
  <2>3. d \in {p, Refuse(p, "budget"), Refuse(p, "stopped"), Refuse(p, "exception")}
    BY <1>7 DEF p, Piece
  <2>4. QED BY <1>2, <1>5, <1>7, <2>2, <2>3
<1>8. CASE r \notin gone /\ ~p.streaming
  <2>1. Leased(b) BY <1>1, <1>2, <1>3 DEF Leased, Contexts
  <2>2. Received(b) BY <1>1, <1>2, <1>3, <1>8 DEF Received
  <2>3. GoodContext(b, r) BY <1>1, <1>2, <1>3, <2>1, <2>2, NotedContext
  <2>4. d \in {b, Refuse(p, "too large"), Refuse(p, "budget"), Refuse(p, "allocation")}
    BY <1>8 DEF p, b, Piece
  <2>5. QED BY <1>3, <1>5, <1>8, <2>3, <2>4
<1>9. QED BY <1>6, <1>7, <1>8

-----------------------------------------------------------------------------
(* The steps of CurlTransport *)

\* The clients that have left are the same after most steps.
LEMMA GoodSuccessors ==
    ASSUME curl' \in [Requests -> Contexts], gone' = gone,
           \A q \in Requests : GoodContext(curl'[q], q)
    PROVE  CurlInv'
<1>1. \A q \in Requests : GoodContext(curl[q], q)'
  BY DEF GoodContext, Leased, Received, ReasonTrue, PhaseDeadline
<1>2. QED BY <1>1 DEF CurlInv

\* A step that gives one request a good context.
LEMMA OneContext ==
    ASSUME CurlInv, NEW r \in Requests, NEW c, GoodContext(c, r),
           curl' = [curl EXCEPT ![r] = c], gone' = gone
    PROVE  CurlInv'
<1>1. c \in Contexts BY DEF GoodContext
<1>2. \A q \in Requests : curl'[q] \in Contexts /\ GoodContext(curl'[q], q)
  BY <1>1 DEF CurlInv
<1>3. curl' \in [Requests -> Contexts] BY <1>1 DEF CurlInv
<1>4. QED BY <1>2, <1>3, GoodSuccessors

\* One who waits for a handle is woken.
LEMMA WokenContexts ==
    ASSUME CurlInv, NEW r \in Requests, ~At(r, "asleep"), NEW c, GoodContext(c, r),
           NEW ws \in SUBSET Sleepers,
           curl' = Woken([curl EXCEPT ![r] = c], ws), gone' = gone
    PROVE  CurlInv'
<1>1. c \in Contexts /\ r \notin ws BY DEF GoodContext, Sleepers
<1>2. ASSUME NEW q \in Requests
      PROVE  curl'[q] \in Contexts /\ GoodContext(curl'[q], q)
  <2>1. CASE q = r BY <1>1, <2>1 DEF Woken, CurlInv
  <2>2. CASE q # r /\ q \notin ws BY <2>2 DEF Woken, CurlInv
  <2>3. CASE q \in ws
    <3> DEFINE w == [curl[q] EXCEPT !.at = "acquire"]
    <3>1. curl'[q] = w BY <1>1, <2>3 DEF Woken, CurlInv
    <3>2. curl[q] \in Contexts /\ GoodContext(curl[q], q) BY DEF CurlInv
    <3>3. curl[q].at = "asleep" BY <2>3 DEF Sleepers, At
    <3>4. /\ w \in Contexts /\ w.at = "acquire" /\ w.abort = curl[q].abort
          /\ w.phase = curl[q].phase /\ w.part = curl[q].part
          /\ w.streaming = curl[q].streaming /\ w.header = curl[q].header
          /\ w.body = curl[q].body /\ w.lease = curl[q].lease /\ w.pieces = curl[q].pieces
          /\ w.transfer = curl[q].transfer /\ w.outcome = curl[q].outcome
      BY <3>2 DEF Contexts
    <3> HIDE DEF w
    <3>5. GoodContext(w, q)
      BY <3>2, <3>3, <3>4 DEF GoodContext, Leased, Received, ReasonTrue
    <3>6. QED BY <3>1, <3>4, <3>5
  <2>4. QED BY <2>1, <2>2, <2>3
<1>3. curl' \in [Requests -> Contexts]
  <2>1. curl' = [q \in Requests |-> curl'[q]] BY DEF Woken
  <2>2. QED BY <1>2, <2>1
<1>4. QED BY <1>2, <1>3, GoodSuccessors

\* A handle goes back, whatever the request gives as its result.
LEMMA ReleaseContexts ==
    ASSUME CurlInv, NEW r \in Requests, ~At(r, "asleep"), NEW o \in CurlResults,
           Release([curl EXCEPT ![r] = Ended(@, o)]) \/ Discard([curl EXCEPT ![r] = Ended(@, o)]),
           gone' = gone
    PROVE  CurlInv'
<1> DEFINE c == Ended(curl[r], o)
<1>1. GoodContext(c, r)
  <2>1. curl[r] \in Contexts /\ Leased(curl[r]) BY DEF CurlInv, GoodContext
  <2>2. QED BY <2>1, EndedContext
<1>2. [curl EXCEPT ![r] = Ended(@, o)] = [curl EXCEPT ![r] = c] OBVIOUS
<1> HIDE DEF c
<1>3. CASE curl' = [curl EXCEPT ![r] = c] BY <1>1, <1>3, OneContext
<1>4. CASE \E w \in Sleepers : curl' = Woken([curl EXCEPT ![r] = c], {w})
  <2>1. PICK w \in Sleepers : curl' = Woken([curl EXCEPT ![r] = c], {w}) BY <1>4
  <2>2. {w} \in SUBSET Sleepers BY <2>1
  <2>3. QED BY <1>1, <2>1, <2>2, WokenContexts
<1>5. CASE curl' = Woken([curl EXCEPT ![r] = c], Sleepers) BY <1>1, <1>5, WokenContexts
<1>6. QED BY <1>2, <1>3, <1>4, <1>5 DEF Release, Discard

\* Every result of a request is one of the results.
LEMMA OutcomesType ==
    ASSUME NEW c \in Contexts, NEW r, NEW o \in Outcomes(c, r \in gone)
    PROVE  o \in CurlResults
<1>1. PhaseDeadline(c) \in Timeouts BY PhaseDeadlineType
<1>2. CurlTimeout(c) \subseteq Timeouts BY <1>1 DEF CurlTimeout, Timeouts
<1>3. QED BY <1>2 DEF Outcomes, CurlResults

\* The thread goes on to its next step.
LEMMA MovedContext ==
    ASSUME NEW c, NEW r, GoodContext(c, r), c.at \notin {"finish", "done"},
           NEW l \in {"acquire", "asleep", "setup", "perform", "check", "finish"},
           l = "finish" => c.transfer # "running"
    PROVE  GoodContext([c EXCEPT !.at = l], r)
<1> DEFINE d == [c EXCEPT !.at = l]
<1>1. c \in Contexts BY DEF GoodContext
<1>2. /\ d \in Contexts /\ d.at = l /\ d.abort = c.abort
      /\ d.phase = c.phase /\ d.part = c.part /\ d.streaming = c.streaming
      /\ d.header = c.header /\ d.body = c.body /\ d.lease = c.lease
      /\ d.pieces = c.pieces /\ d.transfer = c.transfer /\ d.outcome = c.outcome
  BY <1>1 DEF Contexts
<1> HIDE DEF d
<1>3. GoodContext(d, r) BY <1>2 DEF GoodContext, Leased, Received, ReasonTrue
<1>4. QED BY <1>3 DEF d

\* The thread gives a reason of its own, a deadline or a cancellation.
LEMMA AbortedContext ==
    ASSUME NEW c, NEW r, GoodContext(c, r), c.at = "check", NEW reason,
           \/ reason = "cancelled" /\ r \in gone
           \/ reason \in {"total", PhaseDeadline(c)}
    PROVE  GoodContext([c EXCEPT !.abort = reason, !.at = "finish"], r)
<1> DEFINE d == [c EXCEPT !.abort = reason, !.at = "finish"]
<1>1. c \in Contexts BY DEF GoodContext
<1>2. PhaseDeadline(c) \in Timeouts \ {"total"} BY <1>1, PhaseDeadlineType
<1>3. reason \in Aborts /\ reason \notin {"none", "stopped"}
  BY <1>2 DEF Aborts, Timeouts
<1>4. /\ d \in Contexts /\ d.at = "finish" /\ d.abort = reason
      /\ d.phase = c.phase /\ d.part = c.part /\ d.streaming = c.streaming
      /\ d.header = c.header /\ d.body = c.body /\ d.lease = c.lease
      /\ d.pieces = c.pieces /\ d.transfer = c.transfer /\ d.outcome = c.outcome
  BY <1>1, <1>3 DEF Contexts
<1> HIDE DEF d
<1>5. PhaseDeadline(d) = PhaseDeadline(c) BY <1>4 DEF PhaseDeadline
<1>6. reason = "cancelled" => r \in gone BY <1>2 DEF Timeouts
<1>7. "cancelled" \notin Timeouts BY DEF Timeouts
<1>8. ReasonTrue(d, r) BY <1>3, <1>4, <1>5, <1>6, <1>7 DEF ReasonTrue
<1>9. Leased(d) /\ Received(d) BY <1>4 DEF GoodContext, Leased, Received
<1>10. GoodContext(d, r) BY <1>4, <1>8, <1>9 DEF GoodContext
<1>11. QED BY <1>10 DEF d

\* libcurl reports the end of a running transfer.
LEMMA EndedTransferContext ==
    ASSUME NEW c, NEW r, GoodContext(c, r), c.at = "perform", c.transfer = "running",
           NEW t \in {"ok", "failed", "timeout"}
    PROVE  GoodContext([c EXCEPT !.transfer = t], r)
<1> DEFINE d == [c EXCEPT !.transfer = t]
<1>1. c \in Contexts BY DEF GoodContext
<1>2. /\ d \in Contexts /\ d.at = "perform" /\ d.abort = c.abort /\ d.transfer = t
      /\ d.phase = c.phase /\ d.part = c.part /\ d.streaming = c.streaming
      /\ d.header = c.header /\ d.body = c.body /\ d.lease = c.lease
      /\ d.pieces = c.pieces /\ d.outcome = c.outcome
  BY <1>1 DEF Contexts
<1> HIDE DEF d
<1>3. Leased(d) /\ Received(d) BY <1>2 DEF GoodContext, Leased, Received
<1>4. ReasonTrue(d, r) BY <1>2 DEF GoodContext, ReasonTrue
<1>5. GoodContext(d, r) BY <1>2, <1>3, <1>4 DEF GoodContext
<1>6. QED BY <1>5 DEF d

\* Every step of every request and of its client keeps the contexts good:
\* whatever callbacks refuse, deadlines pass and handles are released.
LEMMA CurlStep == CurlInv /\ [CurlNext]_curlVars => CurlInv'
<1> SUFFICES ASSUME CurlInv, [CurlNext]_curlVars PROVE CurlInv'
  OBVIOUS
<1>1. CASE UNCHANGED curlVars
  BY <1>1 DEF curlVars, CurlInv, GoodContext, Leased, Received, ReasonTrue, PhaseDeadline
<1>2. ASSUME NEW r \in Requests,
             \/ Thread(r) \/ DeadlineAborts(r) \/ FinishFails(r) \/ PerformFails(r)
             \/ ProgressCallback(r) \/ SocketCallback(r) \/ HeaderCallback(r)
             \/ BodyCallback(r) \/ TransferEnds(r) \/ ClientCancels(r)
      PROVE  CurlInv'
  <2> DEFINE c == curl[r]
  <2>0. /\ GoodContext(c, r) /\ c \in Contexts /\ Leased(c)
        /\ {"499", "500", "502", "503"} \subseteq CurlResults
    BY DEF CurlInv, GoodContext, CurlResults
  <2>1. CASE Begin(r)
    <3>1. GoodContext(Ended(c, "499"), r) BY <2>0, EndedContext
    <3>2. GoodContext([c EXCEPT !.at = "acquire"], r)
      BY <2>0, <2>1, MovedContext DEF Begin, At
    <3>3. CASE r \in gone
      <4>1. curl' = [curl EXCEPT ![r] = Ended(c, "499")] BY <2>1, <3>3 DEF Begin
      <4>2. QED BY <2>1, <3>1, <4>1, OneContext DEF Begin
    <3>4. CASE r \notin gone
      <4>1. curl' = [curl EXCEPT ![r] = [c EXCEPT !.at = "acquire"]] BY <2>1, <3>4 DEF Begin
      <4>2. QED BY <2>1, <3>2, <4>1, OneContext DEF Begin
    <3>5. QED BY <3>3, <3>4
  <2>2. CASE Acquire(r)
    <3>1. GoodContext(Ended(c, "500"), r) BY <2>0, EndedContext
    <3>2. \A l \in {"setup", "asleep"} : GoodContext([c EXCEPT !.at = l], r)
      BY <2>0, <2>2, MovedContext DEF Acquire, At
    <3>3. \/ curl' = [curl EXCEPT ![r] = Ended(c, "500")]
          \/ \E l \in {"setup", "asleep"} : curl' = [curl EXCEPT ![r] = [c EXCEPT !.at = l]]
      BY <2>2 DEF Acquire
    <3>4. gone' = gone BY <2>2 DEF Acquire
    <3>5. QED BY <3>1, <3>2, <3>3, <3>4, OneContext
  <2>3. CASE Setup(r)
    <3>1. CASE curl' = [curl EXCEPT ![r].at = "perform"]
      <4>1. GoodContext([c EXCEPT !.at = "perform"], r)
        BY <2>0, <2>3, MovedContext DEF Setup, At
      <4>2. curl' = [curl EXCEPT ![r] = [c EXCEPT !.at = "perform"]] BY <3>1
      <4>3. QED BY <2>3, <4>1, <4>2, OneContext DEF Setup
    <3>2. CASE \E e \in {"500", "503"} : Release([curl EXCEPT ![r] = Ended(@, e)])
      BY <2>0, <2>3, <3>2, ReleaseContexts DEF Setup, At
    <3>3. QED BY <2>3, <3>1, <3>2 DEF Setup
  <2>4. CASE PerformReturns(r)
    <3>1. PICK l \in {"check", "finish"} :
             /\ curl' = [curl EXCEPT ![r] = [c EXCEPT !.at = l]]
             /\ l = "finish" => c.transfer # "running"
      BY <2>4 DEF PerformReturns, Running, At
    <3>2. GoodContext([c EXCEPT !.at = l], r)
      BY <2>0, <2>4, <3>1, MovedContext DEF PerformReturns, At
    <3>3. QED BY <2>4, <3>1, <3>2, OneContext DEF PerformReturns
  <2>5. CASE Poll(r)
    <3>1. CASE r \in gone
      <4>1. curl' = [curl EXCEPT ![r] = [c EXCEPT !.abort = "cancelled", !.at = "finish"]]
        BY <2>5, <3>1 DEF Poll
      <4>2. GoodContext([c EXCEPT !.abort = "cancelled", !.at = "finish"], r)
        BY <2>0, <2>5, <3>1, AbortedContext DEF Poll, At
      <4>3. QED BY <2>5, <4>1, <4>2, OneContext DEF Poll
    <3>2. CASE r \notin gone
      <4>1. curl' = [curl EXCEPT ![r] = [c EXCEPT !.at = "perform"]]
        BY <2>5, <3>2 DEF Poll
      <4>2. GoodContext([c EXCEPT !.at = "perform"], r)
        BY <2>0, <2>5, MovedContext DEF Poll, At
      <4>3. QED BY <2>5, <4>1, <4>2, OneContext DEF Poll
    <3>3. QED BY <3>1, <3>2
  <2>6. CASE Finish(r)
    BY <2>0, <2>6, OutcomesType, ReleaseContexts DEF Finish, At
  <2>7. CASE DeadlineAborts(r)
    <3>1. PICK d \in {PhaseDeadline(c)} \cup (IF limited THEN {"total"} ELSE {}) :
             curl' = [curl EXCEPT ![r].abort = IF r \in gone THEN "cancelled" ELSE d,
                                  ![r].at = "finish"]
      BY <2>7 DEF DeadlineAborts
    <3> DEFINE reason == IF r \in gone THEN "cancelled" ELSE d
    <3>2. GoodContext([c EXCEPT !.abort = reason, !.at = "finish"], r)
      BY <2>0, <2>7, <3>1, AbortedContext DEF DeadlineAborts, At
    <3>3. curl' = [curl EXCEPT ![r] = [c EXCEPT !.abort = reason, !.at = "finish"]]
      BY <3>1 DEF CurlInv
    <3>4. QED BY <2>7, <3>2, <3>3, OneContext DEF DeadlineAborts
  <2>8. CASE FinishFails(r)
    BY <2>0, <2>8, ReleaseContexts DEF FinishFails, At
  <2>9. CASE PerformFails(r)
    BY <2>0, <2>9, ReleaseContexts DEF PerformFails, At
  <2>10. CASE ProgressCallback(r)
    BY <2>0, <2>10, ProgressContext, OneContext DEF ProgressCallback, Callback, At
  <2>11. CASE SocketCallback(r)
    <3>1. GoodContext([c EXCEPT !.transfer = "failed"], r)
      BY <2>0, <2>11, EndedTransferContext DEF SocketCallback, Running, At
    <3>2. GoodContext([c EXCEPT !.phase = 1], r)
      BY <2>0, <2>11, PhaseContext DEF SocketCallback, Running, At
    <3>3. QED BY <2>11, <3>1, <3>2, OneContext DEF SocketCallback, Callback
  <2>12. CASE HeaderCallback(r)
    <3>1. c.at = "perform" /\ c.transfer = "running" /\ gone' = gone
      BY <2>12 DEF HeaderCallback, Running, At, Callback
    <3>2. PICK d : /\ curl' = [curl EXCEPT ![r] = d]
                   /\ \/ c.part = "none" /\ d \in StatusLine(c)
                      \/ d \in HeaderLine(c)
                      \/ c.part = "header" /\ d \in BlankLine(c)
      BY <2>12 DEF HeaderCallback, Callback
    <3>3. GoodContext(d, r)
      BY <2>0, <3>1, <3>2, StatusLineContext, HeaderLineContext, BlankLineContext
    <3>4. QED BY <3>1, <3>2, <3>3, OneContext
  <2>13. CASE BodyCallback(r)
    <3>1. c.at = "perform" /\ c.transfer = "running" /\ c.part = "body" /\ gone' = gone
      BY <2>13 DEF BodyCallback, Running, At, Callback
    <3>2. PICK d \in IF r \in gone THEN {Refuse([c EXCEPT !.pieces = @ + 1], "cancelled")}
                     ELSE Piece([c EXCEPT !.pieces = @ + 1]) :
             curl' = [curl EXCEPT ![r] = d]
      BY <2>13 DEF BodyCallback, Callback
    <3>3. GoodContext(d, r) BY <2>0, <3>1, <3>2, PieceContext
    <3>4. QED BY <3>1, <3>2, <3>3, OneContext
  <2>14. CASE TransferEnds(r)
    BY <2>0, <2>14, EndedTransferContext, OneContext DEF TransferEnds, Callback, Running, At
  <2>15. CASE ClientCancels(r)
    BY <2>15 DEF ClientCancels, CurlInv, GoodContext, Leased, Received, ReasonTrue, PhaseDeadline
  <2>16. QED
    BY <1>2, <2>1, <2>2, <2>3, <2>4, <2>5, <2>6, <2>7, <2>8, <2>9, <2>10, <2>11,
       <2>12, <2>13, <2>14, <2>15 DEF Thread
<1>3. QED BY <1>1, <1>2 DEF CurlNext

\* The outcome a finishing request reports is true of its context.
LEMMA OutcomeTrue ==
    ASSUME NEW c, NEW r, GoodContext(c, r), c.at = "finish",
           NEW o \in Outcomes(c, r \in gone)
    PROVE  /\ o = "complete" =>
                 /\ c.part = "body" /\ c.transfer = "ok" /\ c.abort = "none"
                 /\ c.streaming \/ c.body = c.pieces
           /\ o = "stopped" => c.streaming
           /\ o = "499" => r \in gone
           /\ o \in Timeouts \ {"total"} => o = PhaseDeadline(c)
<1>1. c \in Contexts /\ Received(c) /\ ReasonTrue(c, r) BY DEF GoodContext
<1>2. PhaseDeadline(c) \in Timeouts \ {"total"} BY <1>1, PhaseDeadlineType
<1>3. CurlTimeout(c) \subseteq {"total", PhaseDeadline(c)} BY DEF CurlTimeout
<1> DEFINE reason == Reason(c, r \in gone)
<1>4. /\ reason \in Aborts
      /\ reason = "none" => c.abort = "none"
      /\ reason = "stopped" => c.streaming
      /\ reason = "cancelled" => r \in gone
      /\ reason \in Timeouts => reason \in {"total", PhaseDeadline(c)}
  BY <1>1 DEF Reason, ReasonTrue, Contexts, Aborts, Timeouts
<1>5. CASE reason = "none"
  <2>1. c.transfer # "running" BY <1>1, <1>4, <1>5 DEF ReasonTrue
  <2>2. CASE c.transfer = "timeout"
    <3>1. o \in CurlTimeout(c) BY <1>5, <2>2 DEF Outcomes, Timeouts
    <3>2. QED BY <1>2, <1>3, <3>1 DEF Timeouts
  <2>3. CASE c.transfer = "failed"
    BY <1>5, <2>3 DEF Outcomes, Timeouts
  <2>4. CASE c.transfer = "ok" /\ c.part # "body"
    BY <1>5, <2>4 DEF Outcomes, Timeouts
  <2>5. CASE c.transfer = "ok" /\ c.part = "body"
    <3>1. o \in {"complete", "502"} BY <1>5, <2>5 DEF Outcomes, Timeouts
    <3>2. QED BY <1>1, <1>4, <1>5, <2>5, <3>1 DEF Received, Timeouts
  <2>6. QED BY <1>1, <2>1, <2>2, <2>3, <2>4, <2>5 DEF Contexts
<1>6. CASE reason # "none"
  <2>1. o = "stopped" => reason = "stopped" BY <1>4, <1>6 DEF Outcomes, Aborts, Timeouts
  <2>2. o = "499" => reason = "cancelled" BY <1>4, <1>6 DEF Outcomes, Aborts, Timeouts
  <2>3. o # "complete" BY <1>4, <1>6 DEF Outcomes, Aborts, Timeouts
  <2>4. o \in Timeouts => reason \in Timeouts /\ o = reason
    BY <1>4, <1>6 DEF Outcomes, Aborts, Timeouts
  <2>5. QED BY <1>4, <2>1, <2>2, <2>3, <2>4
<1>7. QED BY <1>5, <1>6

\* How a request comes to its end.
LEMMA HowRequestsEnd ==
    ASSUME CurlInv, CurlNext, NEW q \in Requests,
           curl'[q] # curl[q], curl'[q].at = "done"
    PROVE  \/ curl'[q].outcome \in {"500", "502", "503"}
           \/ curl'[q].outcome = "499" /\ q \in gone
           \/ /\ curl[q].at = "finish"
              /\ curl'[q].outcome \in Outcomes(curl[q], q \in gone)
<1>1. PICK r \in Requests :
             \/ Thread(r) \/ DeadlineAborts(r) \/ FinishFails(r) \/ PerformFails(r)
             \/ ProgressCallback(r) \/ SocketCallback(r) \/ HeaderCallback(r)
             \/ BodyCallback(r) \/ TransferEnds(r) \/ ClientCancels(r)
  BY DEF CurlNext
<1> DEFINE c == curl[r]
<1>2. /\ GoodContext(c, r) /\ c \in Contexts /\ curl[q] \in Contexts
      /\ curl \in [Requests -> Contexts]
  BY DEF CurlInv, GoodContext
<1>3. \A o : Ended(c, o).outcome = o BY DEF Ended, Context
\* A step that leaves the other requests alone and does not end its own.
<1>4. ASSUME NEW d, curl' = [curl EXCEPT ![r] = d]
      PROVE  q = r /\ curl'[q] = d
  BY <1>2, <1>4
\* A step that ends one request may wake others, which does not end them.
<1>5. ASSUME NEW o, NEW ws, curl' = Woken([curl EXCEPT ![r] = Ended(@, o)], ws)
      PROVE  q = r /\ curl'[q].outcome = o
  <2>1. CASE q \in ws
    <3>1. curl'[q].at = "acquire"
      <4>1. curl'[q] = [[curl EXCEPT ![r] = Ended(@, o)][q] EXCEPT !.at = "acquire"]
        BY <1>5, <2>1 DEF Woken
      <4>2. CASE q = r
        <5>1. curl'[q] = [Ended(c, o) EXCEPT !.at = "acquire"] BY <1>2, <4>1, <4>2
        <5>2. QED BY <5>1 DEF Ended, Context
      <4>3. CASE q # r BY <1>2, <4>1, <4>3 DEF Contexts
      <4>4. QED BY <4>2, <4>3
    <3>2. QED BY <3>1
  <2>2. CASE q \notin ws
    <3>1. curl'[q] = [curl EXCEPT ![r] = Ended(@, o)][q] BY <1>5, <2>2 DEF Woken
    <3>2. QED BY <1>2, <1>3, <3>1
  <2>3. QED BY <2>1, <2>2
<1>6. ASSUME NEW o, \/ Release([curl EXCEPT ![r] = Ended(@, o)])
                    \/ Discard([curl EXCEPT ![r] = Ended(@, o)])
      PROVE  q = r /\ curl'[q].outcome = o
  <2>1. CASE curl' = [curl EXCEPT ![r] = Ended(@, o)] BY <1>2, <1>3, <2>1
  <2>2. CASE \E w \in Sleepers : curl' = Woken([curl EXCEPT ![r] = Ended(@, o)], {w})
    BY <1>5, <2>2
  <2>3. CASE curl' = Woken([curl EXCEPT ![r] = Ended(@, o)], Sleepers) BY <1>5, <2>3
  <2>4. QED BY <1>6, <2>1, <2>2, <2>3 DEF Release, Discard
<1>7. \A l : [c EXCEPT !.at = l].at = l BY <1>2 DEF Contexts
<1>8. CASE Begin(r)
  <2>1. CASE r \in gone
    <3>1. curl' = [curl EXCEPT ![r] = Ended(c, "499")] BY <1>8, <2>1 DEF Begin
    <3>2. QED BY <1>3, <1>4, <2>1, <3>1
  <2>2. CASE r \notin gone
    <3>1. curl' = [curl EXCEPT ![r] = [c EXCEPT !.at = "acquire"]] BY <1>8, <2>2 DEF Begin
    <3>2. QED BY <1>4, <1>7, <3>1
  <2>3. QED BY <2>1, <2>2
<1>9. CASE Acquire(r)
  <2>1. \/ curl' = [curl EXCEPT ![r] = Ended(c, "500")]
        \/ \E l \in {"setup", "asleep"} : curl' = [curl EXCEPT ![r] = [c EXCEPT !.at = l]]
    BY <1>9 DEF Acquire
  <2>2. QED BY <1>3, <1>4, <1>7, <2>1, ZenonT(60)
<1>10. CASE Setup(r)
  <2>1. CASE curl' = [curl EXCEPT ![r].at = "perform"]
    <3>1. curl' = [curl EXCEPT ![r] = [c EXCEPT !.at = "perform"]] BY <2>1
    <3>2. QED BY <1>4, <1>7, <3>1
  <2>2. QED BY <1>6, <1>10, <2>1 DEF Setup
<1>11. CASE PerformReturns(r)
  <2>1. PICK l \in {"check", "finish"} : curl' = [curl EXCEPT ![r] = [c EXCEPT !.at = l]]
    BY <1>11 DEF PerformReturns
  <2>2. QED BY <1>4, <1>7, <2>1
<1>12. CASE Poll(r)
  <2>1. CASE r \in gone
    <3>1. curl' = [curl EXCEPT ![r] = [c EXCEPT !.abort = "cancelled", !.at = "finish"]]
      BY <1>12, <2>1 DEF Poll
    <3>2. [c EXCEPT !.abort = "cancelled", !.at = "finish"].at = "finish" BY <1>2 DEF Contexts
    <3>3. QED BY <1>4, <3>1, <3>2
  <2>2. CASE r \notin gone
    <3>1. curl' = [curl EXCEPT ![r] = [c EXCEPT !.at = "perform"]] BY <1>12, <2>2 DEF Poll
    <3>2. QED BY <1>4, <1>7, <3>1
  <2>3. QED BY <2>1, <2>2
<1>13. CASE Finish(r) BY <1>6, <1>13 DEF Finish, At
<1>14. CASE DeadlineAborts(r)
  <2>1. PICK d : curl' = [curl EXCEPT ![r].abort = IF r \in gone THEN "cancelled" ELSE d,
                                      ![r].at = "finish"]
    BY <1>14 DEF DeadlineAborts
  <2> DEFINE a == IF r \in gone THEN "cancelled" ELSE d
  <2>2. curl' = [curl EXCEPT ![r] = [c EXCEPT !.abort = a, !.at = "finish"]] BY <1>2, <2>1
  <2>3. [c EXCEPT !.abort = a, !.at = "finish"].at = "finish" BY <1>2 DEF Contexts
  <2>4. QED BY <1>4, <2>2, <2>3
<1>15. CASE FinishFails(r) BY <1>6, <1>15 DEF FinishFails
<1>16. CASE PerformFails(r) BY <1>6, <1>16 DEF PerformFails
<1>17. CASE ProgressCallback(r)
  BY <1>2, <1>4, <1>17, ProgressContext DEF ProgressCallback, Callback, At
<1>18. CASE SocketCallback(r)
  <2>1. c.at = "perform" BY <1>18 DEF SocketCallback, Running, At
  <2>2. PICK d \in {[c EXCEPT !.phase = 1], [c EXCEPT !.transfer = "failed"]} :
           curl' = [curl EXCEPT ![r] = d]
    BY <1>18 DEF SocketCallback, Callback
  <2>3. d.at = "perform" BY <1>2, <2>1, <2>2 DEF Contexts
  <2>4. QED BY <1>4, <2>2, <2>3
<1>19. CASE HeaderCallback(r)
  <2>1. c.at = "perform" /\ c.transfer = "running"
    BY <1>19 DEF HeaderCallback, Running, At
  <2>2. PICK d : /\ curl' = [curl EXCEPT ![r] = d]
                 /\ \/ c.part = "none" /\ d \in StatusLine(c)
                    \/ d \in HeaderLine(c)
                    \/ c.part = "header" /\ d \in BlankLine(c)
    BY <1>19 DEF HeaderCallback, Callback
  <2>3. d.at = "perform"
    BY <1>2, <2>1, <2>2, StatusLineContext, HeaderLineContext, BlankLineContext
  <2>4. QED BY <1>4, <2>2, <2>3
<1>20. CASE BodyCallback(r)
  <2>1. c.at = "perform" /\ c.transfer = "running" /\ c.part = "body"
    BY <1>20 DEF BodyCallback, Running, At
  <2>2. PICK d \in IF r \in gone THEN {Refuse([c EXCEPT !.pieces = @ + 1], "cancelled")}
                   ELSE Piece([c EXCEPT !.pieces = @ + 1]) :
           curl' = [curl EXCEPT ![r] = d]
    BY <1>20 DEF BodyCallback, Callback
  <2>3. d.at = "perform" BY <1>2, <2>1, <2>2, PieceContext
  <2>4. QED BY <1>4, <2>2, <2>3
<1>21. CASE TransferEnds(r)
  <2>1. c.at = "perform" BY <1>21 DEF TransferEnds, Running, At
  <2>2. PICK t \in {"ok", "failed",
          "timeout"} : curl' = [curl EXCEPT ![r] = [c EXCEPT !.transfer = t]]
    BY <1>21 DEF TransferEnds, Callback
  <2>3. [c EXCEPT !.transfer = t].at = "perform" BY <1>2, <2>1 DEF Contexts
  <2>4. QED BY <1>4, <2>2, <2>3
<1>22. CASE ClientCancels(r) BY <1>22 DEF ClientCancels
<1>23. QED
  BY <1>1, <1>8, <1>9, <1>10, <1>11, <1>12, <1>13, <1>14, <1>15, <1>16, <1>17, <1>18,
     <1>19, <1>20, <1>21, <1>22 DEF Thread

\* A request that has ended is not touched again.
LEMMA EndedStays ==
    ASSUME CurlInv, CurlNext, NEW q \in Requests, curl[q].at = "done"
    PROVE  curl'[q] = curl[q]
<1>1. PICK r \in Requests :
             \/ Thread(r) \/ DeadlineAborts(r) \/ FinishFails(r) \/ PerformFails(r)
             \/ ProgressCallback(r) \/ SocketCallback(r) \/ HeaderCallback(r)
             \/ BodyCallback(r) \/ TransferEnds(r) \/ ClientCancels(r)
  BY DEF CurlNext
<1>2. CASE ClientCancels(r) BY <1>2 DEF ClientCancels
<1>3. CASE ~ClientCancels(r)
  <2>1. curl[r].at # "done"
    BY <1>1, <1>3 DEF Thread, Begin, Acquire, Setup, PerformReturns, Poll, Finish,
       DeadlineAborts, FinishFails, PerformFails, ProgressCallback, SocketCallback,
       HeaderCallback, BodyCallback, TransferEnds, Running, At
  <2>2. q # r /\ q \notin Sleepers BY <2>1 DEF Sleepers, At
  <2>3. \A d : [curl EXCEPT ![r] = d][q] = curl[q] BY <2>2 DEF CurlInv
  <2>4. \A d, ws : ws \subseteq Sleepers => Woken([curl EXCEPT ![r] = d], ws)[q] = curl[q]
    BY <2>2, <2>3 DEF Woken
  <2>5. \A o : Release([curl EXCEPT ![r] = Ended(@, o)]) \/ Discard([curl EXCEPT ![r] = Ended(@,
          o)])
                 => curl'[q] = curl[q]
    <3> SUFFICES ASSUME NEW o, \/ Release([curl EXCEPT ![r] = Ended(@, o)])
                               \/ Discard([curl EXCEPT ![r] = Ended(@, o)])
                 PROVE  curl'[q] = curl[q]
      OBVIOUS
    <3>1. CASE curl' = [curl EXCEPT ![r] = Ended(@, o)] BY <2>3, <3>1
    <3>2. CASE \E w \in Sleepers : curl' = Woken([curl EXCEPT ![r] = Ended(@, o)], {w})
      <4>1. PICK w \in Sleepers : curl' = Woken([curl EXCEPT ![r] = Ended(@, o)], {w}) BY <3>2
      <4>2. QED BY <2>4, <4>1
    <3>3. CASE curl' = Woken([curl EXCEPT ![r] = Ended(@, o)], Sleepers) BY <2>4, <3>3
    <3>4. QED BY <3>1, <3>2, <3>3 DEF Release, Discard
  <2>6. CASE Thread(r)
    BY <2>2, <2>5, <2>6 DEF CurlInv, Thread, Begin, Acquire, Setup, PerformReturns, Poll, Finish
  <2>7. CASE DeadlineAborts(r)
    BY <2>2, <2>7 DEF CurlInv, DeadlineAborts
  <2>8. CASE FinishFails(r) \/ PerformFails(r) BY <2>5, <2>8 DEF FinishFails, PerformFails
  <2>9. CASE \/ ProgressCallback(r) \/ SocketCallback(r) \/ HeaderCallback(r)
             \/ BodyCallback(r) \/ TransferEnds(r)
    BY <2>3, <2>9 DEF ProgressCallback, SocketCallback, HeaderCallback, BodyCallback,
       TransferEnds, Callback
  <2>10. QED BY <1>1, <1>3, <2>6, <2>7, <2>8, <2>9
<1>4. QED BY <1>2, <1>3

\* What a step of libcurl's transport reports is true.
LEMMA CurlOutcomeStep ==
    CurlInv /\ CurlInv' /\ [CurlNext]_curlVars
        => [\A r \in Requests : CurlOutcomeTrue(r)]_curlVars
<1> SUFFICES ASSUME CurlInv, CurlInv', CurlNext, NEW r \in Requests,
                    curl'[r].outcome # curl[r].outcome
             PROVE  CurlOutcomeTrue(r)
  BY DEF CurlOutcomeTrue
<1>1. curl[r].at # "done" BY EndedStays
<1>2. curl[r].outcome = "none" BY <1>1 DEF CurlInv, GoodContext
<1>3. curl'[r].at = "done" BY <1>2 DEF CurlInv, GoodContext
<1>4. GoodContext(curl[r], r) BY DEF CurlInv
<1>5. CASE curl'[r].outcome \in {"500", "502", "503"}
  BY <1>5 DEF CurlOutcomeTrue, Timeouts
<1>6. CASE curl'[r].outcome = "499" /\ r \in gone
  BY <1>6 DEF CurlOutcomeTrue, Timeouts
<1>7. CASE curl[r].at = "finish" /\ curl'[r].outcome \in Outcomes(curl[r], r \in gone)
  BY <1>4, <1>7, OutcomeTrue DEF CurlOutcomeTrue
<1>8. QED BY <1>3, <1>5, <1>6, <1>7, HowRequestsEnd

-----------------------------------------------------------------------------
(* WinHttpTransport *)

BeforeBody == {"start", "session", "connect", "register", "send", "receive", "status"}

WinType ==
    /\ rpc \in BeforeBody \cup {"query", "available", "read", "deliver", "done"}
    /\ stream \in BOOLEAN
    /\ asked \in Nat /\ body \in Nat /\ lease \in Nat /\ sent \in Nat
    /\ handle \in {"none", "open", "closed"}
    /\ timer \in [Deadline -> {"off", "armed", "firing", "fired"}]
    /\ token \in {"live", "cancelled", "called"}

\* Memory is held for the bytes that are read or about to be, in each step of
\* the request thread, and no more bytes are read than upstream sent.
WinMemory ==
    /\ body <= sent
    /\ rpc \in BeforeBody => body = 0 /\ lease = 0
    /\ rpc = "deliver" => stream
    /\ WinLeaseExact

\* The handle is opened once and closed by the first who takes it.
WinHandle ==
    /\ rpc \in {"start", "session", "connect"} => handle = "none"
    /\ handle # "closed" => closers = {}
    /\ \E who : closers \subseteq {who}

WinReported ==
    /\ rpc # "done" => outcome = "none"
    /\ outcome = "complete" => upstream = "ended" /\ body = sent
    /\ outcome = "499" => Cancelled
    /\ outcome = "504 total" => TimedOut("total")

WinInv == WinType /\ WinMemory /\ WinHandle /\ WinReported

\* The request thread ends: its destructors run.
LEMMA UnwindKeeps ==
    ASSUME WinInv, rpc # "done", NEW result, Unwind(result), result # "none",
           result = "complete" => rpc = "available" /\ upstream = "ended" /\ body = sent,
           result = "499" => Cancelled,
           result = "504 total" => TimedOut("total"),
           closers' = closers \/ (handle = "open" /\ closers' = closers \cup {"cancelled"})
    PROVE  WinInv'
<1> USE DEF WinInv
<1>1. WinType'
  <2>1. lease' \in Nat BY DEF Unwind, WinType
  <2>2. timer' \in [Deadline -> {"off", "armed", "firing", "fired"}]
    BY DEF Unwind, WinType
  <2>3. QED BY <2>1, <2>2 DEF Unwind, WinType, peer
<1>2. WinMemory'
  <2>1. lease' = IF result = "complete" /\ ~stream THEN body ELSE 0
    BY DEF Unwind, WinMemory, WinLeaseExact
  <2>2. QED BY <2>1 DEF Unwind, WinMemory, WinLeaseExact, BeforeBody, peer
<1>3. WinHandle'
  <2>1. /\ rpc' = "done" /\ (handle' # "closed" => handle' = handle /\ handle # "open")
    BY DEF Unwind
  <2>2. CASE closers' = closers BY <2>1, <2>2 DEF WinHandle
  <2>3. CASE handle = "open" /\ closers' = closers \cup {"cancelled"}
    <3>1. closers' \subseteq {"cancelled"} BY <2>3 DEF WinHandle
    <3>2. QED BY <2>1, <2>3, <3>1 DEF WinHandle
  <2>4. QED BY <2>2, <2>3
<1>4. WinReported'
  <2>1. TimedOut("total") => TimedOut("total")'
    BY DEF Unwind, WinType, TimedOut, Deadline
  <2>2. QED BY <2>1 DEF Unwind, WinReported, Cancelled, peer
<1>5. QED BY <1>1, <1>2, <1>3, <1>4

LEMMA EndKeeps ==
    ASSUME WinInv, rpc # "done", NEW result, End(result), result # "none",
           result = "complete" => rpc = "available" /\ upstream = "ended" /\ body = sent,
           result = "499" => Cancelled,
           result = "504 total" => TimedOut("total")
    PROVE  WinInv'
BY UnwindKeeps DEF End

\* The reports of a failed call blame the deadline or the cancellation that
\* has happened.
LEMMA ErrorsTrue ==
    ASSUME NEW own \in BOOLEAN,
           NEW e \in {SendError(own), HeaderError(own), BodyError(own)}
    PROVE  /\ e \notin {"none", "complete"}
           /\ e = "499" => Cancelled
           /\ e = "504 total" => TimedOut("total")
BY DEF SendError, HeaderError, BodyError

\* A step of the request thread that does not end it.
LEMMA GoesOn ==
    ASSUME WinInv, rpc # "done", rpc' # "done", outcome' = outcome, token' = token,
           WinType', WinMemory', closers' = closers, handle' = handle,
           rpc' \notin {"start", "session", "connect"}
    PROVE  WinInv'
<1>1. WinHandle' BY DEF WinInv, WinHandle
<1>2. outcome' = "none" BY DEF WinInv, WinReported
<1>3. WinReported' BY <1>2 DEF WinReported
<1>4. QED BY <1>1, <1>3 DEF WinInv

\* Every step of the request thread, of the timers, of the cancellation and
\* of upstream keeps the memory, the handle and the report in order.
LEMMA WinStep == WinInv /\ [WinNext]_winVars => WinInv'
<1> SUFFICES ASSUME WinInv, [WinNext]_winVars PROVE WinInv'
  OBVIOUS
<1> USE DEF WinInv
<1>0. CASE UNCHANGED winVars
  BY <1>0, ZenonT(60) DEF winVars, request, closing, peer, WinType, WinMemory, WinLeaseExact,
     WinHandle,
     WinReported, Cancelled, TimedOut
<1>1. CASE Start
  <2>1. CASE Cancelled BY <1>1, <2>1, EndKeeps DEF Start
  <2>2. CASE ~Cancelled
    BY <1>1, <2>2 DEF Start, RequestAt, peer, WinType, WinMemory, WinLeaseExact, WinHandle,
       WinReported, BeforeBody
  <2>3. QED BY <2>1, <2>2
<1>2. CASE SessionForRequest
  <2>1. CASE End("502") BY <1>2, <2>1, EndKeeps DEF SessionForRequest
  <2>2. CASE ~End("502")
    BY <1>2, <2>2 DEF SessionForRequest, RequestAt, peer, WinType, WinMemory, WinLeaseExact,
       WinHandle, WinReported, BeforeBody
  <2>3. QED BY <2>1, <2>2
<1>3. CASE Connect
  BY <1>3 DEF Connect, RequestAt, peer, WinType, WinMemory, WinLeaseExact, WinHandle,
     WinReported, BeforeBody
<1>4. CASE ConnectFails BY <1>4, EndKeeps DEF ConnectFails
<1>5. CASE Register
  <2>1. CASE Cancelled
    <3>1. /\ rpc = "register" /\ Unwind("499")
          /\ closers' = closers \/ (handle = "open" /\ closers' = closers \cup {"cancelled"})
      BY <1>5, <2>1 DEF Register
    <3>2. QED BY <2>1, <3>1, UnwindKeeps
  <2>2. CASE ~Cancelled
    <3>1. WinType'
      <4>1. timer' \in [Deadline -> {"off", "armed", "firing", "fired"}]
        BY <1>5, <2>2 DEF Register, Arm, WinType
      <4>2. QED BY <1>5, <2>2, <4>1 DEF Register, WinType, BeforeBody, peer
    <3>2. WinMemory'
      BY <1>5, <2>2 DEF Register, WinMemory, WinLeaseExact, BeforeBody, peer
    <3>3. QED BY <1>5, <2>2, <3>1, <3>2, GoesOn DEF Register
  <2>3. QED BY <2>1, <2>2
<1>6. CASE Send
  <2>1. WinType'
    <3>1. timer' \in [Deadline -> {"off", "armed", "firing", "fired"}]
      BY <1>6 DEF Send, Arm, WinType
    <3>2. QED BY <1>6, <3>1 DEF Send, RequestAt, WinType, BeforeBody, peer
  <2>2. WinMemory' BY <1>6 DEF Send, RequestAt, WinMemory, WinLeaseExact, BeforeBody, peer
  <2>3. QED BY <1>6, <2>1, <2>2, GoesOn DEF Send, RequestAt
<1>7. CASE SendFails \/ ConfigureFails
  <2>1. CASE SendFails BY <2>1, EndKeeps, ErrorsTrue DEF SendFails
  <2>2. CASE ConfigureFails BY <2>2, EndKeeps DEF ConfigureFails
  <2>3. QED BY <1>7, <2>1, <2>2
<1>8. CASE Receive
  <2>1. CASE TimedOut("header") BY <1>8, <2>1, EndKeeps DEF Receive
  <2>2. CASE ~TimedOut("header")
    <3>1. WinType'
      <4>1. timer' \in [Deadline -> {"off", "armed", "firing", "fired"}]
        BY <1>8, <2>2 DEF Receive, Disarm, WinType
      <4>2. QED BY <1>8, <2>2, <4>1 DEF Receive, RequestAt, WinType, BeforeBody, peer
    <3>2. WinMemory'
      BY <1>8, <2>2 DEF Receive, RequestAt, WinMemory, WinLeaseExact, BeforeBody, peer
    <3>3. QED BY <1>8, <2>2, <3>1, <3>2, GoesOn DEF Receive, RequestAt
  <2>3. QED BY <2>1, <2>2
<1>9. CASE ReceiveFails BY <1>9, EndKeeps, ErrorsTrue DEF ReceiveFails
<1>10. CASE StatusFails BY <1>10, EndKeeps DEF StatusFails
<1>11. ASSUME NEW s \in BOOLEAN, Status(s) PROVE WinInv'
  <2>1. WinType' BY <1>11 DEF Status, RequestAt, WinType, peer
  <2>2. WinMemory' BY <1>11 DEF Status, RequestAt, WinMemory, WinLeaseExact, BeforeBody, peer
  <2>3. QED BY <1>11, <2>1, <2>2, GoesOn DEF Status, RequestAt
<1>12. CASE SenderRefuses BY <1>12, EndKeeps DEF SenderRefuses
<1>13. CASE Query
  <2>1. WinType'
    <3>1. timer' \in [Deadline -> {"off", "armed", "firing", "fired"}]
      BY <1>13 DEF Query, Arm, WinType
    <3>2. QED BY <1>13, <3>1 DEF Query, RequestAt, WinType, peer
  <2>2. WinMemory' BY <1>13 DEF Query, RequestAt, WinMemory, WinLeaseExact, BeforeBody, peer
  <2>3. QED BY <1>13, <2>1, <2>2, GoesOn DEF Query, RequestAt
<1>14. CASE QueryFails BY <1>14, EndKeeps, ErrorsTrue DEF QueryFails
<1>15. CASE QueryEnds BY <1>15, EndKeeps DEF QueryEnds
<1>16. CASE TooLarge BY <1>16, EndKeeps DEF TooLarge
<1>17. CASE Reserve
  <2>1. asked' \in Nat
    <3>1. Available \in Nat /\ ReadSize \in Nat
      BY <1>17, WinHttpAssumption DEF Reserve, Available, WinType, WinMemory
    <3>2. Min({Available, ReadSize}) \in {Available, ReadSize}
      <4>1. \E x \in {Available, ReadSize} : \A y \in {Available, ReadSize} : x <= y
        BY <3>1
      <4>2. QED BY <4>1 DEF Min
    <3>3. QED BY <1>17, <3>1, <3>2 DEF Reserve
  <2>2. WinType'
    <3>1. timer' \in [Deadline -> {"off", "armed", "firing", "fired"}]
      BY <1>17 DEF Reserve, Arm, WinType
    <3>2. QED BY <1>17, <2>1, <3>1 DEF Reserve, RequestAt, WinType, peer
  <2>3. WinMemory'
    BY <1>17, <2>1 DEF Reserve, RequestAt, WinMemory, WinLeaseExact, BeforeBody, peer, WinType
  <2>4. QED BY <1>17, <2>2, <2>3, GoesOn DEF Reserve, RequestAt
<1>18. CASE BudgetRefuses BY <1>18, EndKeeps DEF BudgetRefuses
<1>19. CASE ReadFails BY <1>19, EndKeeps, ErrorsTrue DEF ReadFails
<1>20. CASE Deliver
  <2>1. WinType' BY <1>20 DEF Deliver, RequestAt, WinType, peer
  <2>2. WinMemory' BY <1>20 DEF Deliver, RequestAt, WinMemory, WinLeaseExact, BeforeBody, peer
  <2>3. QED BY <1>20, <2>1, <2>2, GoesOn DEF Deliver, RequestAt
<1>21. ASSUME NEW n \in 1 .. ReadSize, Read(n) PROVE WinInv'
  <2>1. n \in Nat /\ n <= asked /\ n <= sent - body
    BY <1>21, WinHttpAssumption DEF Read, Available, WinType
  <2>2. lease = asked + (IF stream THEN 0 ELSE body) BY <1>21 DEF Read, WinMemory, WinLeaseExact
  <2>3. /\ lease' = n + (IF stream THEN 0 ELSE body) /\ lease' \in Nat
        /\ body' = body + n /\ body' \in Nat /\ asked' = 0 /\ body' <= sent
    BY <1>21, <2>1, <2>2 DEF Read, WinType
  <2>4. WinType' BY <1>21, <2>3 DEF Read, RequestAt, WinType, peer
  <2>5. WinMemory'
    BY <1>21, <2>1, <2>3 DEF Read, RequestAt, WinMemory, WinLeaseExact, BeforeBody, peer, WinType
  <2>6. QED BY <1>21, <2>4, <2>5, GoesOn DEF Read, RequestAt
<1>22. ASSUME NEW d \in Deadline, Expire(d) \/ ExpireCloses(d) PROVE WinInv'
  <2>1. \A e \in Deadline : timer[e] \in {"firing", "fired"} => timer'[e] \in {"firing", "fired"}
    BY <1>22 DEF Expire, ExpireCloses, WinType
  <2>2. timer' \in [Deadline -> {"off", "armed", "firing", "fired"}]
    BY <1>22 DEF Expire, ExpireCloses, WinType
  <2>3. /\ UNCHANGED <<request, token, peer>>
        /\ CloseBy(d) \/ UNCHANGED <<handle, closers>>
    BY <1>22 DEF Expire, ExpireCloses
  <2>4. WinType' BY <2>2, <2>3 DEF WinType, CloseBy, request, peer
  <2>5. WinMemory' BY <2>3 DEF WinMemory, WinLeaseExact, request, peer
  <2>6. WinHandle' BY <2>3 DEF WinHandle, CloseBy, request
  <2>7. WinReported'
    BY <2>1, <2>3 DEF WinReported, Cancelled, TimedOut, Deadline, request, peer
  <2>8. QED BY <2>4, <2>5, <2>6, <2>7
<1>23. CASE Cancel \/ CancelCalls
  <2>1. /\ UNCHANGED <<request, timer, peer>> /\ token' \in {"cancelled", "called"}
        /\ CloseBy("cancelled") \/ UNCHANGED <<handle, closers>>
    BY <1>23 DEF Cancel, CancelCalls
  <2>2. WinType' BY <2>1 DEF WinType, CloseBy, request, peer
  <2>3. WinMemory' BY <2>1 DEF WinMemory, WinLeaseExact, request, peer
  <2>4. WinHandle' BY <2>1 DEF WinHandle, CloseBy, request
  <2>5. WinReported' BY <2>1 DEF WinReported, Cancelled, TimedOut, request, peer
  <2>6. QED BY <2>2, <2>3, <2>4, <2>5
<1>24. CASE UpstreamSends
  <2>1. WinType' /\ WinHandle'
    BY <1>24 DEF UpstreamSends, request, closing, WinType, WinHandle
  <2>2. WinMemory'
    BY <1>24 DEF UpstreamSends, request, closing, WinMemory, WinLeaseExact, WinType
  <2>3. outcome # "complete" BY <1>24 DEF UpstreamSends, WinReported
  <2>4. WinReported'
    BY <1>24, <2>3 DEF UpstreamSends, request, closing, WinReported, Cancelled, TimedOut
  <2>5. QED BY <2>1, <2>2, <2>4
<1>25. ASSUME NEW how \in {"ended", "broken"}, UpstreamStops(how) PROVE WinInv'
  <2>1. WinType' /\ WinMemory' /\ WinHandle'
    BY <1>25 DEF UpstreamStops, request, closing, WinType, WinMemory, WinLeaseExact, WinHandle
  <2>2. WinReported'
    BY <1>25 DEF UpstreamStops, request, closing, WinReported, Cancelled, TimedOut
  <2>3. QED BY <2>1, <2>2
<1> HIDE DEF WinInv
<1>26. CASE RequestStep
  BY <1>26, <1>1, <1>2, <1>3, <1>4, <1>5, <1>6, <1>7, <1>8, <1>9, <1>10, <1>11, <1>12, <1>13,
     <1>14, <1>15, <1>16, <1>17, <1>18, <1>19, <1>20, <1>21 DEF RequestStep
<1>27. QED BY <1>0, <1>22, <1>23, <1>24, <1>25, <1>26 DEF WinNext

-----------------------------------------------------------------------------
(* The transports *)

TransportInv == WinInv /\ CurlInv

LEMMA TransportInitial == TransportInit => TransportInv
<1>1. WinInit \/ WinIdle => WinInv
  <2> SUFFICES ASSUME WinInit \/ WinIdle PROVE WinInv
    OBVIOUS
  <2>1. WinType
    <3>1. timer \in [Deadline -> {"off", "armed", "firing", "fired"}] BY DEF WinInit, WinIdle
    <3>2. stream = FALSE /\ rpc \in {"start", "done"} BY DEF WinInit, WinIdle
    <3>3. asked = 0 /\ body = 0 /\ lease = 0 /\ sent = 0 BY DEF WinInit, WinIdle
    <3>4. handle = "none" /\ token \in {"live", "called"} BY DEF WinInit, WinIdle
    <3>5. QED BY <3>1, <3>2, <3>3, <3>4 DEF WinType, BeforeBody
  <2>2. WinMemory BY DEF WinInit, WinIdle, WinMemory, WinLeaseExact
  <2>3. WinHandle /\ WinReported BY DEF WinInit, WinIdle, WinHandle, WinReported
  <2>4. QED BY <2>1, <2>2, <2>3 DEF WinInv
<1>2. CurlInit \/ CurlIdle => CurlInv
  <2>1. Context \in Contexts /\ Leased(Context) BY FreshContext DEF GoodContext
  <2>2. CASE CurlInit BY <2>1, <2>2, FreshContext DEF CurlInit, CurlInv
  <2>3. CASE CurlIdle
    <3>1. "idle" \in CurlResults BY DEF CurlResults
    <3>2. \A r \in Requests : GoodContext(Ended(Context, "idle"), r)
      BY <2>1, <3>1, EndedContext
    <3>3. QED BY <2>3, <3>2 DEF CurlIdle, CurlInv, GoodContext
  <2>4. QED BY <2>2, <2>3
<1>3. QED BY <1>1, <1>2 DEF TransportInit, TransportInv

LEMMA TransportStep == TransportInv /\ [TransportNext]_transportVars => TransportInv'
<1> SUFFICES ASSUME TransportInv, [TransportNext]_transportVars
             PROVE  TransportInv'
  OBVIOUS
<1>1. [WinNext]_winVars /\ [CurlNext]_curlVars BY DEF TransportNext, transportVars
<1>2. QED BY <1>1, WinStep, CurlStep DEF TransportInv

LEMMA TransportInvariant == TransportSpec => []TransportInv
<1>1. QED BY TransportInitial, TransportStep, PTL DEF TransportSpec

\* On both platforms the memory lease of a response is what the response
\* holds, for every size of reads and buffers, every limit and every number
\* of requests that share the pool of handles.
THEOREM LeaseIsExact == TransportSpec => []LeaseExact
<1>1. TransportInv => LeaseExact
  BY DEF TransportInv, WinInv, WinMemory, CurlInv, GoodContext, Leased, LeaseExact, CurlLeaseExact
<1>2. QED BY <1>1, TransportInvariant, PTL

\* What a request reports is true on both platforms: completeness, the
\* cancellation, the deadline that is blamed, and who closed the handle.
THEOREM OutcomeIsTruthful == TransportSpec => OutcomeTruthful
<1>1. TransportInv => WinOutcomeTruthful
  <2> SUFFICES ASSUME TransportInv PROVE WinOutcomeTruthful
    OBVIOUS
  <2>1. PICK who : closers \subseteq {who} BY DEF TransportInv, WinInv, WinHandle
  <2>2. IsFiniteSet({who}) /\ Cardinality({who}) = 1 BY FS_Singleton
  <2>3. Cardinality(closers) <= 1 BY <2>1, <2>2, FS_Subset
  <2>4. QED BY <2>3 DEF TransportInv, WinInv, WinReported, WinOutcomeTruthful
<1>2. TransportInv /\ TransportInv' /\ [TransportNext]_transportVars
        => [\A r \in Requests : CurlOutcomeTrue(r)]_curlVars
  <2>1. [TransportNext]_transportVars => [CurlNext]_curlVars
    BY DEF TransportNext, transportVars
  <2>2. QED BY <2>1, CurlOutcomeStep DEF TransportInv
<1>3. QED
  BY <1>1, <1>2, TransportInvariant, PTL DEF TransportSpec, OutcomeTruthful, CurlOutcomeTruthful
=============================================================================
