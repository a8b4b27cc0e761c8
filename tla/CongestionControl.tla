-------------------------- MODULE CongestionControl --------------------------
(***************************************************************************)
(* The window-based congestion controllers of crates/net/cc: RFC 9002      *)
(* NewReno (the default) and RFC 9438 CUBIC, as functions of a controller  *)
(* record, so that the transports can keep one inside their own state.     *)
(* Bytes are the unit of every window, as in the code; the pacing rate is  *)
(* left out (it never gates a send on the paths modelled here).            *)
(*                                                                         *)
(* CUBIC's time is counted in a unit in which one segment of growth takes  *)
(* (TimeScale / 4) cubed units: with milliseconds the code has TimeScale = *)
(* 10^10.  BetaNum / BetaDen is the multiplicative decrease (717 / 1024).  *)
(***************************************************************************)
EXTENDS Integers

CONSTANTS
    Mss,           \* sender maximum segment size, in bytes
    InitialWindow, \* initial_window(mss)
    MaxWindow,     \* the ceiling set_max_window left in force
    SlowStartCap,  \* growth allowed to one ACK in slow start; 0 is no cap
    TimeScale,     \* the scaling of CUBIC's time unit
    BetaNum, BetaDen,
    U32Max         \* ssthresh before the first loss

Least(a, b) == IF a < b THEN a ELSE b
Most(a, b) == IF a > b THEN a ELSE b
SatSub(a, b) == IF a < b THEN 0 ELSE a - b

MinimumWindow == 2 * Mss

\* RecoveryEpisode: at most one reduction per round trip.
Idle == [active |-> FALSE, rem |-> 0]
Begin(bytes) == [active |-> TRUE, rem |-> bytes]
AbsorbAck(e, bytes) ==
    IF ~e.active THEN e
    ELSE [active |-> SatSub(e.rem, bytes) # 0, rem |-> SatSub(e.rem, bytes)]

NewReno == [algo |-> "reno", cwnd |-> InitialWindow, ssthresh |-> U32Max, rec |-> Idle]

InSlowStart(r) == r.cwnd < r.ssthresh

\* The growth both controllers share in slow start: never past ssthresh,
\* never more than the cap for one acknowledgement.
SlowStartInc(r, acked) ==
    LET inc == Least(acked, SatSub(r.ssthresh, r.cwnd))
    IN  IF SlowStartCap = 0 THEN inc ELSE Least(inc, SlowStartCap)

NewRenoOnAck(r, acked) ==
    CASE acked = 0 -> r
      [] acked # 0 /\ r.rec.active -> [r EXCEPT !.rec = AbsorbAck(@, acked)]
      [] OTHER ->
           LET inc == IF InSlowStart(r) THEN SlowStartInc(r, acked)
                      ELSE Most((Mss * acked) \div r.cwnd, 1)
           IN  [r EXCEPT !.cwnd = Least(@ + inc, MaxWindow)]

\* A cut that opens no recovery episode.
EnterRecoveryUnmarked(r) ==
    LET half == Most(r.cwnd \div 2, MinimumWindow)
    IN  [r EXCEPT !.ssthresh = half, !.cwnd = half]

\* enter_recovery: the episode lasts for the window there was before the cut.
EnterRecovery(r) ==
    LET half == Most(r.cwnd \div 2, MinimumWindow)
    IN  [r EXCEPT !.rec = Begin(Most(r.cwnd, MinimumWindow)), !.ssthresh = half, !.cwnd = half]

NewRenoOnLoss(r, persistent) ==
    CASE persistent -> [r EXCEPT !.ssthresh = Most(r.cwnd \div 2, MinimumWindow),
                                 !.cwnd = MinimumWindow, !.rec = Begin(MinimumWindow)]
      [] ~persistent /\ r.rec.active -> r
      [] OTHER -> EnterRecovery(r)

-----------------------------------------------------------------------------
(* CUBIC *)

\* icbrt_u128: the floor of the cube root, by Newton's iteration from a power
\* of two above the root, then a correction by single steps.
Cube(n) == n * n * n
Icbrt(x) ==
    LET bits == CHOOSE b \in 1 .. 31 : 2 ^ (b - 1) <= x /\ x < 2 ^ b
        start == 2 ^ ((bits + 2) \div 3)
        newton[y \in 1 .. start] ==
            LET next == (2 * y + x \div (y * y)) \div 3
            IN  IF next >= y THEN y ELSE newton[next]
        down[y \in 0 .. start] == IF Cube(y) <= x THEN y ELSE down[y - 1]
        up[y \in 0 .. start + 1] == IF Cube(y + 1) <= x THEN up[y + 1] ELSE y
    IN  IF x < 8 THEN IF x > 0 THEN 1 ELSE 0 ELSE up[down[newton[start]]]

Cubic ==
    [algo |-> "cubic", cwnd |-> InitialWindow, ssthresh |-> U32Max, rec |-> Idle,
     wMax |-> 0, wLastMax |-> 0, origin |-> 0, k |-> 0, epoch |-> 0]

Clamp(w, lo, hi) == IF w < lo THEN lo ELSE IF w > hi THEN hi ELSE w

\* Division of i128: the quotient is truncated towards zero.
Quot(a, b) == IF a >= 0 THEN a \div b ELSE -((-a) \div b)

WCubic(r, t) ==
    Clamp(r.origin + Quot(Mss * Cube(t - r.k) * 4, TimeScale), MinimumWindow, MaxWindow)

\* The window an AIMD flow would have: the TCP-friendly lower bound.
WEst(r, t, rtt) ==
    Least((r.wMax * BetaNum) \div BetaDen + (921 * t * Mss) \div (1741 * rtt), MaxWindow)

\* The first acknowledgement after a loss starts the epoch.
StartEpoch(r, now) ==
    IF r.epoch # 0 THEN r
    ELSE IF r.cwnd >= r.wMax
         THEN [r EXCEPT !.epoch = Most(now, 1), !.k = 0, !.origin = r.cwnd]
         ELSE [r EXCEPT !.epoch = Most(now, 1), !.origin = r.wMax,
                        !.k = Icbrt(((r.wMax - r.cwnd) * (TimeScale \div 4)) \div Mss)]

CubicTowards(r, target, acked) ==
    LET grown == Most(Least(((target - r.cwnd) * acked) \div r.cwnd, acked), 1)
    IN  IF target > r.cwnd
        THEN [r EXCEPT !.cwnd = Least(@ + grown, target)]
        ELSE [r EXCEPT !.cwnd = @ + (Mss * acked) \div (100 * @)]
CubicTarget(r, t, rtt) == Most(WCubic(r, t + rtt), WEst(r, t, rtt))
CubicEpoch(r, acked, rtt, now) ==
    CubicTowards(r, CubicTarget(r, SatSub(now, r.epoch), rtt), acked)
CubicAvoid(r, acked, rtt, now) == CubicEpoch(StartEpoch(r, now), acked, rtt, now)

CubicOnAck(r, acked, rtt, now) ==
    CASE acked = 0 -> r
      [] acked # 0 /\ r.rec.active -> [r EXCEPT !.rec = AbsorbAck(@, acked)]
      [] OTHER ->
           LET n == IF InSlowStart(r) THEN [r EXCEPT !.cwnd = @ + SlowStartInc(r, acked)]
                    ELSE CubicAvoid(r, acked, rtt, now)
           IN  [n EXCEPT !.cwnd = Least(@, MaxWindow)]

CubicCut(w) == Most((w * BetaNum) \div BetaDen, MinimumWindow)

\* Fast convergence: a flow whose last peak was higher releases bandwidth.
CubicOnLoss(r, persistent) ==
    CASE persistent ->
           [r EXCEPT !.ssthresh = CubicCut(r.cwnd), !.wMax = r.cwnd, !.wLastMax = 0,
                     !.cwnd = MinimumWindow, !.epoch = 0, !.rec = Begin(MinimumWindow)]
      [] ~persistent /\ r.rec.active -> r
      [] OTHER ->
           [r EXCEPT !.wLastMax = r.cwnd,
                     !.wMax = IF r.cwnd < r.wLastMax
                              THEN (r.cwnd * (BetaDen + BetaNum)) \div (2 * BetaDen) ELSE r.cwnd,
                     !.ssthresh = CubicCut(r.cwnd), !.cwnd = CubicCut(r.cwnd), !.epoch = 0,
                     !.rec = Begin(Most(r.cwnd, MinimumWindow))]

-----------------------------------------------------------------------------
(* Controller: dispatch on the algorithm. *)

OnAck(r, acked, rtt, now) ==
    IF r.algo = "reno" THEN NewRenoOnAck(r, acked) ELSE CubicOnAck(r, acked, rtt, now)
OnLoss(r, persistent) ==
    IF r.algo = "reno" THEN NewRenoOnLoss(r, persistent) ELSE CubicOnLoss(r, persistent)
OnRto(r) == OnLoss(r, TRUE)
Window(r) == Least(Most(r.cwnd, MinimumWindow), MaxWindow)
CanSend(r, inFlight, bytes) == inFlight + bytes <= Window(r)

-----------------------------------------------------------------------------
(* loss.rs: the classification of unacknowledged units that RACK and QUIC  *)
(* share.  A unit is a pair <<id, sent>>, in increasing order of id; ids   *)
(* at or past largestAcked are not looked at.                              *)

Older(units, largestAcked) == {u \in units : u[1] < largestAcked}

LostUnits(units, largestAcked, packetThreshold, timeThreshold, now) ==
    {u \in Older(units, largestAcked) :
        \/ u[1] + packetThreshold <= largestAcked
        \/ timeThreshold # 0 /\ SatSub(now, u[2]) > timeThreshold}

\* The first tick at which a unit not yet lost becomes lost; 0 for none.
LossDeadline(units, largestAcked, packetThreshold, timeThreshold, now) ==
    LET young == Older(units, largestAcked)
                 \ LostUnits(units, largestAcked, packetThreshold, timeThreshold, now)
        due == {u[2] + timeThreshold + 1 : u \in young}
    IN  IF timeThreshold = 0 \/ due = {} THEN 0 ELSE CHOOSE d \in due : \A e \in due : d <= e

=============================================================================
