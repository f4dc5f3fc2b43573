-------------------------- MODULE PeripheryProofs --------------------------
(***************************************************************************)
(* Theorems about the parts at the rim of the kernel: the descriptor rings *)
(* of the network card (Network), the files between programs and desktop   *)
(* (SharedFiles), the partition table and layout of a volume (Volume) and  *)
(* the windows of the desktop (Desktop).  The four share no variable; each *)
(* section is about one of them.                                           *)
(***************************************************************************)
EXTENDS Network, SharedFiles, Volume, Desktop, SetLemmas

-----------------------------------------------------------------------------
(* Network.  Dist(N, a, b) is the number of steps from descriptor a forward *)
(* to b on a ring of N.                                                     *)
Dist(N, a, b) == IF b >= a THEN b - a ELSE b - a + N
After(N, a) == IF a + 1 = N THEN 0 ELSE a + 1

(* The driver's and the card's % is a step forward on the ring.             *)
LEMMA StepOnRing ==
  ASSUME NEW N \in Nat \ {0}, NEW a \in 0..N-1
  PROVE  (a + 1) % N = After(N, a) /\ After(N, a) \in 0..N-1
<1>1. CASE a + 1 = N
  BY <1>1 DEF After
<1>2. CASE a + 1 # N
  BY <1>2 DEF After
<1> QED BY <1>1, <1>2

(* Distances after a step of the start, of the end, and over a whole turn.  *)
LEMMA Distances ==
  ASSUME NEW N \in Nat \ {0}, NEW a \in 0..N-1, NEW b \in 0..N-1
  PROVE  /\ Dist(N, a, b) \in 0..N-1
         /\ Dist(N, a, b) = 0 <=> a = b
         /\ Dist(N, a, After(N, b)) = IF After(N, b) = a THEN 0 ELSE Dist(N, a, b) + 1
         /\ Dist(N, After(N, a), b) = IF a = b THEN N - 1 ELSE Dist(N, a, b) - 1
         /\ After(N, b) = a <=> Dist(N, a, b) = N - 1
  BY DEF Dist, After

(* No two descriptors are at one distance.                                  *)
LEMMA DistinctDistances ==
  ASSUME NEW N \in Nat \ {0}, NEW a \in 0..N-1, NEW b \in 0..N-1, NEW c \in 0..N-1,
         Dist(N, a, b) = Dist(N, a, c)
  PROVE  b = c
  BY DEF Dist

(* The receive ring: the filled descriptors are those from the driver's up  *)
(* to the card's, the driver has given back all but the one behind it, and  *)
(* frames get newer from the driver on; none was handed out yet.            *)
AnyFrame == {NoFrame} \union UNION {Frames(n) : n \in Nat}

RxInv ==
    /\ rx \in [0..RxCount-1 -> [dd : BOOLEAN, frame : AnyFrame]]
    /\ rdh \in 0..RxCount-1 /\ rdt \in 0..RxCount-1 /\ rxTail = After(RxCount, rdt)
    /\ arrived \in Nat /\ heard \in Nat /\ heard <= arrived
    /\ \A d \in 0..RxCount-1 :
         /\ rx[d].dd <=> Dist(RxCount, rxTail, d) < Dist(RxCount, rxTail, rdh)
         /\ rx[d].dd => heard < rx[d].frame.n /\ rx[d].frame.n <= arrived
    /\ \A d, e \in 0..RxCount-1 :
         rx[d].dd /\ rx[e].dd /\ Dist(RxCount, rxTail, d) < Dist(RxCount, rxTail, e)
            => rx[d].frame.n < rx[e].frame.n

(* The transmit ring: the descriptors in use are the posted frames not sent *)
(* yet, in order from the card's head on, and at most all of them.          *)
TxInv ==
    /\ tx \in [0..TxCount-1 -> [dd : BOOLEAN, n : Nat]]
    /\ tdh \in 0..TxCount-1 /\ txTail \in 0..TxCount-1
    /\ posted \in Nat /\ wire \in Nat
    /\ wire <= posted /\ posted - wire <= TxCount
    /\ Dist(TxCount, tdh, txTail) = IF posted - wire = TxCount THEN 0 ELSE posted - wire
    /\ \A d \in 0..TxCount-1 :
         /\ tx[d].dd <=> Dist(TxCount, tdh, d) >= posted - wire
         /\ ~ tx[d].dd => tx[d].n = wire + 1 + Dist(TxCount, tdh, d)

NetInv == RxInv /\ TxInv

(* Frames are numbered.                                                     *)
LEMMA FramesNumbered == \A f \in AnyFrame : f.n \in Nat
BY DEF AnyFrame, NoFrame, Frames

(* The rings are empty at the start.                                        *)
LEMMA NetStarts == ASSUME NetworkAssumption, NetInit PROVE NetInv
<1>1. RxInv
  <2>1. rx \in [0..RxCount-1 -> [dd : BOOLEAN, frame : AnyFrame]]
    BY DEF NetInit, AnyFrame
  <2>2. rdh \in 0..RxCount-1 /\ rdt \in 0..RxCount-1 /\ rxTail = After(RxCount, rdt)
    BY DEF NetInit, NetworkAssumption, After
  <2>3. \A d \in 0..RxCount-1 : ~ rx[d].dd
    BY DEF NetInit
  <2>4. \A d \in 0..RxCount-1 : ~ (Dist(RxCount, rxTail, d) < Dist(RxCount, rxTail, rdh))
    BY DEF NetInit, NetworkAssumption, Dist
  <2>5. arrived \in Nat /\ heard \in Nat /\ heard <= arrived
    BY DEF NetInit
  <2> QED BY <2>1, <2>2, <2>3, <2>4, <2>5 DEF RxInv
<1>2. TxInv
  BY DEF NetworkAssumption, NetInit, TxInv, Dist
<1> QED BY <1>1, <1>2 DEF NetInv

(* A reader takes the oldest frame, which is newer than the last one taken; *)
(* the distances of the other descriptors shrink by one.                    *)
LEMMA ReceiveKeepsRing ==
  ASSUME NetworkAssumption, RxInv, CanRecv, e1000_recv
  PROVE  RxInv' /\ heard' > heard
<1> DEFINE N == RxCount
           D(d) == Dist(N, rxTail, d)
<1>1. N \in Nat \ {0} /\ rdt \in 0..N-1 /\ rdh \in 0..N-1 /\ rxTail \in 0..N-1
  BY StepOnRing DEF RxInv, NetworkAssumption
<1>2. rx[rxTail].dd /\ D(rxTail) = 0 /\ D(rdh) \in 0..N-1
  BY <1>1, Distances DEF CanRecv
<1>3. rxTail # rdh
  BY <1>1, <1>2, Distances DEF RxInv
<1>4. rdt' = rxTail /\ rxTail' = After(N, rxTail) /\ rdh' = rdh /\ arrived' = arrived
  BY <1>1, StepOnRing DEF e1000_recv
<1>5. rx' = [rx EXCEPT ![rxTail] = [dd |-> FALSE, frame |-> NoFrame]]
  BY DEF e1000_recv
<1>6. heard' = rx[rxTail].frame.n /\ heard' \in Nat /\ heard' > heard /\ heard' <= arrived
  BY <1>1, <1>2, FramesNumbered DEF e1000_recv, RxInv
<1>7. rx' \in [0..N-1 -> [dd : BOOLEAN, frame : AnyFrame]]
  BY <1>1, <1>5 DEF RxInv, AnyFrame
<1>8. \A d \in 0..N-1 : D(d)' = IF d = rxTail THEN N - 1 ELSE D(d) - 1
  <2> SUFFICES ASSUME NEW d \in 0..N-1 PROVE D(d)' = IF d = rxTail THEN N - 1 ELSE D(d) - 1
    OBVIOUS
  <2>1. D(d)' = Dist(N, After(N, rxTail), d)
    BY <1>4
  <2>2. Dist(N, After(N, rxTail), d) = IF rxTail = d THEN N - 1 ELSE D(d) - 1
    BY <1>1, Distances
  <2> QED BY <2>1, <2>2
<1>9. \A d \in 0..N-1 : D(d) \in 0..N-1 /\ (D(d) = 0 <=> d = rxTail)
  <2> SUFFICES ASSUME NEW d \in 0..N-1 PROVE D(d) \in 0..N-1 /\ (D(d) = 0 <=> d = rxTail)
    OBVIOUS
  <2>1. D(d) \in 0..N-1 /\ (D(d) = 0 <=> rxTail = d)
    BY <1>1, Distances
  <2> QED BY <2>1
<1>10. \A d \in 0..N-1 : rx'[d] = IF d = rxTail THEN [dd |-> FALSE, frame |-> NoFrame] ELSE rx[d]
  BY <1>1, <1>5 DEF RxInv
<1> HIDE DEF D
<1>11. ASSUME NEW d \in 0..N-1
       PROVE  /\ rx'[d].dd <=> D(d)' < D(rdh)'
              /\ rx'[d].dd => heard' < rx'[d].frame.n /\ rx'[d].frame.n <= arrived'
  <2>1. CASE d = rxTail
    BY <2>1, <1>1, <1>2, <1>3, <1>4, <1>8, <1>9, <1>10
  <2>2. CASE d # rxTail
    <3>1. rx'[d] = rx[d] /\ D(d)' = D(d) - 1 /\ D(rdh)' = D(rdh) - 1 /\ D(rxTail) < D(d)
      BY <2>2, <1>1, <1>2, <1>3, <1>4, <1>8, <1>9, <1>10
    <3>2. rx[d].dd <=> D(d) < D(rdh)
      BY DEF RxInv, D
    <3>3. rx[d].dd => rx[rxTail].frame.n < rx[d].frame.n /\ rx[d].frame.n <= arrived
      BY <1>1, <1>2, <3>1 DEF RxInv, D
    <3> QED BY <3>1, <3>2, <3>3, <1>1, <1>4, <1>6, <1>9
  <2> QED BY <2>1, <2>2
<1>12. ASSUME NEW d \in 0..N-1, NEW e \in 0..N-1, rx'[d].dd, rx'[e].dd, D(d)' < D(e)'
       PROVE  rx'[d].frame.n < rx'[e].frame.n
  <2>1. d # rxTail /\ e # rxTail
    BY <1>10, <1>12
  <2>2. D(d) < D(e) /\ rx'[d] = rx[d] /\ rx'[e] = rx[e]
    BY <2>1, <1>8, <1>9, <1>10, <1>12
  <2> QED BY <2>2, <1>12 DEF RxInv, D
<1>13. rdh' \in 0..N-1 /\ rdt' \in 0..N-1 /\ rxTail' = After(N, rdt') /\ arrived' \in Nat
  BY <1>1, <1>4 DEF RxInv
<1>14. \A d, e \in 0..N-1 :
          rx'[d].dd /\ rx'[e].dd /\ D(d)' < D(e)' => rx'[d].frame.n < rx'[e].frame.n
  BY <1>12
<1>15. \A d \in 0..N-1 : /\ rx'[d].dd <=> D(d)' < D(rdh)'
                         /\ rx'[d].dd => heard' < rx'[d].frame.n /\ rx'[d].frame.n <= arrived'
  BY <1>11
<1>16. heard' <= arrived'
  BY <1>4, <1>6
<1> QED BY <1>6, <1>7, <1>13, <1>14, <1>15, <1>16 DEF RxInv, D

(* An arriving frame is the newest, and fills the descriptor behind the     *)
(* filled ones; the card stops before the one it does not own.              *)
LEMMA ArrivalKeepsRing ==
  ASSUME NetworkAssumption, RxInv, CardReceives
  PROVE  RxInv'
<1> DEFINE N == RxCount
           D(d) == Dist(N, rxTail, d)
<1>1. N \in Nat \ {0} /\ rdt \in 0..N-1 /\ rdh \in 0..N-1 /\ rxTail \in 0..N-1
  BY StepOnRing DEF RxInv, NetworkAssumption
<1>2. rdt' = rdt /\ rxTail' = rxTail /\ arrived' = arrived + 1 /\ heard' = heard
  BY DEF CardReceives, rxVars
<1>3. arrived \in Nat /\ heard \in Nat /\ arrived' \in Nat
  BY <1>2 DEF RxInv
<1>4. CASE rdh = rdt
  BY <1>4, <1>2, <1>3, FramesNumbered DEF RxInv, CardReceives
<1>5. CASE rdh # rdt
  <2>1. PICK f \in Frames(arrived + 1) : rx' = [rx EXCEPT ![rdh] = [dd |-> TRUE, frame |-> f]]
    BY <1>5 DEF CardReceives
  <2>2. f \in AnyFrame /\ f.n = arrived + 1
    BY <1>3 DEF AnyFrame, Frames
  <2>3. rdh' = After(N, rdh) /\ rdh' \in 0..N-1
    BY <1>1, <1>5, StepOnRing DEF CardReceives
  <2>4. \A d \in 0..N-1 : D(d) \in 0..N-1 /\ D(d)' = D(d)
    BY <1>1, <1>2, Distances
  <2>5. D(rdh)' = D(rdh) + 1
    <3>1. After(N, rdh) # rxTail
      BY <1>1, <1>5 DEF RxInv, After
    <3> QED BY <3>1, <1>1, <1>2, <2>3, Distances
  <2>6. \A d \in 0..N-1 : rx'[d] = IF d = rdh THEN [dd |-> TRUE, frame |-> f] ELSE rx[d]
    BY <1>1, <2>1 DEF RxInv
  <2>7. rx' \in [0..N-1 -> [dd : BOOLEAN, frame : AnyFrame]]
    BY <1>1, <2>1, <2>2 DEF RxInv
  <2>8. \A d, e \in 0..N-1 : D(d) = D(e) => d = e
    BY <1>1, DistinctDistances
  <2>9. \A d \in 0..N-1 : rx[d].dd <=> D(d) < D(rdh)
    BY DEF RxInv
  <2>10. \A d \in 0..N-1 : rx[d].dd => heard < rx[d].frame.n /\ rx[d].frame.n <= arrived
    BY DEF RxInv
  <2>11. \A d, e \in 0..N-1 : rx[d].dd /\ rx[e].dd /\ D(d) < D(e) => rx[d].frame.n < rx[e].frame.n
    BY DEF RxInv
  <2>12. \A d \in 0..N-1 : rx[d].frame.n \in Nat
    BY FramesNumbered DEF RxInv
  <2>13. heard <= arrived
    BY DEF RxInv
  <2> HIDE DEF D
  <2>14. ASSUME NEW d \in 0..N-1
         PROVE  /\ rx'[d].dd <=> D(d)' < D(rdh)'
                /\ rx'[d].dd => heard' < rx'[d].frame.n /\ rx'[d].frame.n <= arrived'
    <3>1. CASE d = rdh
      <4>1. rx'[d].dd /\ rx'[d].frame.n = arrived + 1
        BY <3>1, <2>2, <2>6
      <4>2. D(d)' < D(rdh)'
        <5>1. D(d)' = D(rdh) /\ D(rdh) \in 0..N-1
          BY <3>1, <2>4
        <5> QED BY <5>1, <2>5, <1>1
      <4> QED BY <4>1, <4>2, <1>2, <1>3, <2>13
    <3>2. CASE d # rdh
      <4>1. rx'[d] = rx[d] /\ D(d)' = D(d) /\ D(d) \in 0..N-1 /\ D(rdh) \in 0..N-1 /\ D(d) # D(rdh)
        BY <3>2, <1>1, <2>4, <2>6, <2>8
      <4>2. rx[d].dd <=> D(d)' < D(rdh)'
        BY <4>1, <1>1, <2>5, <2>9
      <4>3. rx[d].dd => heard < rx[d].frame.n /\ rx[d].frame.n <= arrived + 1
        BY <1>3, <2>10, <2>12
      <4> QED BY <4>1, <4>2, <4>3, <1>2
    <3> QED BY <3>1, <3>2
  <2>15. ASSUME NEW d \in 0..N-1, NEW e \in 0..N-1, rx'[d].dd, rx'[e].dd, D(d)' < D(e)'
         PROVE  rx'[d].frame.n < rx'[e].frame.n
    <3>1. CASE e = rdh
      BY <3>1, <1>1, <1>3, <2>2, <2>4, <2>6, <2>10, <2>12, <2>15
    <3>2. CASE e # rdh
      BY <3>2, <1>1, <2>4, <2>6, <2>9, <2>11, <2>15
    <3> QED BY <3>1, <3>2
  <2> QED BY <1>2, <1>3, <2>3, <2>7, <2>14, <2>15 DEF RxInv, D
<1> QED BY <1>4, <1>5

(* A posted frame takes the descriptor behind those in use.                 *)
LEMMA SendKeepsRing ==
  ASSUME NetworkAssumption, TxInv, e1000_send
  PROVE  TxInv' /\ wire' = wire
<1> DEFINE N == TxCount
           D(d) == Dist(N, tdh, d)
           Out == posted - wire
<1>1. N \in Nat \ {0} /\ tdh \in 0..N-1 /\ txTail \in 0..N-1 /\ posted \in Nat /\ wire \in Nat
      /\ wire <= posted /\ Out \in Nat /\ Out <= N
  BY DEF TxInv, NetworkAssumption
<1>2. CASE ~ CanSend
  BY <1>2 DEF e1000_send, txVars, TxInv
<1>3. CASE CanSend
  <2>1. /\ posted' = posted + 1 /\ wire' = wire /\ tdh' = tdh
        /\ txTail' = After(N, txTail) /\ txTail' \in 0..N-1
        /\ tx' = [tx EXCEPT ![txTail] = [dd |-> FALSE, n |-> posted + 1]]
    BY <1>1, <1>3, StepOnRing DEF e1000_send
  <2>2. D(txTail) >= Out /\ D(txTail) = (IF Out = N THEN 0 ELSE Out) /\ D(txTail) \in 0..N-1
    BY <1>1, <1>3, Distances DEF TxInv, CanSend
  <2>3. Out < N /\ D(txTail) = Out
    BY <1>1, <2>2
  <2>4. D(txTail)' = IF Out + 1 = N THEN 0 ELSE Out + 1
    <3>1. D(txTail)' = Dist(N, tdh, After(N, txTail))
      BY <2>1
    <3>2. Dist(N, tdh, After(N, txTail)) = IF After(N, txTail) = tdh THEN 0 ELSE D(txTail) + 1
      BY <1>1, Distances
    <3>3. After(N, txTail) = tdh <=> D(txTail) = N - 1
      BY <1>1, Distances
    <3> QED BY <3>1, <3>2, <3>3, <2>3, <1>1
  <2>5. Out' = Out + 1
    BY <1>1, <2>1
  <2>6. \A d \in 0..N-1 : D(d)' = D(d) /\ D(d) \in 0..N-1
    BY <1>1, <2>1, Distances
  <2>7. \A d \in 0..N-1 : D(d) = D(txTail) => d = txTail
    BY <1>1, DistinctDistances
  <2>8. \A d \in 0..N-1 : tx'[d] = IF d = txTail THEN [dd |-> FALSE, n |-> posted + 1] ELSE tx[d]
    BY <2>1 DEF TxInv
  <2>9. tx' \in [0..N-1 -> [dd : BOOLEAN, n : Nat]]
    BY <1>1, <2>1 DEF TxInv
  <2>10. \A d \in 0..N-1 : /\ tx[d].dd <=> D(d) >= Out
                           /\ ~ tx[d].dd => tx[d].n = wire + 1 + D(d)
    BY DEF TxInv
  <2> HIDE DEF D
  <2>11. ASSUME NEW d \in 0..N-1
         PROVE  /\ tx'[d].dd <=> D(d)' >= Out'
                /\ ~ tx'[d].dd => tx'[d].n = wire' + 1 + D(d)'
    <3>1. CASE d = txTail
      <4>1. ~ tx'[d].dd /\ tx'[d].n = posted + 1
        BY <3>1, <2>8
      <4>2. D(d)' = Out
        BY <3>1, <2>3, <2>6
      <4> QED BY <4>1, <4>2, <2>1, <2>5, <1>1
    <3>2. CASE d # txTail
      <4>1. tx'[d] = tx[d] /\ D(d)' = D(d) /\ D(d) \in 0..N-1 /\ D(d) # Out
        BY <3>2, <2>3, <2>6, <2>7, <2>8
      <4> HIDE DEF Out
      <4>2. tx[d].dd <=> D(d) >= Out + 1
        BY <4>1, <2>10, <1>1
      <4> QED BY <4>1, <4>2, <2>1, <2>5, <2>10
    <3> QED BY <3>1, <3>2
  <2>12. posted' \in Nat /\ wire' \in Nat /\ wire' <= posted' /\ posted' - wire' <= TxCount
    BY <1>1, <2>1, <2>3
  <2>13. D(txTail)' = IF Out' = N THEN 0 ELSE Out'
    BY <1>1, <2>4, <2>5
  <2>14. \A d \in 0..N-1 : /\ tx'[d].dd <=> D(d)' >= Out'
                           /\ ~ tx'[d].dd => tx'[d].n = wire' + 1 + D(d)'
    BY <2>11
  <2>15. tdh' \in 0..N-1
    BY <1>1, <2>1
  <2> QED BY <2>1, <2>9, <2>12, <2>13, <2>14, <2>15 DEF TxInv, D
<1> QED BY <1>2, <1>3

(* The card sends the frame at its head, which is the next one; when a full *)
(* ring is posted head and tail meet and it sends nothing.                  *)
LEMMA CardKeepsRing ==
  ASSUME NetworkAssumption, TxInv, CardSends
  PROVE  TxInv' /\ wire' = wire + 1
<1> DEFINE N == TxCount
           D(d) == Dist(N, tdh, d)
           Out == posted - wire
<1>1. N \in Nat \ {0} /\ tdh \in 0..N-1 /\ txTail \in 0..N-1 /\ posted \in Nat /\ wire \in Nat
      /\ wire <= posted /\ Out \in Nat /\ Out <= N
  BY DEF TxInv, NetworkAssumption
<1>2. tdh # txTail /\ txTail' = txTail /\ posted' = posted /\ wire' = tx[tdh].n
      /\ tx' = [tx EXCEPT ![tdh].dd = TRUE] /\ tdh' = After(N, tdh) /\ tdh' \in 0..N-1
  BY <1>1, StepOnRing DEF CardSends
<1>3. D(txTail) # 0 /\ D(txTail) = IF Out = N THEN 0 ELSE Out
  BY <1>1, <1>2, Distances, SMTT(60) DEF TxInv
<1>4. Out > 0 /\ Out < N /\ D(txTail) = Out
  BY <1>1, <1>3
<1>5. D(tdh) = 0
  BY <1>1, Distances
<1>6. ~ tx[tdh].dd /\ tx[tdh].n = wire + 1
  BY <1>1, <1>4, <1>5 DEF TxInv
<1>7. \A d \in 0..N-1 : D(d)' = IF d = tdh THEN N - 1 ELSE D(d) - 1
  <2> SUFFICES ASSUME NEW d \in 0..N-1 PROVE D(d)' = IF d = tdh THEN N - 1 ELSE D(d) - 1
    OBVIOUS
  <2>1. D(d)' = Dist(N, After(N, tdh), d)
    BY <1>2
  <2>2. Dist(N, After(N, tdh), d) = IF tdh = d THEN N - 1 ELSE D(d) - 1
    BY <1>1, Distances
  <2> QED BY <2>1, <2>2
<1>8. \A d \in 0..N-1 : D(d) \in 0..N-1
  BY <1>1, Distances
<1>9. D(txTail)' = Out - 1
  <2>1. D(txTail)' = Dist(N, After(N, tdh), txTail)
    BY <1>2
  <2>2. Dist(N, After(N, tdh), txTail) = IF tdh = txTail THEN N - 1 ELSE D(txTail) - 1
    BY <1>1, Distances
  <2> QED BY <2>1, <2>2, <1>2, <1>4
<1>10. Out' = Out - 1 /\ wire' = wire + 1
  BY <1>1, <1>2, <1>6
<1>11. \A d \in 0..N-1 : tx'[d] = IF d = tdh THEN [tx[d] EXCEPT !.dd = TRUE] ELSE tx[d]
  BY <1>2 DEF TxInv
<1>12. tx' \in [0..N-1 -> [dd : BOOLEAN, n : Nat]]
  BY <1>1, <1>2 DEF TxInv
<1>13. \A d \in 0..N-1 : /\ tx[d].dd <=> D(d) >= Out
                         /\ ~ tx[d].dd => tx[d].n = wire + 1 + D(d)
  BY DEF TxInv
<1> HIDE DEF D
<1>14. ASSUME NEW d \in 0..N-1
       PROVE  /\ tx'[d].dd <=> D(d)' >= Out'
              /\ ~ tx'[d].dd => tx'[d].n = wire' + 1 + D(d)'
  <2>1. CASE d = tdh
    <3>1. tx[d] \in [dd : BOOLEAN, n : Nat]
      BY DEF TxInv
    <3>2. tx'[d].dd
      BY <2>1, <3>1, <1>11
    <3>3. D(d)' = N - 1
      BY <2>1, <1>7
    <3> QED BY <3>2, <3>3, <1>1, <1>4, <1>10
  <2>2. CASE d # tdh
    <3>1. tx'[d] = tx[d] /\ D(d)' = D(d) - 1 /\ D(d) \in 0..N-1
      BY <2>2, <1>7, <1>8, <1>11
    <3>2. tx[d].dd <=> D(d)' >= Out'
      <4>1. tx[d].dd <=> D(d) >= Out
        BY <1>13
      <4> HIDE DEF Out
      <4>2. Out \in Nat
        BY <1>1
      <4> QED BY <4>1, <4>2, <3>1, <1>10
    <3>3. ~ tx[d].dd => tx[d].n = wire' + 1 + D(d)'
      <4>1. ~ tx[d].dd => tx[d].n = wire + 1 + D(d)
        BY <1>13
      <4> QED BY <4>1, <3>1, <1>1, <1>10
    <3> QED BY <3>1, <3>2, <3>3
  <2> QED BY <2>1, <2>2
<1>15. posted' \in Nat /\ wire' \in Nat /\ wire' <= posted' /\ posted' - wire' <= TxCount
  BY <1>1, <1>2, <1>4, <1>10
<1>16. D(txTail)' = IF Out' = N THEN 0 ELSE Out'
  BY <1>1, <1>4, <1>9, <1>10
<1>17. \A d \in 0..N-1 : /\ tx'[d].dd <=> D(d)' >= Out'
                         /\ ~ tx'[d].dd => tx'[d].n = wire' + 1 + D(d)'
  BY <1>14
<1>18. txTail' \in 0..N-1
  BY <1>1, <1>2
<1> QED BY <1>2, <1>10, <1>12, <1>15, <1>16, <1>17, <1>18 DEF TxInv, D

(* Every step keeps both rings and hears and sends in order.                *)
LEMMA NetStep ==
  ASSUME NetworkAssumption, NetInv, [NetNext]_netVars
  PROVE  NetInv' /\ FrameStep
<1>1. /\ RxInv /\ TxInv
      /\ UNCHANGED rxVars => RxInv' /\ heard' = heard
      /\ UNCHANGED txVars => TxInv' /\ wire' = wire
  BY ZenonT(60) DEF NetInv, RxInv, TxInv, rxVars, txVars
<1>2. e1000_send => TxInv' /\ wire' = wire
  BY <1>1, SendKeepsRing
<1>3. RxInv => heard \in Nat
  BY DEF RxInv
<1>4. TxInv => wire \in Nat
  BY DEF TxInv
<1> SUFFICES ASSUME TRUE
             PROVE  RxInv' /\ TxInv' /\ (heard' = heard \/ heard' > heard) /\ (wire' = wire \/ wire' = wire + 1)
  BY DEF NetInv, FrameStep
<1>5. CASE netdrivers_init
  BY <1>1, <1>5 DEF netdrivers_init
<1>6. CASE net_poll
  <2>1. RxInv' /\ heard' > heard
    BY <1>1, <1>6, ReceiveKeepsRing DEF net_poll
  <2>2. UNCHANGED txVars \/ e1000_send
    BY <1>6 DEF net_poll, eth_recv, arp_recv
  <2> QED BY <1>1, <1>2, <2>1, <2>2
<1>7. CASE eth0_read
  BY <1>1, <1>7, ReceiveKeepsRing DEF eth0_read
<1>8. CASE eth0_write
  BY <1>1, <1>2, <1>8 DEF eth0_write
<1>9. CASE CardReceives
  <2>1. RxInv'
    BY <1>1, <1>9, ArrivalKeepsRing
  <2> QED BY <2>1, <1>1, <1>9 DEF CardReceives
<1>10. CASE CardSends
  <2>1. TxInv' /\ wire' = wire + 1
    BY <1>1, <1>10, CardKeepsRing
  <2> QED BY <2>1, <1>1, <1>10 DEF CardSends
<1>11. CASE UNCHANGED netVars
  BY <1>1, <1>11 DEF netVars, rxVars, txVars
<1> QED BY <1>5, <1>6, <1>7, <1>8, <1>9, <1>10, <1>11 DEF NetNext

(* Whatever the sizes of the rings and however card, readers and senders    *)
(* interleave, frames are heard in the order of their arrival, none twice,  *)
(* and accepted frames go out one after the other without a gap.            *)
THEOREM NetworkFramesInOrder ==
  ASSUME NetworkAssumption
  PROVE  NetSpec => FramesInOrder
<1>1. NetInit => NetInv
  BY NetStarts
<1>2. NetInv /\ [NetNext]_netVars => NetInv'
  BY NetStep
<1>3. NetInv /\ [NetNext]_netVars => [FrameStep]_netVars
  BY NetStep
<1> QED BY <1>1, <1>2, <1>3, PTL DEF NetSpec, FramesInOrder

-----------------------------------------------------------------------------
(* SharedFiles.  What files, programs and the desktop hold.                 *)
Letters == (Nat \ {0}) \union {End}
FilesTypes ==
    /\ cmd \in Seq(Int) /\ reg \in Seq(Apps) /\ sent \in Seq(Letters)
    /\ wbuf \in [Apps -> Nat]
    /\ slot \in [Apps -> Nat \union {Unset}]
    /\ app \in [Apps -> [op : {"none", "append", "second", "claim"}, seen : Seq(Int) \union Seq(Apps)]]
    /\ \A a \in Apps : /\ app[a].op = "append" => app[a].seen \in Seq(Int)
                       /\ app[a].op = "claim" => app[a].seen \in Seq(Apps)
    /\ desk \in [at : {"commands", "clear", "dirty", "wipe", "refresh"}, seen : Seq(Int),
                 full : BOOLEAN, shown : [Apps -> Nat]]

(* The command file is what was sent, with newlines over what was obeyed.   *)
Waiting(k, s) == [i \in 1..Len(s) |-> IF i <= k THEN Blank ELSE s[i]]
CommandsInOrder ==
    ~raced /\ ~torn /\ Len(cmd) <= CmdMax =>
        \E k \in 0..Len(sent) : done = SubSeq(sent, 1, k) /\ cmd = Waiting(k, sent)

(* The slots taken are numbers of lines in the registry.                    *)
SlotsInRegistry ==
    ~claimRaced /\ Len(reg) <= RegMax => \A a \in Apps : slot[a] # Unset => slot[a] < Len(reg)

FilesInv == FilesTypes /\ CommandsInOrder /\ BuffersShown /\ SlotsInRegistry /\ SlotsDistinct

(* Writing a sequence over a file that is not longer replaces the file;     *)
(* a file never gets shorter.                                               *)
LEMMA OverReplaces ==
  ASSUME NEW S, NEW file \in Seq(S), NEW s \in Seq(S)
  PROVE  /\ Over(file, s) \in Seq(S)
         /\ Len(Over(file, s)) >= Len(file) /\ Len(Over(file, s)) >= Len(s)
         /\ Len(file) <= Len(s) => Over(file, s) = s
<1>1. SubSeq(file, Len(s) + 1, Len(file)) \in Seq(S)
  OBVIOUS
<1>2. Len(SubSeq(file, Len(s) + 1, Len(file))) = IF Len(s) < Len(file) THEN Len(file) - Len(s) ELSE 0
  OBVIOUS
<1>3. CASE Len(file) <= Len(s)
  <2>1. SubSeq(file, Len(s) + 1, Len(file)) = <<>>
    BY <1>3
  <2> QED BY <2>1, <1>3 DEF Over
<1>4. CASE ~ (Len(file) <= Len(s))
  BY <1>1, <1>2, <1>4 DEF Over
<1> QED BY <1>3, <1>4

(* A file that fits is read whole.                                          *)
LEMMA PrefixWhole ==
  ASSUME NEW S, NEW file \in Seq(S), NEW max \in Nat
  PROVE  /\ Prefix(file, max) \in Seq(S)
         /\ Len(file) <= max => Prefix(file, max) = file
<1>1. CASE Len(file) <= max
  <2>1. Prefix(file, max) = SubSeq(file, 1, Len(file))
    BY <1>1 DEF Prefix
  <2> QED BY <2>1
<1>2. CASE ~ (Len(file) <= max)
  BY <1>2 DEF Prefix
<1> QED BY <1>1, <1>2

(* Sequences are equal if their lengths and elements are.                   *)
LEMMA SameSequence ==
  ASSUME NEW S, NEW s \in Seq(S), NEW t \in Seq(S), Len(s) = Len(t),
         \A i \in 1..Len(s) : s[i] = t[i]
  PROVE  s = t
  OBVIOUS

(* What waits is a string, and as long as what was sent.                    *)
LEMMA WaitingIsString ==
  ASSUME NEW s \in Seq(Letters), NEW k \in 0..Len(s)
  PROVE  /\ Waiting(k, s) \in Seq(Int) /\ Len(Waiting(k, s)) = Len(s)
         /\ \A i \in 1..Len(s) : Waiting(k, s)[i] = IF i <= k THEN Blank ELSE s[i]
         /\ StringIn(Waiting(k, s)) = Waiting(k, s)
<1> DEFINE w == Waiting(k, s)
           Ends(m) == (\A i \in 1..m : w[i] # Nul) /\ (m < Len(w) => w[m + 1] = Nul)
           n == CHOOSE m \in 0..Len(w) : Ends(m)
<1>1. \A i \in 1..Len(s) : s[i] \in Int /\ s[i] # Nul /\ Blank \in Int /\ Blank # Nul
  BY DEF Letters, End, Nul, Blank
<1>2. w \in Seq(Int) /\ Len(w) = Len(s) /\ \A i \in 1..Len(s) : w[i] = IF i <= k THEN Blank ELSE s[i]
  BY <1>1 DEF Waiting
<1> HIDE DEF w
<1>3. \A i \in 1..Len(w) : w[i] # Nul
  BY <1>1, <1>2
<1>4. Ends(Len(w)) /\ Len(w) \in 0..Len(w)
  BY <1>2, <1>3
<1>5. n \in 0..Len(w) /\ Ends(n)
  <2> HIDE DEF Ends
  <2> QED BY <1>4
<1> HIDE DEF n
<1>6. n = Len(w)
  <2>1. ~ (n < Len(w))
    <3> SUFFICES ASSUME n < Len(w) PROVE FALSE
      OBVIOUS
    <3>1. n + 1 \in 1..Len(w) /\ w[n + 1] = Nul
      BY <1>2, <1>5
    <3> QED BY <1>3, <3>1
  <2> QED BY <1>2, <1>5, <2>1
<1>7. StringIn(w) = SubSeq(w, 1, n)
  BY DEF StringIn, n
<1>8. SubSeq(w, 1, Len(w)) = w
  BY <1>2
<1> QED BY <1>2, <1>6, <1>7, <1>8 DEF w

(* The walk over a file whose first k bytes were obeyed finds the rest.     *)
LEMMA CommandsWaiting ==
  ASSUME NEW z \in Seq(Letters), NEW k \in 0..Len(z)
  PROVE  CommandsIn(Waiting(k, z)) = [i \in 1..Len(z)-k |-> z[k + i]]
<1> DEFINE n == Len(z)
           s == Waiting(k, z)
           Walked(u) == [i \in 0..Len(s) |->
                         IF i = 0 THEN <<>>
                         ELSE IF s[i] = Blank THEN u[i-1] ELSE Append(u[i-1], s[i])]
           upto == CHOOSE u : u = Walked(u)
           w == [i \in 0..n |-> [j \in 1..(IF i <= k THEN 0 ELSE i - k) |-> z[k + j]]]
<1>0. n \in Nat /\ k \in 0..n /\ \A i \in 1..n : z[i] \in Letters /\ z[i] # Blank
  BY DEF Letters, Blank, End
<1>1. s \in Seq(Int) /\ Len(s) = n /\ \A i \in 1..n : s[i] = IF i <= k THEN Blank ELSE z[i]
  BY WaitingIsString
<1> HIDE DEF n, s
<1>2. w = Walked(w)
  <2>1. ASSUME NEW i \in 0..n
        PROVE  w[i] = IF i = 0 THEN <<>> ELSE IF s[i] = Blank THEN w[i-1] ELSE Append(w[i-1], s[i])
    <3>1. CASE i = 0
      BY <1>0, <3>1
    <3>2. CASE i # 0 /\ i <= k
      <4>1. w[i] = w[i-1]
        BY <1>0, <3>2
      <4> QED BY <4>1, <1>0, <3>2, <1>1
    <3>3. CASE i # 0 /\ ~ (i <= k)
      <4>1. s[i] = z[i] /\ s[i] # Blank
        BY <3>3, <1>0, <1>1
      <4>2. w[i] = [j \in 1..i-k |-> z[k + j]] /\ w[i-1] = [j \in 1..i-1-k |-> z[k + j]]
        <5>1. w[i] = [j \in 1..i-k |-> z[k + j]]
          BY <3>3
        <5>2. i - 1 \in 0..n /\ (i - 1 <= k => i - 1 - k = 0)
          BY <1>0, <3>3
        <5>3. w[i-1] = [j \in 1..(IF i - 1 <= k THEN 0 ELSE i - 1 - k) |-> z[k + j]]
          BY <5>2
        <5>4. (IF i - 1 <= k THEN 0 ELSE i - 1 - k) = i - 1 - k
          BY <5>2
        <5> QED BY <5>1, <5>3, <5>4
      <4>3. \A j \in 1..i-k : k + j \in 1..n
        BY <1>0, <3>3
      <4>4. w[i-1] \in Seq(Letters) /\ Len(w[i-1]) = i - 1 - k
        <5> DEFINE v == [j \in 1..i-1-k |-> z[k + j]]
        <5>1. i - 1 - k \in Nat /\ \A j \in 1..i-1-k : z[k + j] \in Letters
          BY <1>0, <3>3, <4>3
        <5>2. v \in Seq(Letters) /\ Len(v) = i - 1 - k
          BY <5>1
        <5> QED BY <4>2, <5>2
      <4>5. Append(w[i-1], z[i]) = [j \in 1..i-k |-> z[k + j]]
        <5> DEFINE u == w[i-1]
                   t == Append(u, z[i])
                   v == [j \in 1..i-k |-> z[k + j]]
        <5>1. u \in Seq(Letters) /\ Len(u) = i - 1 - k /\ i - 1 - k \in Nat /\ z[i] \in Letters
          <6>1. i \in 1..n /\ i - 1 - k \in Nat
            BY <1>0, <3>3
          <6> HIDE DEF u
          <6> QED BY <1>0, <4>4, <6>1 DEF u
        <5>2. \A j \in 1..i-1-k : u[j] = z[k + j]
          BY <4>2
        <5> HIDE DEF u
        <5>3. t \in Seq(Letters) /\ Len(t) = i - k /\ t[i-k] = z[i]
          BY <5>1, <1>0
        <5>4. \A j \in 1..i-1-k : t[j] = u[j]
          BY <5>1
        <5> HIDE DEF t
        <5>5. ASSUME NEW j \in 1..i-k PROVE t[j] = z[k + j]
          <6>1. CASE j = i - k
            <7>1. k + j = i
              BY <6>1, <1>0
            <7> QED BY <6>1, <7>1, <5>3
          <6>2. CASE j # i - k
            <7>1. j \in 1..i-1-k
              BY <6>2, <5>1, <1>0
            <7> QED BY <7>1, <5>2, <5>4
          <6> QED BY <6>1, <6>2
        <5>6. v \in Seq(Letters) /\ Len(v) = i - k /\ \A j \in 1..i-k : v[j] = z[k + j]
          <6>1. \A j \in 1..i-k : z[k + j] \in Letters
            BY <1>0, <4>3
          <6>2. i - k \in Nat
            BY <1>0, <3>3
          <6> QED BY <6>1, <6>2
        <5>7. Len(t) = Len(v) /\ \A j \in 1..Len(t) : t[j] = v[j]
          BY <5>3, <5>5, <5>6
        <5> HIDE DEF v
        <5>8. t = v
          BY <5>3, <5>6, <5>7, SameSequence, ZenonT(60)
        <5> QED BY <5>8 DEF t, u, v
      <4> QED BY <4>1, <4>2, <4>5, <3>3
    <3> QED BY <3>1, <3>2, <3>3
  <2> QED BY <2>1, <1>1
<1>3. upto = Walked(upto)
  BY <1>2
<1>4. \A i \in 0..n : upto[i] = IF i = 0 THEN <<>>
                                ELSE IF s[i] = Blank THEN upto[i-1] ELSE Append(upto[i-1], s[i])
  BY <1>1, <1>3
<1> HIDE DEF upto
<1>5. \A i \in 0..n : upto[i] = w[i]
  <2> DEFINE Wrong == {i \in 0..n : upto[i] # w[i]}
  <2> SUFFICES ASSUME Wrong # {}
               PROVE  FALSE
    OBVIOUS
  <2>0. Wrong \in SUBSET Nat
    BY <1>0
  <2> HIDE DEF Wrong
  <2>1. PICK i \in Wrong : \A x \in Wrong : i <= x
    BY <2>0, MinExists
  <2> USE DEF Wrong
  <2>2. w[i] = IF i = 0 THEN <<>> ELSE IF s[i] = Blank THEN w[i-1] ELSE Append(w[i-1], s[i])
    BY <1>1, <1>2
  <2> HIDE DEF w
  <2>3. i # 0 => upto[i-1] = w[i-1]
    BY <1>0, <2>1
  <2> QED BY <1>4, <2>1, <2>2, <2>3
<1>6. CommandsIn(s) = upto[n]
  BY <1>1 DEF CommandsIn, upto
<1>7. upto[n] = [j \in 1..n-k |-> z[k + j]]
  <2>1. upto[n] = [j \in 1..(IF n <= k THEN 0 ELSE n - k) |-> z[k + j]]
    BY <1>0, <1>5, SMTT(60)
  <2>2. (IF n <= k THEN 0 ELSE n - k) = n - k
    BY <1>0
  <2> QED BY <2>1, <2>2
<1> QED BY <1>6, <1>7 DEF n, s

(* What was obeyed, followed by what waits, is all that was sent, in order. *)
LEMMA ObeyedAndWaiting ==
  ASSUME NEW z \in Seq(Letters), NEW k \in 0..Len(z)
  PROVE  SubSeq(z, 1, k) \o CommandsIn(StringIn(Waiting(k, z))) = z
<1> DEFINE rest == [i \in 1..Len(z)-k |-> z[k + i]]
           first == SubSeq(z, 1, k)
           whole == first \o rest
<1>1. CommandsIn(StringIn(Waiting(k, z))) = rest
  BY CommandsWaiting, WaitingIsString
<1>2. first \in Seq(Letters) /\ Len(first) = k /\ \A i \in 1..k : first[i] = z[i]
  OBVIOUS
<1>3. rest \in Seq(Letters) /\ Len(rest) = Len(z) - k /\ \A i \in 1..Len(z)-k : rest[i] = z[k + i]
  <2>1. \A i \in 1..Len(z)-k : k + i \in 1..Len(z)
    OBVIOUS
  <2>2. \A i \in 1..Len(z)-k : z[k + i] \in Letters
    BY <2>1
  <2>3. Len(z) - k \in Nat
    OBVIOUS
  <2> QED BY <2>2, <2>3
<1> HIDE DEF rest, first
<1>4. whole \in Seq(Letters) /\ Len(whole) = Len(z)
  BY <1>2, <1>3, SMTT(60)
<1>5. ASSUME NEW i \in 1..Len(z)
      PROVE  whole[i] = z[i]
  <2>1. whole[i] = IF i <= k THEN first[i] ELSE rest[i - k]
    BY <1>2, <1>3
  <2>2. i <= k => i \in 1..k
    OBVIOUS
  <2>3. ~ (i <= k) => i - k \in 1..Len(z)-k /\ k + (i - k) = i
    OBVIOUS
  <2> QED BY <2>1, <2>2, <2>3, <1>2, <1>3
<1> HIDE DEF whole
<1>6. whole = z
  BY <1>4, <1>5, SameSequence
<1> QED BY <1>1, <1>6 DEF whole, first

(* So the order of the bytes gives the property.                            *)
LEMMA InOrderIsOnce ==
  ASSUME FilesTypes, CommandsInOrder
  PROVE  CommandsOnce
<1> SUFFICES ASSUME ~raced, ~torn, Len(cmd) <= CmdMax
             PROVE  done \o CommandsIn(StringIn(cmd)) = sent
  BY DEF CommandsOnce
<1>1. PICK k \in 0..Len(sent) : done = SubSeq(sent, 1, k) /\ cmd = Waiting(k, sent)
  BY DEF CommandsInOrder
<1>2. sent \in Seq(Letters)
  BY DEF FilesTypes
<1> QED BY <1>1, <1>2, ObeyedAndWaiting

(* A line that memcpy stores whole goes behind what the file held, when     *)
(* nothing stood there.                                                     *)
LEMMA StoredWhole ==
  ASSUME FilesAssumption, NEW file \in Seq(Int), NEW at \in Nat, NEW s \in Seq(Int),
         NEW b \in Int, at <= Len(file)
  PROVE  /\ Mem!AfterWrite(file, at, s, b) \in Seq(Int)
         /\ Len(Mem!AfterWrite(file, at, s, b)) >= Len(file)
         /\ Len(Mem!AfterWrite(file, at, s, b)) >= at + Len(s)
         /\ at = Len(file) /\ ~ (Mem!Copied(at, Len(s)) < Len(s)) =>
               /\ Len(Mem!AfterWrite(file, at, s, b)) = at + Len(s)
               /\ \A i \in 1..at+Len(s) : Mem!AfterWrite(file, at, s, b)[i] = IF i <= at THEN file[i] ELSE s[i - at]
<1> DEFINE n == Len(s)
           c == Mem!Copied(at, n)
           size == Mem!Greatest(Len(file), at + n)
           room == [i \in 1..size |-> IF i <= Len(file) THEN file[i] ELSE b]
           t == [i \in 1..c |-> IF i <= n THEN s[i] ELSE Stale]
           out == [i \in 1..size |-> IF i > at /\ i <= at + c THEN t[i - at] ELSE room[i]]
<1>1. n \in Nat /\ size \in Nat /\ size >= Len(file) /\ size >= at + n /\ (at = Len(file) => size = at + n)
  BY DEF Mem!Greatest
<1>2. c \in Nat
  <2> DEFINE lead == Mem!Lead(at, n)
  <2>1. Word \in Nat \ {0}
    BY DEF FilesAssumption
  <2>2. at % Word \in 0..Word-1
    BY <2>1
  <2>3. (Word - (at % Word)) % Word \in 0..Word-1
    BY <2>1, <2>2
  <2>4. lead \in 0..n
    <3> DEFINE gap == (Word - (at % Word)) % Word
    <3>1. lead = Mem!Least(n, gap)
      BY DEF Mem!Lead
    <3>2. gap \in Nat
      BY <2>1, <2>3
    <3> HIDE DEF gap, lead
    <3> QED BY <1>1, <3>1, <3>2 DEF Mem!Least
  <2>5. n \div Word \in Int
    BY <1>1, <2>1
  <2>6. (n - lead) % Word \in 0..Word-1
    BY <1>1, <2>1, <2>4, SMTT(60)
  <2>7. (n \div Word) * Word \in Int
    BY <2>1, <2>5
  <2> HIDE DEF lead
  <2>8. c = Mem!Greatest(lead, ((n \div Word) * Word) + ((n - lead) % Word))
    BY DEF Mem!Copied, lead
  <2> QED BY <2>1, <2>4, <2>6, <2>7, <2>8 DEF Mem!Greatest
<1> HIDE DEF c, size, n
<1>3. t = Mem!Landed(at, s) /\ Len(t) = c /\ \A i \in 1..c : t[i] = IF i <= n THEN s[i] ELSE Stale
  BY <1>2 DEF Mem!Landed, c, n
<1>4. \A i \in 1..c : t[i] \in Int
  BY <1>2, <1>3 DEF n, Stale
<1>5. \A i \in 1..size : room[i] \in Int /\ (i <= Len(file) => room[i] = file[i])
  OBVIOUS
<1>6. DOMAIN room = 1..size
  OBVIOUS
<1> HIDE DEF t, room
<1>7. out = Mem!AfterWrite(file, at, s, b)
  <2>1. Mem!AfterWrite(file, at, s, b) = Mem!memcpy(room, at, s)
    BY DEF Mem!AfterWrite, room, size, n
  <2>2. Mem!memcpy(room, at, s) = Mem!Overlay(room, at, t)
    BY <1>3 DEF Mem!memcpy
  <2>3. Mem!Overlay(room, at, t) = out
    BY <1>3, <1>6 DEF Mem!Overlay
  <2> QED BY <2>1, <2>2, <2>3
<1>8. \A i \in 1..size : out[i] \in Int
  <2> TAKE i \in 1..size
  <2>1. CASE i > at /\ i <= at + c
    <3>1. i - at \in 1..c
      BY <1>1, <1>2, <2>1
    <3> QED BY <1>4, <2>1, <3>1
  <2>2. CASE ~ (i > at /\ i <= at + c)
    BY <1>5, <2>2
  <2> QED BY <2>1, <2>2
<1>9. out \in Seq(Int) /\ Len(out) = size
  BY <1>1, <1>8
<1>10. ASSUME at = Len(file), ~ (c < n), NEW i \in 1..at+n
       PROVE  out[i] = IF i <= at THEN file[i] ELSE s[i - at]
  <2>1. i \in 1..size
    BY <1>1, <1>10
  <2>2. CASE i <= at
    BY <1>5, <1>10, <2>1, <2>2
  <2>3. CASE ~ (i <= at)
    <3>1. i > at /\ i <= at + c /\ i - at \in 1..c /\ i - at <= n
      BY <1>1, <1>2, <1>10, <2>3
    <3>2. out[i] = t[i - at]
      BY <2>1, <3>1
    <3> QED BY <1>3, <2>3, <3>1, <3>2
  <2> QED BY <2>2, <2>3
<1> HIDE DEF out
<1> QED BY <1>1, <1>7, <1>9, <1>10 DEF c, n

(* The files are empty at the start.                                        *)
LEMMA FilesStart == ASSUME FilesInit PROVE FilesInv
<1>1. FilesTypes
  BY DEF FilesInit, FilesTypes, Idle, Unset
<1>2. CommandsInOrder
  <2>1. done = SubSeq(sent, 1, 0) /\ cmd = Waiting(0, sent) /\ 0 \in 0..Len(sent)
    BY DEF FilesInit, Waiting
  <2> QED BY <2>1 DEF CommandsInOrder
<1>3. BuffersShown
  BY DEF FilesInit, BuffersShown
<1>4. SlotsInRegistry /\ SlotsDistinct
  BY DEF FilesInit, SlotsInRegistry, SlotsDistinct
<1> QED BY <1>1, <1>2, <1>3, <1>4 DEF FilesInv

(* A program goes through its steps one after the other; the others and     *)
(* their steps stay.                                                        *)
LEMMA AppSteps ==
  ASSUME FilesTypes, NEW a \in Apps, NEW op \in {"append", "second", "claim"}, NEW seen,
         op = "append" => seen \in Seq(Int),
         op = "claim" => seen \in Seq(Apps),
         seen \in Seq(Int) \union Seq(Apps),
         \/ Begin(a, op, seen)
         \/ Finish(a, op)
  PROVE  /\ app' \in [Apps -> [op : {"none", "append", "second", "claim"}, seen : Seq(Int) \union Seq(Apps)]]
         /\ \A b \in Apps : /\ app'[b].op = "append" => app'[b].seen \in Seq(Int)
                            /\ app'[b].op = "claim" => app'[b].seen \in Seq(Apps)
         /\ \A b \in Apps : b # a => app'[b] = app[b]
         /\ app'[a].op \in {op, "none"}
         /\ Begin(a, op, seen) => app[a].op = "none" /\ app'[a].op = op
<1>1. CASE Begin(a, op, seen)
  BY <1>1 DEF Begin, FilesTypes, Idle
<1>2. CASE Finish(a, op)
  BY <1>2 DEF Finish, Begin, FilesTypes, Idle
<1> QED BY <1>1, <1>2

(* A command that is read and written back unraced is behind the others.    *)
LEMMA CommandSteps ==
  ASSUME FilesAssumption, FilesInv, NEW a \in Apps, ReadCommandFile(a) \/ AppendCommand(a)
  PROVE  FilesInv'
<1>1. CmdMax \in Nat /\ cmd \in Seq(Int) /\ sent \in Seq(Letters)
  BY DEF FilesAssumption, FilesInv, FilesTypes
<1>2. CASE ReadCommandFile(a)
  <2>1. Prefix(cmd, CmdMax) \in Seq(Int) \union Seq(Apps) /\ Prefix(cmd, CmdMax) \in Seq(Int)
    BY <1>1, PrefixWhole
  <2>2. Begin(a, "append", Prefix(cmd, CmdMax))
    BY <1>2 DEF ReadCommandFile
  <2>3. UNCHANGED <<cmd, wbuf, dirty, reg, desk, sent, done, raced, torn, slot, claimRaced>>
    BY <1>2 DEF ReadCommandFile
  <2>4. FilesTypes'
    BY <2>1, <2>2, <2>3, AppSteps DEF FilesInv, FilesTypes
  <2>5. BuffersShown'
    <3>1. \A b \in Apps : app'[b].op # "second" => app[b].op # "second"
      BY <2>1, <2>2, AppSteps DEF FilesInv
    <3> QED BY <2>3, <3>1 DEF FilesInv, BuffersShown
  <2>6. (CommandsInOrder /\ SlotsInRegistry /\ SlotsDistinct)'
    BY <2>3 DEF FilesInv, CommandsInOrder, SlotsInRegistry, SlotsDistinct
  <2> QED BY <2>4, <2>5, <2>6 DEF FilesInv
<1>3. CASE AppendCommand(a)
  <2> DEFINE seen == app[a].seen
             file == Over(cmd, seen)
  <2>1. PICK n \in Lens, b \in {Nul, Stale} :
          /\ sent' = sent \o Line(n)
          /\ cmd' = Mem!AfterWrite(file, Len(seen), Line(n), b)
          /\ torn' = (torn \/ Mem!Copied(Len(seen), n) < n)
    BY <1>3 DEF AppendCommand
  <2>2. Finish(a, "append") /\ raced' = (raced \/ seen # Prefix(cmd, CmdMax))
        /\ UNCHANGED <<wbuf, dirty, reg, desk, done, slot, claimRaced>>
    BY <1>3 DEF AppendCommand
  <2>3. app[a].op = "append" /\ seen \in Seq(Int)
    BY <2>2 DEF Finish, FilesInv, FilesTypes
  <2>4. Line(n) \in Seq(Letters) /\ Len(Line(n)) = n /\ Line(n) \in Seq(Int) /\ n \in Nat \ {0}
    <3>1. n \in Nat \ {0}
      BY DEF FilesAssumption
    <3>2. Len(sent) + 1 \in Letters /\ End \in Letters /\ Len(sent) + 1 \in Int /\ End \in Int
      BY <1>1 DEF Letters, End
    <3> QED BY <3>1, <3>2 DEF Line
  <2>5. b \in Int
    BY DEF Nul, Stale
  <2>6. file \in Seq(Int) /\ Len(file) >= Len(cmd) /\ (Len(cmd) <= Len(seen) => file = seen)
        /\ Len(file) >= Len(seen)
    BY <1>1, <2>3, OverReplaces
  <2>7. Len(seen) \in Nat /\ Len(seen) <= Len(file)
    BY <2>3, <2>6
  <2> HIDE DEF file
  <2>8. /\ cmd' \in Seq(Int) /\ Len(cmd') >= Len(file)
        /\ Len(seen) = Len(file) /\ ~ (Mem!Copied(Len(seen), n) < n) =>
               /\ Len(cmd') = Len(seen) + n
               /\ \A i \in 1..Len(seen)+n : cmd'[i] = IF i <= Len(seen) THEN file[i] ELSE Line(n)[i - Len(seen)]
    <3> DEFINE line == Line(n)
               at == Len(seen)
    <3>1. line \in Seq(Int) /\ Len(line) = n /\ cmd' = Mem!AfterWrite(file, at, line, b) /\ at \in Nat /\ at <= Len(file)
      BY <2>1, <2>4, <2>7
    <3> HIDE DEF line, at
    <3>2. /\ Mem!AfterWrite(file, at, line, b) \in Seq(Int)
          /\ Len(Mem!AfterWrite(file, at, line, b)) >= Len(file)
          /\ at = Len(file) /\ ~ (Mem!Copied(at, Len(line)) < Len(line)) =>
               /\ Len(Mem!AfterWrite(file, at, line, b)) = at + Len(line)
               /\ \A i \in 1..at+Len(line) : Mem!AfterWrite(file, at, line, b)[i] = IF i <= at THEN file[i] ELSE line[i - at]
      <4>1. file \in Seq(Int) /\ line \in Seq(Int) /\ at \in Nat /\ b \in Int /\ at <= Len(file)
        BY <2>5, <2>6, <3>1
      <4> QED BY <4>1, StoredWhole
    <3>3. /\ cmd' \in Seq(Int) /\ Len(cmd') >= Len(file)
          /\ at = Len(file) /\ ~ (Mem!Copied(at, n) < n) =>
               /\ Len(cmd') = at + n
               /\ \A i \in 1..at+n : cmd'[i] = IF i <= at THEN file[i] ELSE line[i - at]
      BY <3>1, <3>2
    <3> QED BY <3>3 DEF line, at
  <2>9. sent' \in Seq(Letters) /\ Len(sent') = Len(sent) + n
        /\ \A i \in 1..Len(sent)+n : sent'[i] = IF i <= Len(sent) THEN sent[i] ELSE Line(n)[i - Len(sent)]
    <3> DEFINE line == Line(n)
    <3>1. line \in Seq(Letters) /\ Len(line) = n /\ sent' = sent \o line
      BY <2>1, <2>4
    <3> HIDE DEF line
    <3>2. sent' \in Seq(Letters) /\ Len(sent') = Len(sent) + n
          /\ \A i \in 1..Len(sent)+n : sent'[i] = IF i <= Len(sent) THEN sent[i] ELSE line[i - Len(sent)]
      <4>1. sent \in Seq(Letters) /\ n \in Nat
        BY <1>1, <2>4
      <4>2. sent \o line \in Seq(Letters) /\ Len(sent \o line) = Len(sent) + n
        <5>1. ASSUME NEW S, NEW u \in Seq(S), NEW v \in Seq(S)
              PROVE  u \o v \in Seq(S) /\ Len(u \o v) = Len(u) + Len(v)
          OBVIOUS
        <5>2. line \in Seq(Letters) /\ Len(line) = n
          BY <3>1
        <5> QED BY <4>1, <5>1, <5>2
      <4>3. \A i \in 1..Len(sent)+n : (sent \o line)[i] = IF i <= Len(sent) THEN sent[i] ELSE line[i - Len(sent)]
        BY <3>1, <4>1
      <4> QED BY <3>1, <4>2, <4>3
    <3> QED BY <3>2 DEF line
  <2>10. FilesTypes'
    <3>1. /\ app' \in [Apps -> [op : {"none", "append", "second", "claim"}, seen : Seq(Int) \union Seq(Apps)]]
          /\ \A c \in Apps : /\ app'[c].op = "append" => app'[c].seen \in Seq(Int)
                             /\ app'[c].op = "claim" => app'[c].seen \in Seq(Apps)
      BY <2>2, <2>3, AppSteps DEF FilesInv
    <3> QED BY <2>2, <2>8, <2>9, <3>1 DEF FilesInv, FilesTypes
  <2>11. CommandsInOrder'
    <3> SUFFICES ASSUME ~ raced', ~ torn', Len(cmd') <= CmdMax
                 PROVE  (\E k \in 0..Len(sent) : done = SubSeq(sent, 1, k) /\ cmd = Waiting(k, sent))'
      BY DEF CommandsInOrder
    <3>1. ~ raced /\ ~ torn /\ seen = Prefix(cmd, CmdMax) /\ ~ (Mem!Copied(Len(seen), n) < n)
      BY <2>1, <2>2
    <3>2. Len(cmd) <= CmdMax
      BY <1>1, <2>6, <2>8
    <3>3. seen = cmd /\ file = cmd
      <4>1. Prefix(cmd, CmdMax) = cmd
        BY <1>1, <3>2, PrefixWhole
      <4>2. seen = cmd
        BY <3>1, <4>1
      <4>3. Len(cmd) <= Len(seen)
        BY <1>1, <4>2
      <4> QED BY <2>6, <4>2, <4>3
    <3>4. PICK k \in 0..Len(sent) : done = SubSeq(sent, 1, k) /\ cmd = Waiting(k, sent)
      BY <3>1, <3>2 DEF FilesInv, CommandsInOrder
    <3>5. Len(cmd) = Len(sent) /\ \A i \in 1..Len(sent) : cmd[i] = IF i <= k THEN Blank ELSE sent[i]
      BY <1>1, <3>4, WaitingIsString
    <3>6. k \in 0..Len(sent')
      BY <1>1, <2>4, <2>9, <3>4
    <3>7. Len(Waiting(k, sent')) = Len(sent') /\ Waiting(k, sent') \in Seq(Int)
          /\ \A i \in 1..Len(sent') : Waiting(k, sent')[i] = IF i <= k THEN Blank ELSE sent'[i]
      BY <2>9, <3>6, WaitingIsString
    <3>8. Len(cmd') = Len(sent') /\ \A i \in 1..Len(sent') : cmd'[i] = IF i <= k THEN Blank ELSE sent'[i]
      <4>1. Len(cmd') = Len(sent) + n
            /\ \A i \in 1..Len(sent)+n : cmd'[i] = IF i <= Len(sent) THEN cmd[i] ELSE Line(n)[i - Len(sent)]
        BY <2>8, <3>1, <3>3, <3>5
      <4>2. \A i \in 1..Len(sent)+n : i <= Len(sent) => i \in 1..Len(sent)
        BY <1>1
      <4>3. \A i \in 1..Len(sent)+n : ~ (i <= Len(sent)) => ~ (i <= k)
        BY <1>1, <3>4
      <4> QED BY <2>9, <3>5, <4>1, <4>2, <4>3
    <3>9. cmd' = Waiting(k, sent')
      BY <2>8, <3>7, <3>8, SameSequence
    <3>10. SubSeq(sent', 1, k) = SubSeq(sent, 1, k)
      <4>1. \A i \in 1..k : sent'[i] = sent[i]
        BY <1>1, <2>4, <2>9, <3>4
      <4> QED BY <1>1, <2>4, <2>9, <3>4, <4>1
    <3> QED BY <2>2, <3>4, <3>6, <3>9, <3>10
  <2>12. BuffersShown'
    <3>1. \A c \in Apps : app'[c].op # "second" => app[c].op # "second"
      BY <2>2, <2>3 DEF Finish, FilesInv, FilesTypes
    <3> QED BY <2>2, <3>1 DEF FilesInv, BuffersShown
  <2>13. (SlotsInRegistry /\ SlotsDistinct)'
    BY <2>2 DEF FilesInv, SlotsInRegistry, SlotsDistinct
  <2> QED BY <2>10, <2>11, <2>12, <2>13 DEF FilesInv
<1> QED BY <1>2, <1>3

(* The desktop blanks every command it has read, and only those.            *)
LEMMA ClearSteps ==
  ASSUME FilesAssumption, FilesInv, ReadCommands \/ ClearCommands
  PROVE  FilesInv'
<1>1. CmdMax \in Nat /\ cmd \in Seq(Int) /\ sent \in Seq(Letters)
      /\ desk \in [at : {"commands", "clear", "dirty", "wipe", "refresh"}, seen : Seq(Int),
                   full : BOOLEAN, shown : [Apps -> Nat]]
  BY DEF FilesAssumption, FilesInv, FilesTypes
<1>2. UNCHANGED <<app, wbuf, dirty, reg, sent, torn, slot, claimRaced>>
  BY DEF ReadCommands, ClearCommands
<1>3. CASE ReadCommands
  <2>1. desk' = [desk EXCEPT !.seen = Prefix(cmd, CmdMax),
                            !.at = IF StringIn(Prefix(cmd, CmdMax)) = <<>> THEN "dirty" ELSE "clear"]
        /\ UNCHANGED <<cmd, done, raced>> /\ desk.at = "commands"
    BY <1>3 DEF ReadCommands
  <2>2. Prefix(cmd, CmdMax) \in Seq(Int)
    BY <1>1, PrefixWhole
  <2>3. desk' \in [at : {"commands", "clear", "dirty", "wipe", "refresh"}, seen : Seq(Int),
                   full : BOOLEAN, shown : [Apps -> Nat]]
        /\ desk'.shown = desk.shown
    BY <1>1, <2>1, <2>2
  <2>4. FilesTypes' /\ CommandsInOrder'
    BY <1>2, <2>1, <2>3 DEF FilesInv, FilesTypes, CommandsInOrder
  <2>5. BuffersShown'
    BY <1>2, <2>1, <2>3 DEF FilesInv, BuffersShown
  <2>6. (SlotsInRegistry /\ SlotsDistinct)'
    BY <1>2 DEF FilesInv, SlotsInRegistry, SlotsDistinct
  <2> QED BY <2>4, <2>5, <2>6 DEF FilesInv
<1>4. CASE ClearCommands
  <2> DEFINE m == Len(desk.seen)
             full == CommandsIn(StringIn(desk.seen)) # <<>>
  <2>1. desk' = [desk EXCEPT !.seen = <<>>, !.at = "dirty", !.full = full] /\ desk.at = "clear"
    BY <1>4 DEF ClearCommands
  <2>2. cmd' = Over(cmd, Cleared(m)) /\ done' = done \o CommandsIn(StringIn(desk.seen))
        /\ raced' = (raced \/ desk.seen # Prefix(cmd, CmdMax))
    BY <1>4 DEF ClearCommands
  <2>3. PICK f \in BOOLEAN : desk' = [desk EXCEPT !.seen = <<>>, !.at = "dirty", !.full = f]
    BY <2>1, Zenon
  <2> HIDE DEF full
  <2>4. desk' \in [at : {"commands", "clear", "dirty", "wipe", "refresh"}, seen : Seq(Int),
                   full : BOOLEAN, shown : [Apps -> Nat]]
        /\ desk'.shown = desk.shown
    <3>1. <<>> \in Seq(Int)
      OBVIOUS
    <3> QED BY <1>1, <2>3, <3>1
  <2>5. m \in Nat /\ Cleared(m) \in Seq(Int) /\ Len(Cleared(m)) = m
    BY <1>1 DEF Cleared, Blank
  <2>6. cmd' \in Seq(Int) /\ Len(cmd') >= Len(cmd) /\ (Len(cmd) <= m => cmd' = Cleared(m))
    BY <1>1, <2>2, <2>5, OverReplaces
  <2>7. FilesTypes'
    BY <1>2, <2>4, <2>6, SMTT(60) DEF FilesInv, FilesTypes
  <2>8. CommandsInOrder'
    <3> SUFFICES ASSUME ~ raced', ~ torn, Len(cmd') <= CmdMax
                 PROVE  (\E k \in 0..Len(sent) : done = SubSeq(sent, 1, k) /\ cmd = Waiting(k, sent))'
      BY <1>2 DEF CommandsInOrder
    <3>0. ~ raced /\ desk.seen = Prefix(cmd, CmdMax)
      BY <2>2
    <3>1. Len(cmd) <= CmdMax
      BY <1>1, <2>6
    <3>2. desk.seen = cmd
      BY <1>1, <3>0, <3>1, PrefixWhole
    <3>3. PICK k \in 0..Len(sent) : done = SubSeq(sent, 1, k) /\ cmd = Waiting(k, sent)
      BY <3>0, <3>1 DEF FilesInv, CommandsInOrder
    <3>4. done' = sent /\ sent = SubSeq(sent, 1, Len(sent))
      <4>1. SubSeq(sent, 1, k) \o CommandsIn(StringIn(Waiting(k, sent))) = sent
        BY <1>1, ObeyedAndWaiting
      <4>2. done' = SubSeq(sent, 1, k) \o CommandsIn(StringIn(Waiting(k, sent)))
        BY <2>2, <3>2, <3>3
      <4>3. SubSeq(sent, 1, Len(sent)) = sent
        BY <1>1
      <4> QED BY <4>1, <4>2, <4>3
    <3>5. m = Len(sent)
      BY <1>1, <3>2, <3>3, WaitingIsString
    <3>6. cmd' = Waiting(Len(sent), sent)
      BY <1>1, <2>6, <3>2, <3>5 DEF Waiting, Cleared
    <3>7. Len(sent) \in 0..Len(sent)
      BY <1>1
    <3> QED BY <1>2, <3>4, <3>6, <3>7
  <2>9. BuffersShown'
    BY <1>2, <2>1, <2>4 DEF FilesInv, BuffersShown
  <2>10. (SlotsInRegistry /\ SlotsDistinct)'
    BY <1>2 DEF FilesInv, SlotsInRegistry, SlotsDistinct
  <2> QED BY <2>7, <2>8, <2>9, <2>10 DEF FilesInv
<1> QED BY <1>3, <1>4

(* A window's contents change while its program has not marked them yet.    *)
LEMMA DrawSteps ==
  ASSUME FilesAssumption, FilesInv, NEW a \in Apps, Draw(a) \/ MarkDirty(a)
  PROVE  FilesInv'
<1>1. UNCHANGED <<cmd, reg, desk, sent, done, raced, torn, slot, claimRaced>>
  BY DEF Draw, MarkDirty
<1>2. (CommandsInOrder /\ SlotsInRegistry /\ SlotsDistinct)'
  BY <1>1 DEF FilesInv, CommandsInOrder, SlotsInRegistry, SlotsDistinct
<1>3. WinbufOrder[1] = "draw" /\ <<>> \in Seq(Int) /\ <<>> \in Seq(Apps)
  BY DEF WinbufOrder
<1>4. wbuf \in [Apps -> Nat]
  BY DEF FilesInv, FilesTypes
<1>5. CASE Draw(a)
  <2>1. Begin(a, "second", <<>>) /\ wbuf' = [wbuf EXCEPT ![a] = @ + 1] /\ dirty' = dirty
    BY <1>3, <1>5 DEF Draw
  <2>2. app'[a].op = "second" /\ \A b \in Apps : b # a => app'[b] = app[b] /\ wbuf'[b] = wbuf[b]
    BY <1>3, <1>4, <2>1, AppSteps DEF FilesInv
  <2>3. FilesTypes'
    <3>1. wbuf' \in [Apps -> Nat]
      BY <1>4, <2>1
    <3> QED BY <1>1, <1>3, <2>1, <3>1, AppSteps DEF FilesInv, FilesTypes
  <2>4. BuffersShown'
    BY <1>1, <2>1, <2>2 DEF FilesInv, BuffersShown
  <2> QED BY <1>2, <2>3, <2>4 DEF FilesInv
<1>6. CASE MarkDirty(a)
  <2>1. Finish(a, "second") /\ dirty' = TRUE /\ wbuf' = wbuf
    BY <1>3, <1>6 DEF MarkDirty
  <2>2. FilesTypes'
    BY <1>1, <1>3, <1>4, <2>1, AppSteps DEF FilesInv, FilesTypes
  <2>3. BuffersShown'
    BY <2>1 DEF BuffersShown
  <2> QED BY <1>2, <2>2, <2>3 DEF FilesInv
<1> QED BY <1>5, <1>6

(* The desktop reads the contents after it has wiped the mark.              *)
LEMMA RefreshSteps ==
  ASSUME FilesInv, CheckDirty \/ WipeDirty \/ refresh_win_bufs
  PROVE  FilesInv'
<1>1. UNCHANGED <<cmd, reg, wbuf, app, sent, done, raced, torn, slot, claimRaced>>
  BY DEF CheckDirty, WipeDirty, refresh_win_bufs
<1>2. (CommandsInOrder /\ SlotsInRegistry /\ SlotsDistinct)'
  BY <1>1 DEF FilesInv, CommandsInOrder, SlotsInRegistry, SlotsDistinct
<1>3. desk \in [at : {"commands", "clear", "dirty", "wipe", "refresh"}, seen : Seq(Int),
                full : BOOLEAN, shown : [Apps -> Nat]] /\ wbuf \in [Apps -> Nat]
  BY DEF FilesInv, FilesTypes
<1>4. CASE CheckDirty
  <2>1. PICK at \in {"wipe", "refresh", "commands"} :
           desk' = [desk EXCEPT !.at = at] /\ (dirty => at = "wipe")
    BY <1>4 DEF CheckDirty
  <2>2. desk.at = "dirty" /\ dirty' = dirty
    BY <1>4 DEF CheckDirty
  <2>3. FilesTypes'
    BY <1>1, <1>3, <2>1 DEF FilesInv, FilesTypes
  <2>4. BuffersShown'
    BY <1>1, <1>3, <2>1, <2>2 DEF FilesInv, BuffersShown
  <2> QED BY <1>2, <2>3, <2>4 DEF FilesInv
<1>5. CASE WipeDirty
  <2>1. desk' = [desk EXCEPT !.at = "refresh"]
    BY <1>5 DEF WipeDirty
  <2>2. FilesTypes'
    BY <1>1, <1>3, <2>1 DEF FilesInv, FilesTypes
  <2>3. BuffersShown'
    BY <1>3, <2>1 DEF BuffersShown
  <2> QED BY <1>2, <2>2, <2>3 DEF FilesInv
<1>6. CASE refresh_win_bufs
  <2>1. desk' = [desk EXCEPT !.at = "commands", !.full = FALSE, !.shown = wbuf]
    BY <1>6 DEF refresh_win_bufs
  <2>2. FilesTypes'
    BY <1>1, <1>3, <2>1 DEF FilesInv, FilesTypes
  <2>3. BuffersShown'
    BY <1>1, <1>3, <2>1 DEF BuffersShown
  <2> QED BY <1>2, <2>2, <2>3 DEF FilesInv
<1> QED BY <1>4, <1>5, <1>6

(* A slot claimed without a race is the number of a new line.               *)
LEMMA ClaimSteps ==
  ASSUME FilesAssumption, FilesInv, NEW a \in Apps, ReadRegistry(a) \/ claim_slot(a) \/ Restarts(a)
  PROVE  FilesInv'
<1>1. UNCHANGED <<cmd, wbuf, dirty, desk, sent, done, raced, torn>>
  BY DEF ReadRegistry, claim_slot, Restarts
<1>2. CommandsInOrder'
  BY <1>1 DEF FilesInv, CommandsInOrder
<1>3. reg \in Seq(Apps) /\ slot \in [Apps -> Nat \union {Unset}] /\ RegMax \in Nat
  BY DEF FilesInv, FilesTypes, FilesAssumption
<1>4. CASE ReadRegistry(a)
  <2>0. Prefix(reg, RegMax) \in Seq(Apps) /\ Prefix(reg, RegMax) \in Seq(Int) \union Seq(Apps)
    BY <1>3, PrefixWhole
  <2>1. Begin(a, "claim", Prefix(reg, RegMax)) /\ UNCHANGED <<reg, slot, claimRaced>>
    BY <1>4 DEF ReadRegistry
  <2>2. FilesTypes'
    BY <1>1, <1>3, <2>0, <2>1, AppSteps DEF FilesInv, FilesTypes
  <2>3. \A b \in Apps : app'[b].op # "second" => app[b].op # "second"
    BY <1>3, <2>0, <2>1, AppSteps DEF FilesInv
  <2>4. BuffersShown'
    BY <1>1, <2>3 DEF FilesInv, BuffersShown
  <2>5. (SlotsInRegistry /\ SlotsDistinct)'
    BY <2>1 DEF FilesInv, SlotsInRegistry, SlotsDistinct
  <2> QED BY <1>2, <2>2, <2>4, <2>5 DEF FilesInv
<1>5. CASE claim_slot(a)
  <2> DEFINE seen == app[a].seen
             line == Claimed(seen, a)
  <2>1. Finish(a, "claim") /\ reg' = Over(reg, line) /\ slot' = [slot EXCEPT ![a] = Len(seen)]
        /\ claimRaced' = (claimRaced \/ seen # Prefix(reg, RegMax))
    BY <1>5 DEF claim_slot
  <2>2. app[a].op = "claim" /\ seen \in Seq(Apps)
    BY <2>1 DEF Finish, FilesInv, FilesTypes
  <2>3. line \in Seq(Apps) /\ Len(line) = Len(seen) + 1 /\ Len(seen) \in Nat
    BY <2>2 DEF Claimed
  <2> HIDE DEF line
  <2>4. reg' \in Seq(Apps) /\ Len(reg') >= Len(reg) /\ (Len(reg) <= Len(line) => reg' = line)
    BY <1>3, <2>1, <2>3, OverReplaces
  <2>5. FilesTypes'
    BY <1>1, <1>3, <2>1, <2>2, <2>3, <2>4, AppSteps DEF FilesInv, FilesTypes
  <2>6. \A b \in Apps : app'[b].op # "second" => app[b].op # "second"
    BY <2>1, <2>2 DEF Finish, FilesInv, FilesTypes
  <2>7. BuffersShown'
    BY <1>1, <2>6 DEF FilesInv, BuffersShown
  <2>8. ASSUME ~ claimRaced', Len(reg') <= RegMax
        PROVE  /\ Len(reg') = Len(reg) + 1 /\ slot'[a] = Len(reg)
               /\ \A b \in Apps : b # a => slot'[b] = slot[b]
               /\ \A b \in Apps : slot[b] # Unset => slot[b] < Len(reg)
               /\ \A b, c \in Apps : b # c /\ slot[b] # Unset => slot[b] # slot[c]
    <3>0. Len(reg) <= RegMax
      BY <1>3, <2>4, <2>8
    <3>1. ~ claimRaced /\ seen = reg
      BY <1>3, <2>1, <2>8, <3>0, PrefixWhole
    <3>2. Len(reg') = Len(reg) + 1
      BY <1>3, <2>3, <2>4, <3>1
    <3>3. SlotsInRegistry /\ SlotsDistinct
      BY DEF FilesInv
    <3> QED BY <1>3, <2>1, <3>0, <3>1, <3>2, <3>3 DEF SlotsInRegistry, SlotsDistinct
  <2>9. SlotsInRegistry'
    BY <1>3, <2>8 DEF SlotsInRegistry, Unset
  <2>10. SlotsDistinct'
    <3> SUFFICES ASSUME ~ claimRaced', Len(reg') <= RegMax, NEW b \in Apps, NEW c \in Apps, b # c, slot'[b] # Unset
                 PROVE  slot'[b] # slot'[c]
      BY DEF SlotsDistinct
    <3>1. Len(reg) \in Nat /\ Unset \notin Nat /\ \A x \in Apps : slot[x] \in Nat \union {Unset}
      BY <1>3 DEF Unset
    <3> QED BY <2>8, <3>1
  <2> QED BY <1>2, <2>5, <2>7, <2>9, <2>10 DEF FilesInv
<1>6. CASE Restarts(a)
  <2>1. slot' = [slot EXCEPT ![a] = Unset] /\ UNCHANGED <<reg, app, claimRaced>>
    BY <1>6 DEF Restarts
  <2>2. FilesTypes' /\ BuffersShown'
    BY <1>1, <1>3, <2>1 DEF FilesInv, FilesTypes, BuffersShown
  <2>3. SlotsInRegistry'
    BY <1>3, <2>1 DEF FilesInv, SlotsInRegistry
  <2>4. SlotsDistinct'
    BY <1>3, <2>1 DEF FilesInv, SlotsDistinct
  <2> QED BY <1>2, <2>2, <2>3, <2>4 DEF FilesInv
<1> QED BY <1>4, <1>5, <1>6

(* Every step keeps the files in order.                                     *)
LEMMA FilesStep ==
  ASSUME FilesAssumption, FilesInv, [FilesNext]_filesVars
  PROVE  FilesInv'
<1>1. CASE \E a \in Apps : ReadCommandFile(a) \/ AppendCommand(a)
  BY <1>1, CommandSteps
<1>2. CASE \E a \in Apps : Draw(a) \/ MarkDirty(a)
  BY <1>2, DrawSteps
<1>3. CASE \E a \in Apps : ReadRegistry(a) \/ claim_slot(a) \/ Restarts(a)
  BY <1>3, ClaimSteps
<1>4. CASE ReadCommands \/ ClearCommands
  BY <1>4, ClearSteps
<1>5. CASE CheckDirty \/ WipeDirty \/ refresh_win_bufs
  BY <1>5, RefreshSteps
<1>6. CASE UNCHANGED filesVars
  <2>1. UNCHANGED <<cmd, wbuf, dirty, reg, app, desk, sent, done, raced, torn, slot, claimRaced>>
    BY <1>6 DEF filesVars
  <2>2. FilesTypes' /\ CommandsInOrder'
    BY <2>1 DEF FilesInv, FilesTypes, CommandsInOrder
  <2>3. (BuffersShown /\ SlotsInRegistry /\ SlotsDistinct)'
    BY <2>1 DEF FilesInv, BuffersShown, SlotsInRegistry, SlotsDistinct
  <2> QED BY <2>2, <2>3 DEF FilesInv
<1> QED BY <1>1, <1>2, <1>3, <1>4, <1>5, <1>6 DEF FilesNext

(* Whatever programs and the desktop interleave, files keep this order.     *)
LEMMA FilesInvariant ==
  ASSUME FilesAssumption
  PROVE  FilesSpec => []FilesInv
<1>1. FilesInit => FilesInv
  BY FilesStart
<1>2. FilesInv /\ [FilesNext]_filesVars => FilesInv'
  BY FilesStep
<1> QED BY <1>1, <1>2, PTL DEF FilesSpec

(* The desktop obeys each command once and in order, as long as no write    *)
(* came after a read that was stale, memcpy cut no line and the file has    *)
(* not filled up, and a drawing whose mark it has seen is what it shows.    *)
THEOREM SharedFilesRelayed ==
  ASSUME FilesAssumption
  PROVE  FilesSpec => []Relayed
<1>1. FilesInv => Relayed
  BY InOrderIsOnce DEF FilesInv, Relayed
<1> QED BY <1>1, FilesInvariant, PTL

(* Programs that claim a place in the registry one after the other get      *)
(* different ones while claim_slot can read all of it.                      *)
THEOREM SharedFilesSlotsDistinct ==
  ASSUME FilesAssumption
  PROVE  FilesSpec => []SlotsDistinct
<1>1. FilesInv => SlotsDistinct
  BY DEF FilesInv
<1> QED BY <1>1, FilesInvariant, PTL

-----------------------------------------------------------------------------
(* Volume.  The table before and after the partition was made; it depends   *)
(* on the drive only, so making it again changes nothing.                   *)
NoTable == [signed |-> FALSE, slots |-> <<EmptySlot, EmptySlot, EmptySlot, EmptySlot>>]
Entry == [type |-> "fat32_lba", start |-> StartLba, count |-> PartitionSectors]
Table == [signed |-> TRUE, slots |-> <<Entry, EmptySlot, EmptySlot, EmptySlot>>]

VolInv ==
    /\ drive \in Nat
    /\ mbr = NoTable \/ mbr = Table
    /\ mbr = Table => PartitionSectors >= PartSecSize
    /\ partitions = <<>> \/ (mbr = Table /\ partitions = <<Entry>>)
    /\ area["boot"].by = "format" => mbr = Table /\ area["boot"].count = PartitionSectors
    /\ volume = Unmounted \/
          (mbr = Table /\ volume = [start |-> StartLba, fatSize |-> FatSize(PartitionSectors)])

(* The partition is what partition_init finds in the table.                 *)
LEMMA InUseEntry == InUse(Table.slots) = <<Entry>>
<1> DEFINE s == <<Entry, EmptySlot, EmptySlot, EmptySlot>>
           Walked(u) == [i \in 0..Len(s) |->
                         IF i = 0 THEN <<>>
                         ELSE IF s[i].type = "empty" THEN u[i-1] ELSE Append(u[i-1], s[i])]
           upto == CHOOSE u : u = Walked(u)
           w == [i \in 0..4 |-> IF i = 0 THEN <<>> ELSE <<Entry>>]
<1>1. Table.slots = s
  BY DEF Table
<1>2. Len(s) = 4 /\ s[1] = Entry /\ s[2].type = "empty" /\ s[3].type = "empty" /\ s[4].type = "empty"
      /\ Entry.type # "empty"
  BY DEF EmptySlot, Entry
<1> HIDE DEF s
<1>3. w = Walked(w)
  <2>1. ASSUME NEW i \in 0..4
        PROVE  w[i] = IF i = 0 THEN <<>> ELSE IF s[i].type = "empty" THEN w[i-1] ELSE Append(w[i-1], s[i])
    <3>1. CASE i = 0
      BY <3>1
    <3>2. CASE i = 1
      <4>1. w[i] = <<Entry>> /\ w[i-1] = <<>> /\ s[i] = Entry
        BY <3>2, <1>2
      <4>2. Append(<<>>, Entry) = <<Entry>>
        OBVIOUS
      <4> QED BY <4>1, <4>2, <3>2, <1>2
    <3>3. CASE i \in 2..4
      <4>1. w[i] = w[i-1] /\ s[i].type = "empty" /\ i # 0
        <5>1. i # 0 /\ i - 1 \in 0..4 /\ i - 1 # 0
          BY <3>3
        <5>2. s[i].type = "empty"
          BY <3>3, <1>2
        <5>3. w[i] = <<Entry>> /\ w[i-1] = <<Entry>>
          BY <5>1
        <5> QED BY <5>1, <5>2, <5>3
      <4> QED BY <4>1
    <3> QED BY <3>1, <3>2, <3>3
  <2>2. w = [i \in 0..4 |-> IF i = 0 THEN <<>>
                            ELSE IF s[i].type = "empty" THEN w[i-1] ELSE Append(w[i-1], s[i])]
    BY <2>1
  <2> HIDE DEF w
  <2>3. 0..Len(s) = 0..4
    BY <1>2
  <2> QED BY <2>2, <2>3, Zenon
<1>4. upto = Walked(upto)
  BY <1>3
<1>5. \A i \in 0..4 : upto[i] = IF i = 0 THEN <<>>
                                ELSE IF s[i].type = "empty" THEN upto[i-1] ELSE Append(upto[i-1], s[i])
  BY <1>2, <1>4
<1> HIDE DEF upto
<1>6. upto[0] = <<>>
  BY <1>5
<1>7. upto[1] = Append(<<>>, Entry)
  <2>1. upto[1] = IF s[1].type = "empty" THEN upto[0] ELSE Append(upto[0], s[1])
    BY <1>5
  <2> QED BY <2>1, <1>2, <1>6, Zenon
<1>8. upto[4] = upto[1]
  <2>1. upto[4] = upto[3] /\ upto[3] = upto[2] /\ upto[2] = upto[1]
    BY <1>2, <1>5
  <2> QED BY <2>1
<1>9. InUse(s) = upto[4]
  BY <1>2 DEF InUse, upto
<1> QED BY <1>1, <1>7, <1>8, <1>9

(* Every step keeps table, partitions and volume in agreement.              *)
LEMMA VolStep ==
  ASSUME VolInv, [VolNext]_volVars
  PROVE  VolInv'
<1>1. CASE partition_init
  <2>1. UNCHANGED <<drive, mbr, area, volume>>
    BY <1>1 DEF partition_init
  <2>2. partitions' = <<>> \/ (mbr.signed /\ partitions' = InUse(mbr.slots))
    BY <1>1 DEF partition_init
  <2>3. ~ NoTable.signed
    BY DEF NoTable
  <2>4. partitions' = <<>> \/ (mbr = Table /\ partitions' = <<Entry>>)
    BY <2>2, <2>3, InUseEntry, Zenon DEF VolInv
  <2> QED BY <2>1, <2>4 DEF VolInv, Table, Entry, PartitionSectors
<1>2. CASE partition_format_disk_fat32
  <2>1. UNCHANGED <<drive, partitions, area, volume>> /\ mbr' = Table
    BY <1>2 DEF partition_format_disk_fat32, Table, Entry
  <2>2. PartitionSectors >= PartSecSize
    BY <1>2 DEF partition_format_disk_fat32
  <2>3. Table' = Table /\ Entry' = Entry /\ PartitionSectors' = PartitionSectors
    BY <2>1 DEF Table, Entry, PartitionSectors
  <2> QED BY <2>1, <2>2, <2>3 DEF VolInv
<1>3. CASE fat32_format_partition
  <2>1. UNCHANGED <<drive, mbr, partitions, volume>>
    BY <1>3 DEF fat32_format_partition
  <2>2. PICK i \in DOMAIN partitions : \E formatted :
           area' = [a \in AreaNames |-> IF a \in formatted THEN [by |-> "format", count |-> partitions[i].count]
                                        ELSE area[a]]
    <3>1. PICK i \in DOMAIN partitions, failed \in SUBSET AreaNames :
             LET p == partitions[i]
                 stop == SelectInSeq(FormatOrder, LAMBDA a : a \in failed \intersect Checked)
                 reached == {FormatOrder[k] : k \in 1..(IF stop = 0 THEN 8 ELSE stop)}
             IN  area' = [a \in AreaNames |->
                            IF a \in reached \ failed THEN [by |-> "format", count |-> p.count]
                            ELSE area[a]]
      BY <1>3 DEF fat32_format_partition
    <3> QED BY <3>1
  <2>3. area'["boot"] = area["boot"] \/ area'["boot"] = [by |-> "format", count |-> partitions[i].count]
    BY <2>2 DEF AreaNames
  <2>4. mbr = Table /\ partitions[i].count = PartitionSectors
    BY <2>2 DEF VolInv, Entry
  <2>5. area'["boot"].by = "format" => mbr = Table /\ area'["boot"].count = PartitionSectors
    BY <2>3, <2>4 DEF VolInv
  <2>6. Table' = Table /\ Entry' = Entry /\ PartitionSectors' = PartitionSectors
    BY <2>1 DEF Table, Entry, PartitionSectors
  <2> QED BY <2>1, <2>5, <2>6 DEF VolInv
<1>4. CASE fat32_init_volume
  <2>1. UNCHANGED <<drive, mbr, partitions, area>>
    BY <1>4 DEF fat32_init_volume
  <2>2. PICK i \in DOMAIN partitions :
           /\ area["boot"].by = "format"
           /\ volume' = [start |-> partitions[i].start, fatSize |-> FatSize(area["boot"].count)]
    BY <1>4 DEF fat32_init_volume
  <2>3. mbr = Table /\ partitions[i].start = StartLba /\ area["boot"].count = PartitionSectors
    BY <2>2 DEF VolInv, Entry
  <2>4. Table' = Table /\ Entry' = Entry /\ PartitionSectors' = PartitionSectors
        /\ FatSize(PartitionSectors)' = FatSize(PartitionSectors)
    BY <2>1 DEF Table, Entry, PartitionSectors
  <2> QED BY <2>1, <2>2, <2>3, <2>4 DEF VolInv
<1>5. CASE Restart
  <2>1. UNCHANGED <<drive, mbr, area>> /\ partitions' = <<>> /\ volume' = Unmounted
    BY <1>5 DEF Restart
  <2> QED BY <2>1 DEF VolInv, Table, Entry, PartitionSectors
<1>6. CASE UNCHANGED volVars
  BY <1>6 DEF volVars, VolInv, Table, Entry, PartitionSectors
<1> QED BY <1>1, <1>2, <1>3, <1>4, <1>5, <1>6 DEF VolNext

(* The size of a table: one sector for 2050 sectors behind the reserved     *)
(* ones, rounded up.                                                        *)
LEMMA TableSize ==
  ASSUME NEW count \in Nat, count >= PartSecSize
  PROVE  /\ FatSize(count) \in Nat
         /\ FatSize(count) >= 2
         /\ 2050 * FatSize(count) <= count + 2017
<1> DEFINE c == count + 2017
<1>1. FatSize(count) = c \div 2050
  BY DEF FatSize, Reserved, SectorsPerCluster, NumFats
<1>2. c \in Nat /\ c >= 67553
  BY DEF PartSecSize
<1> HIDE DEF c
<1>3. c \div 2050 \in Nat /\ 2050 * (c \div 2050) <= c /\ c < 2050 * (c \div 2050) + 2050
  BY <1>2
<1>4. c \div 2050 >= 2
  BY <1>2, <1>3
<1> QED BY <1>1, <1>3, <1>4 DEF c

(* Where the areas of a format lie: behind each other and in the partition. *)
LEMMA AreasApart ==
  ASSUME NEW start \in Nat, NEW count \in Nat, count >= PartSecSize
  PROVE  LET at == Areas(start, count)
         IN  /\ \A a, b \in AreaNames : a # b => at[a][2] < at[b][1] \/ at[b][2] < at[a][1]
             /\ \A a \in AreaNames : at[a][1] >= start /\ at[a][2] < start + count
<1> DEFINE F == FatSize(count)
           at == Areas(start, count)
           first(a) == at[a][1]
           last(a) == at[a][2]
<1>1. F \in Nat /\ F >= 2 /\ 2050 * F <= count + 2017 /\ count >= 65536
  BY TableSize DEF PartSecSize
<1>2. /\ first("boot") = start /\ last("boot") = start
      /\ first("fsinfo") = start + 1 /\ last("fsinfo") = start + 1
      /\ first("backup") = start + 6 /\ last("backup") = start + 6
      /\ first("head1") = start + 32 /\ last("head1") = start + 32
  BY DEF Areas, FatStart, Reserved
<1>3. /\ first("rest1") = start + 33 /\ last("rest1") = start + 32 + F - 1
      /\ first("head2") = start + 32 + F /\ last("head2") = start + 32 + F
      /\ first("rest2") = start + 33 + F /\ last("rest2") = start + 32 + 2 * F - 1
      /\ first("root") = start + 32 + 2 * F /\ last("root") = start + 32 + 2 * F + 7
  <2> HIDE DEF F
  <2>1. /\ first("rest1") = start + 32 + 1 /\ last("rest1") = start + 32 + F - 1
        /\ first("head2") = start + 32 + F /\ last("head2") = start + 32 + F
        /\ first("rest2") = start + 32 + F + 1 /\ last("rest2") = start + 32 + 2 * F - 1
    BY <1>1 DEF Areas, FatStart, Reserved, F
  <2>2. first("root") = start + 32 + 2 * F /\ last("root") = start + 32 + 2 * F + 8 - 1
    BY <1>1 DEF Areas, RootLba, FatStart, Reserved, NumFats, SectorsPerCluster, F
  <2> QED BY <2>1, <2>2, <1>1
<1> HIDE DEF F, at, first, last
<1>4. \A a, b \in AreaNames : a # b => last(a) < first(b) \/ last(b) < first(a)
  BY <1>1, <1>2, <1>3 DEF AreaNames
<1>5. \A a \in AreaNames : first(a) >= start /\ last(a) < start + count
  BY <1>1, <1>2, <1>3 DEF AreaNames
<1> QED BY <1>4, <1>5 DEF first, last, at

(* The clusters of a mounted volume lie in its partition.                   *)
LEMMA ClustersFit ==
  ASSUME VolInv
  PROVE  ClustersInsidePartition
<1> DEFINE P == PartitionSectors
           F == FatSize(P)
<1> SUFFICES ASSUME volume # Unmounted, volume.fatSize * NumFats < 2^16
             PROVE  LET p == mbr.slots[1]
                        at == Areas(p.start, p.count)
                    IN  /\ cluster_to_Lba(volume, 2) = RootLba(p.start, p.count)
                        /\ cluster_to_Lba(volume, LastAllocatable(volume)) + SectorsPerCluster
                               <= p.start + p.count
                        /\ p.start > 0 /\ p.start + p.count <= drive
                        /\ \A a, b \in AreaNames : a # b => at[a][2] < at[b][1] \/ at[b][2] < at[a][1]
                        /\ \A a \in AreaNames : at[a][1] >= p.start /\ at[a][2] < p.start + p.count
  BY DEF ClustersInsidePartition
<1>1. mbr = Table /\ volume = [start |-> StartLba, fatSize |-> F] /\ drive \in Nat /\ P >= PartSecSize
  BY DEF VolInv
<1>2. mbr.slots[1].start = StartLba /\ mbr.slots[1].count = P
  BY <1>1 DEF Table, Entry
<1>3. P \in Nat /\ P >= 65536 /\ StartLba + P <= drive /\ StartLba \in Nat /\ StartLba > 0
  BY <1>1 DEF PartitionSectors, PartSecSize, StartLba
<1>4. F \in Nat /\ F >= 2 /\ 2050 * F <= P + 2017
  BY <1>1, <1>3, TableSize
<1> HIDE DEF P, F
<1>5. 2 * F < 65536 /\ (F * 2) % 65536 = 2 * F /\ 2^16 = 65536
  <2>1. F * NumFats < 2^16 /\ 2^16 = 65536
    BY <1>1
  <2>2. F * 2 < 65536
    BY <2>1 DEF NumFats
  <2> QED BY <2>1, <2>2, <1>4
<1>6. cluster_to_Lba(volume, 2) = RootLba(StartLba, P)
  <2>1. cluster_to_Lba(volume, 2) = StartLba + 32 + 2 * F
    BY <1>1, <1>4, <1>5 DEF cluster_to_Lba, Reserved, NumFats, SectorsPerCluster, StartLba
  <2>2. RootLba(StartLba, P) = StartLba + 32 + 2 * F
    BY <1>3, <1>4 DEF RootLba, FatStart, Reserved, NumFats, StartLba, F
  <2> QED BY <2>1, <2>2
<1>7. cluster_to_Lba(volume, LastAllocatable(volume)) + SectorsPerCluster <= StartLba + P
  <2>1. LastAllocatable(volume) = 128 * F - 1
    <3>1. LastAllocatable(volume) = (F * 512) \div 4 - 1
      BY <1>1 DEF LastAllocatable
    <3>2. (F * 512) \div 4 = 128 * F
      BY <1>4
    <3> QED BY <3>1, <3>2, <1>4
  <2>2. cluster_to_Lba(volume, 128 * F - 1) = StartLba + 32 + 2 * F + (128 * F - 3) * 8
    BY <1>1, <1>4, <1>5 DEF cluster_to_Lba, Reserved, NumFats, SectorsPerCluster, StartLba
  <2>3. 32 + 2 * F + (128 * F - 3) * 8 + 8 <= P
    BY <1>3, <1>4
  <2> QED BY <2>1, <2>2, <2>3, <1>3, <1>4 DEF SectorsPerCluster, StartLba
<1>8. LET at == Areas(StartLba, P)
      IN  /\ \A a, b \in AreaNames : a # b => at[a][2] < at[b][1] \/ at[b][2] < at[a][1]
          /\ \A a \in AreaNames : at[a][1] >= StartLba /\ at[a][2] < StartLba + P
  BY <1>1, <1>3, AreasApart
<1>9. StartLba > 0 /\ StartLba + P <= drive
  BY <1>3
<1> QED BY <1>2, <1>6, <1>7, <1>8, <1>9

(* On every drive below 32 GiB the layout of the format and the clusters    *)
(* the allocator hands out lie in the partition, behind the tables, and do  *)
(* not overlap, whichever writes of the format failed and however often the *)
(* machine was restarted.                                                   *)
THEOREM VolumeClustersInside ==
  ASSUME VolumeAssumption
  PROVE  VolSpec => []ClustersInsidePartition
<1>1. VolInit => VolInv
  BY DEF VolInit, VolInv, VolumeAssumption, NoTable, Table, AreaNames
<1>2. VolInv /\ [VolNext]_volVars => VolInv'
  BY VolStep
<1>3. VolInv => ClustersInsidePartition
  BY ClustersFit
<1> QED BY <1>1, <1>2, <1>3, PTL DEF VolSpec

-----------------------------------------------------------------------------
(* Desktop.  The windows in their slots.                                    *)
Windows == [pid : Owners \union {0}, at : Places, home : Places, popup : Popups \union {FALSE},
            focused : BOOLEAN]

DeskTypes ==
    /\ wins \in [Slots -> Windows]
    /\ order \in Seq(Slots)
    /\ focus \in [pid : Owners \union {0}, idx : Slots \union {None}]
    /\ pressed \in Slots \union {None}
    /\ \A k \in DOMAIN order : Used(order[k])
    /\ pressed # None => Used(pressed)

(* Each slot is in the order once.                                          *)
OrderOnce == \A k, l \in DOMAIN order : order[k] = order[l] => k = l

(* A program that opened one window has one slot, and if it has the focus   *)
(* that slot has it: what opens later makes the program one of several.     *)
OneSlot == \A j, k \in Slots :
    Used(j) /\ wins[k].pid = wins[j].pid /\ wins[j].pid \notin several => j = k
FocusSlot == \A j \in Slots :
    Used(j) /\ wins[j].pid = focus.pid /\ focus.pid \notin several => focus.idx = j

DeskInv == DeskTypes /\ OrderOnce /\ OneSlot /\ FocusSlot /\ FocusedOnTop /\ PressedGetsEvents

(* What is left when a slot is taken out of an order: the order itself, or  *)
(* the others, each as often as before and the last one last.               *)
LEMMA TakenOut ==
  ASSUME NEW S, NEW s \in Seq(S), NEW e,
         \A k, l \in DOMAIN s : s[k] = s[l] => k = l
  PROVE  LET r == RemoveFirst(s, e)
         IN  /\ r \in Seq(S)
             /\ \A k \in DOMAIN r : r[k] # e /\ \E l \in DOMAIN s : r[k] = s[l]
             /\ \A k, l \in DOMAIN r : r[k] = r[l] => k = l
             /\ s # <<>> /\ Last(s) # e => r # <<>> /\ Last(r) = Last(s)
<1> DEFINE r == RemoveFirst(s, e)
<1>1. CASE ~ \E k \in 1..Len(s) : s[k] = e
  <2>1. r = s
    BY <1>1 DEF RemoveFirst
  <2> QED BY <2>1, <1>1
<1>2. CASE \E k \in 1..Len(s) : s[k] = e
  <2> DEFINE I == {i \in 1..Len(s) : s[i] = e}
  <2>1. I # {} /\ I \in SUBSET Nat
    BY <1>2
  <2>2. PICK i \in I : i = Min(I)
    BY <2>1, MinExists DEF Min
  <2>3. SelectInSeq(s, LAMBDA v : v = e) = i
    BY <2>1, <2>2 DEF SelectInSeq
  <2>4. r = RemoveAt(s, i)
    BY <1>2, <2>3 DEF RemoveFirst
  <2>5. r = SubSeq(s, 1, i-1) \o SubSeq(s, i+1, Len(s))
    BY <2>4 DEF RemoveAt
  <2> DEFINE n == Len(s)
  <2>6. n \in Nat /\ i \in 1..n /\ s[i] = e
    BY <2>2
  <2> DEFINE a == SubSeq(s, 1, i-1)
             b == SubSeq(s, i+1, n)
  <2>13. a \in Seq(S) /\ Len(a) = i - 1 /\ \A k \in 1..i-1 : a[k] = s[k]
    BY <2>6
  <2>14. b \in Seq(S) /\ Len(b) = n - i /\ \A k \in 1..n-i : b[k] = s[i + k]
    BY <2>6
  <2>15. r = a \o b
    BY <2>5
  <2> HIDE DEF a, b, r
  <2>7. r \in Seq(S) /\ Len(r) = n - 1
    BY <2>6, <2>13, <2>14, <2>15
  <2>8. ASSUME NEW k \in 1..n-1
        PROVE  r[k] = s[IF k < i THEN k ELSE k + 1]
    <3>1. CASE k < i
      BY <3>1, <2>6, <2>13, <2>14, <2>15
    <3>2. CASE ~ (k < i)
      <4>1. r[k] = b[k - (i - 1)]
        <5>1. (a \o b)[k] = IF k <= Len(a) THEN a[k] ELSE b[k - Len(a)]
          <6>1. k \in 1..Len(a) + Len(b)
            BY <2>6, <2>13, <2>14
          <6>2. a \in Seq(S) /\ b \in Seq(S)
            BY <2>13, <2>14
          <6> QED BY <6>1, <6>2
        <5>2. ~ (k <= Len(a)) /\ Len(a) = i - 1
          BY <3>2, <2>6, <2>13
        <5> QED BY <5>1, <5>2, <2>15
      <4>2. k - (i - 1) \in 1..n-i /\ i + (k - (i - 1)) = k + 1
        BY <3>2, <2>6
      <4> QED BY <4>1, <4>2, <3>2, <2>14
    <3> QED BY <3>1, <3>2
  <2> HIDE DEF r, I
  <2>9. \A k \in DOMAIN r : k \in 1..n-1 /\ (IF k < i THEN k ELSE k + 1) \in (1..n) \ {i}
    BY <2>6, <2>7
  <2>10. \A k \in DOMAIN r : r[k] # e /\ \E l \in DOMAIN s : r[k] = s[l]
    BY <2>6, <2>8, <2>9
  <2>11. ASSUME NEW k \in DOMAIN r, NEW l \in DOMAIN r, r[k] = r[l]
         PROVE  k = l
    <3>1. (IF k < i THEN k ELSE k + 1) = (IF l < i THEN l ELSE l + 1)
      BY <2>8, <2>9, <2>11
    <3> QED BY <3>1, <2>6, <2>9
  <2>12. ASSUME s # <<>>, Last(s) # e
         PROVE  r # <<>> /\ Last(r) = Last(s)
    <3>1. Last(s) = s[n] /\ i # n
      BY <2>6, <2>12 DEF Last
    <3>2. n - 1 \in 1..n-1 /\ ~ (n - 1 < i)
      BY <3>1, <2>6
    <3>3. r[n-1] = s[n]
      BY <3>2, <2>6, <2>8
    <3> QED BY <3>1, <3>2, <3>3, <2>7 DEF Last
  <2> QED BY <2>7, <2>10, <2>11, <2>12 DEF r
<1> QED BY <1>1, <1>2

(* The window a press hits is one in the order, if any.                     *)
LEMMA TopIsOrdered ==
  ASSUME NEW p, NEW ord \in Seq(Slots), NEW ws, TopAt(p, ord, ws) # None
  PROVE  \E k \in DOMAIN ord : TopAt(p, ord, ws) = ord[k]
<1> DEFINE here == {k \in DOMAIN ord : ws[ord[k]].at = p}
           back == {Len(ord) - k : k \in here}
<1>1. TopAt(p, ord, ws) = IF here = {} THEN None ELSE ord[Max(here)]
  BY DEF TopAt
<1>2. here # {} /\ here \subseteq 1..Len(ord) /\ Len(ord) \in Nat
  BY <1>1
<1>3. back # {} /\ back \in SUBSET Nat
  BY <1>2
<1> HIDE DEF here
<1>4. PICK m \in back : \A x \in back : m <= x
  BY <1>3, MinExists
<1>5. PICK k \in here : m = Len(ord) - k
  BY <1>4
<1>6. \A x \in here : k >= x
  <2> SUFFICES ASSUME NEW x \in here PROVE k >= x
    OBVIOUS
  <2>1. m <= Len(ord) - x
    BY <1>4
  <2> QED BY <2>1, <1>2, <1>5
<1>7. Max(here) \in here
  BY <1>6 DEF Max
<1>8. TopAt(p, ord, ws) = ord[Max(here)]
  BY <1>1, <1>2
<1>9. Max(here) \in DOMAIN ord
  BY <1>2, <1>7
<1> QED BY <1>8, <1>9

(* win_focus changes who is focused, and nothing else.                      *)
LEMMA FocusedFacts ==
  ASSUME NEW ws \in [Slots -> Windows], NEW i
  PROVE  /\ Focused(ws, i) \in [Slots -> Windows]
         /\ \A j \in Slots : /\ Focused(ws, i)[j].pid = ws[j].pid
                             /\ Focused(ws, i)[j].focused <=> (j = i /\ ws[j].pid # 0)
<1>1. ASSUME NEW j \in Slots
      PROVE  /\ Focused(ws, i)[j] \in Windows
             /\ Focused(ws, i)[j].pid = ws[j].pid
             /\ Focused(ws, i)[j].focused <=> (j = i /\ ws[j].pid # 0)
  <2>1. PICK f \in BOOLEAN : f <=> (j = i /\ ws[j].pid # 0)
    OBVIOUS
  <2>2. Focused(ws, i)[j] = [ws[j] EXCEPT !.focused = f]
    BY <2>1, Zenon DEF Focused
  <2>3. ws[j] \in Windows
    OBVIOUS
  <2>4. [ws[j] EXCEPT !.focused = f] \in Windows /\ [ws[j] EXCEPT !.focused = f].pid = ws[j].pid
    BY <2>3 DEF Windows
  <2>5. [ws[j] EXCEPT !.focused = f].focused = f
    BY <2>3 DEF Windows
  <2> QED BY <2>1, <2>2, <2>4, <2>5, Zenon
<1>2. DOMAIN Focused(ws, i) = Slots /\ Focused(ws, i) = [j \in Slots |-> Focused(ws, i)[j]]
  BY DEF Focused
<1> QED BY <1>1, <1>2, Zenon

(* win_find_pid finds a slot of the program if it has one.                  *)
LEMMA FoundSlot ==
  ASSUME NEW pid, NEW j \in Slots, wins[j].pid = pid, WinMax \in Nat
  PROVE  win_find_pid(pid) \in Slots /\ wins[win_find_pid(pid)].pid = pid
<1> DEFINE mine == {i \in Slots : wins[i].pid = pid}
<1>1. mine # {} /\ mine \in SUBSET Nat
  BY DEF Slots
<1>2. win_find_pid(pid) = CHOOSE i \in mine : \A k \in mine : i <= k
  BY <1>1 DEF win_find_pid
<1>3. win_find_pid(pid) \in mine
  <2> HIDE DEF mine
  <2> QED BY <1>1, <1>2, MinExists
<1> QED BY <1>3

(* And says so if it has none.                                              *)
LEMMA NoSlot ==
  ASSUME NEW pid, \A j \in Slots : wins[j].pid # pid
  PROVE  win_find_pid(pid) = None
BY DEF win_find_pid

(* Nothing is open at the start.                                            *)
LEMMA DeskStarts == ASSUME DesktopAssumption, DeskInit PROVE DeskInv
<1>1. NoWin \in Windows /\ NoWin.pid = 0 /\ ~ NoWin.focused
  BY DEF NoWin, Windows, Places, DesktopAssumption
<1>2. \A j \in Slots : wins[j] = NoWin
  BY DEF DeskInit
<1>3. order = <<>> /\ pressed = None
  BY DEF DeskInit
<1>4. DeskTypes
  BY <1>1, <1>3 DEF DeskInit, DeskTypes
<1>5. OrderOnce
  BY <1>3 DEF OrderOnce
<1>6. OneSlot /\ FocusSlot
  BY <1>1, <1>2 DEF OneSlot, FocusSlot, Used
<1>7. FocusedOnTop
  BY <1>1, <1>2 DEF FocusedOnTop
<1>8. PressedGetsEvents
  BY <1>3 DEF PressedGetsEvents
<1> QED BY <1>4, <1>5, <1>6, <1>7, <1>8 DEF DeskInv

(* Steps that move windows or repaint change no order and no focus.         *)
LEMMA WindowsStay ==
  ASSUME DeskInv, UNCHANGED <<order, focus, pressed, several>>, wins' \in [Slots -> Windows],
         \A j \in Slots : wins'[j].pid = wins[j].pid /\ wins'[j].focused = wins[j].focused
  PROVE  DeskInv'
<1>1. \A j \in Slots : Used(j)' <=> Used(j)
  BY DEF Used
<1>2. DeskTypes'
  BY <1>1 DEF DeskInv, DeskTypes, Used
<1>3. OrderOnce' /\ OneSlot' /\ FocusSlot'
  BY <1>1 DEF DeskInv, OrderOnce, OneSlot, FocusSlot
<1>4. FocusedOnTop' /\ PressedGetsEvents'
  <2>1. pressed # None => pressed \in Slots
    BY DEF DeskInv, DeskTypes
  <2> QED BY <1>1, <2>1 DEF DeskInv, FocusedOnTop, PressedGetsEvents
<1> QED BY <1>2, <1>3, <1>4 DEF DeskInv

(* A window that goes takes its focus and its presses with it.              *)
LEMMA RemovalKeeps ==
  ASSUME DesktopAssumption, DeskInv, NEW i \in Slots, Used(i), win_remove(i),
         UNCHANGED <<focus, several>>
  PROVE  DeskInv'
<1>1. NoWin \in Windows /\ NoWin.pid = 0 /\ ~ NoWin.focused
  BY DEF NoWin, Windows, Places, DesktopAssumption
<1>2. wins \in [Slots -> Windows] /\ order \in Seq(Slots) /\ OrderOnce
  BY DEF DeskInv, DeskTypes
<1>3. wins' = [wins EXCEPT ![i] = NoWin] /\ order' = RemoveFirst(order, i)
      /\ pressed' = IF pressed = i THEN None ELSE pressed
  BY DEF win_remove
<1>4. wins' \in [Slots -> Windows] /\ \A j \in Slots : wins'[j] = IF j = i THEN NoWin ELSE wins[j]
  BY <1>1, <1>2, <1>3
<1>5. \A j \in Slots : /\ Used(j)' <=> (Used(j) /\ j # i)
                       /\ wins'[j].pid # 0 <=> (Used(j) /\ j # i)
  BY <1>1, <1>4 DEF Used
<1>6. /\ order' \in Seq(Slots)
      /\ \A k \in DOMAIN order' : order'[k] # i /\ \E l \in DOMAIN order : order'[k] = order[l]
      /\ \A k, l \in DOMAIN order' : order'[k] = order'[l] => k = l
      /\ order # <<>> /\ Last(order) # i => order' # <<>> /\ Last(order') = Last(order)
  BY <1>2, <1>3, TakenOut DEF OrderOnce
<1>7. DeskTypes'
  <2>1. \A k \in DOMAIN order' : order'[k] \in Slots /\ wins'[order'[k]].pid # 0
    <3> SUFFICES ASSUME NEW k \in DOMAIN order'
                 PROVE  order'[k] \in Slots /\ wins'[order'[k]].pid # 0
      OBVIOUS
    <3>1. PICK l \in DOMAIN order : order'[k] = order[l]
      BY <1>6
    <3>2. order[l] \in Slots /\ Used(order[l]) /\ order[l] # i
      BY <1>2, <1>6, <3>1 DEF DeskInv, DeskTypes
    <3> QED BY <1>5, <3>1, <3>2
  <2>2. pressed' \in Slots \union {None} /\ (pressed' # None => Used(pressed') /\ pressed' # i)
    BY <1>3 DEF DeskInv, DeskTypes
  <2>3. pressed' # None => pressed' \in Slots /\ wins'[pressed'].pid # 0
    BY <1>5, <2>2
  <2> QED BY <1>4, <1>6, <2>1, <2>2, <2>3 DEF DeskInv, DeskTypes, Used
<1>8. OrderOnce'
  BY <1>6 DEF OrderOnce
<1>9. OneSlot'
  BY <1>1, <1>4, <1>5 DEF DeskInv, OneSlot, Used
<1>10. FocusSlot'
  BY <1>4, <1>5 DEF DeskInv, FocusSlot
<1>11. FocusedOnTop'
  BY <1>1, <1>4, <1>5, <1>6 DEF DeskInv, FocusedOnTop
<1>12. PressedGetsEvents'
  <2>1. pressed' # None => pressed' = pressed /\ pressed \in Slots /\ pressed # i
    BY <1>3 DEF DeskInv, DeskTypes
  <2> QED BY <1>4, <2>1 DEF DeskInv, PressedGetsEvents
<1> QED BY <1>7, <1>8, <1>9, <1>10, <1>11, <1>12 DEF DeskInv

(* The slot a new window gets is free.                                      *)
LEMMA FreeSlot ==
  ASSUME DesktopAssumption
  PROVE  LET i == SelectInSeq([k \in 1..WinMax |-> wins[k - 1].pid], LAMBDA w : w = 0) - 1
         IN  i = None \/ (i \in Slots /\ wins[i].pid = 0)
<1> DEFINE q == [k \in 1..WinMax |-> wins[k - 1].pid]
           I == {k \in 1..Len(q) : q[k] = 0}
           first == SelectInSeq(q, LAMBDA w : w = 0)
<1>1. WinMax \in Nat \ {0} /\ Len(q) = WinMax
  BY DEF DesktopAssumption
<1>2. first = IF I # {} THEN Min(I) ELSE 0
  BY DEF SelectInSeq
<1>3. first - 1 = None \/ (first - 1 \in Slots /\ wins[first - 1].pid = 0)
  <2>1. CASE I = {}
    <3>1. first = 0
      BY <1>2, <2>1
    <3> HIDE DEF first
    <3> QED BY <3>1 DEF None
  <2>2. CASE I # {}
    <3>1. I \in SUBSET Nat
      BY <1>1
    <3>2. PICK k \in I : k = Min(I)
      BY <2>2, <3>1, MinExists DEF Min
    <3>3. first = k
      BY <1>2, <2>2, <3>2
    <3>4. k \in 1..WinMax /\ wins[k - 1].pid = 0
      BY <1>1, <3>2
    <3> HIDE DEF first
    <3> QED BY <1>1, <3>3, <3>4 DEF Slots
  <2> QED BY <2>1, <2>2
<1> QED BY <1>3, Zenon

(* A window that opens is in front and the only one focused.  Its program   *)
(* is one of several windows if it had one, or the focus.                   *)
LEMMA OpeningKeeps ==
  ASSUME DesktopAssumption, DeskInv, NEW pid \in Owners, NEW p \in Places, NEW popup \in Popups,
         OpenWindow(pid, p, popup)
  PROVE  DeskInv'
<1> DEFINE i == SelectInSeq([k \in 1..WinMax |-> wins[k - 1].pid], LAMBDA w : w = 0) - 1
           opened == [pid |-> pid, at |-> p, home |-> p, popup |-> popup, focused |-> FALSE]
           ws == IF i = None THEN wins ELSE [wins EXCEPT ![i] = opened]
<1>1. i = None \/ (i \in Slots /\ wins[i].pid = 0)
  BY FreeSlot
<1>2. /\ wins' = Focused(ws, i)
      /\ order' = IF i = None THEN order ELSE Append(order, i)
      /\ several' = IF pid \in {wins[j].pid : j \in Slots} \cup {focus.pid} THEN several \cup {pid} ELSE several
      /\ UNCHANGED <<focus, pressed>>
  BY DEF OpenWindow, Command
<1>3. wins \in [Slots -> Windows] /\ order \in Seq(Slots) /\ pid # 0 /\ None \notin Slots
  BY DEF DeskInv, DeskTypes, DesktopAssumption, Slots, None
<1>4. opened \in Windows /\ opened.pid = pid
  BY DEF Windows
<1> HIDE DEF i, opened
<1>5. ws \in [Slots -> Windows] /\ \A j \in Slots : ws[j].pid = IF j = i THEN pid ELSE wins[j].pid
  BY <1>1, <1>3, <1>4
<1> HIDE DEF ws
<1>6. wins' \in [Slots -> Windows]
  BY <1>2, <1>5, FocusedFacts
<1>7. \A j \in Slots : wins'[j].pid = IF j = i THEN pid ELSE wins[j].pid
  BY <1>2, <1>5, FocusedFacts
<1>8. \A j \in Slots : wins'[j].focused => j = i
  BY <1>2, <1>5, FocusedFacts
<1>9. \A j \in Slots : Used(j)' <=> (Used(j) \/ j = i)
  BY <1>3, <1>7 DEF Used
<1>10. /\ order' \in Seq(Slots)
       /\ \A k \in DOMAIN order' : order'[k] = i \/ (k \in DOMAIN order /\ order'[k] = order[k])
       /\ i # None => order' # <<>> /\ Last(order') = i /\ i \in Slots
       /\ \A k \in DOMAIN order' : order'[k] = i => k = Len(order')
  <2>1. \A k \in DOMAIN order : order[k] # i
    BY <1>1, <1>3 DEF DeskInv, DeskTypes, Used
  <2>2. CASE i = None
    BY <2>1, <2>2, <1>2, <1>3
  <2>3. CASE i # None
    <3>1. i \in Slots /\ order' = Append(order, i)
      BY <2>3, <1>1, <1>2
    <3>2. order' \in Seq(Slots) /\ Len(order') = Len(order) + 1 /\ Len(order) \in Nat
          /\ order'[Len(order) + 1] = i /\ \A k \in 1..Len(order) : order'[k] = order[k]
      BY <3>1, <1>3
    <3>3. order' # <<>> /\ Last(order') = i
      BY <3>2 DEF Last
    <3> QED BY <2>1, <3>1, <3>2, <3>3, <1>3
  <2> QED BY <2>2, <2>3
<1>11. DeskTypes'
  <2>1. \A k \in DOMAIN order' : order'[k] \in Slots /\ wins'[order'[k]].pid # 0
    BY <1>3, <1>7, <1>10 DEF DeskInv, DeskTypes, Used
  <2>2. pressed # None => pressed \in Slots /\ wins'[pressed].pid # 0
    BY <1>3, <1>7 DEF DeskInv, DeskTypes, Used
  <2> QED BY <1>2, <1>6, <1>10, <2>1, <2>2 DEF DeskInv, DeskTypes, Used
<1>12. OrderOnce'
  BY <1>10 DEF DeskInv, OrderOnce
<1>13. several \subseteq several' /\ (pid \notin several' => pid # focus.pid /\ \A j \in Slots : wins[j].pid # pid)
  BY <1>2
<1>14. OneSlot'
  BY <1>3, <1>7, <1>9, <1>13 DEF DeskInv, OneSlot
<1>15. FocusSlot'
  BY <1>2, <1>3, <1>7, <1>9, <1>13 DEF DeskInv, FocusSlot
<1>16. FocusedOnTop'
  <2>1. \A j \in Slots : wins'[j].focused => j = i /\ i # None
    BY <1>3, <1>8
  <2> QED BY <2>1, <1>9, <1>10 DEF FocusedOnTop
<1>17. PressedGetsEvents'
  <2>1. pressed # None => pressed \in Slots /\ pressed # i
    BY <1>1, <1>3 DEF DeskInv, DeskTypes, Used
  <2> QED BY <2>1, <1>2, <1>7, <1>13 DEF DeskInv, PressedGetsEvents
<1> QED BY <1>11, <1>12, <1>14, <1>15, <1>16, <1>17 DEF DeskInv

(* The order after a press: the window that was hit is last.                *)
LEMMA RaisedFacts ==
  ASSUME DeskInv, NEW i \in Slots, Used(i)
  PROVE  /\ Raise(i) \in Seq(Slots)
         /\ \A k \in DOMAIN Raise(i) : Used(Raise(i)[k])
         /\ \A k, l \in DOMAIN Raise(i) : Raise(i)[k] = Raise(i)[l] => k = l
         /\ Raise(i) # <<>> /\ Last(Raise(i)) = i
<1> DEFINE r == RemoveFirst(order, i)
<1>1. order \in Seq(Slots) /\ OrderOnce /\ \A k \in DOMAIN order : Used(order[k])
  BY DEF DeskInv, DeskTypes
<1>2. /\ r \in Seq(Slots)
      /\ \A k \in DOMAIN r : r[k] # i /\ \E l \in DOMAIN order : r[k] = order[l]
      /\ \A k, l \in DOMAIN r : r[k] = r[l] => k = l
  BY <1>1, TakenOut DEF OrderOnce
<1>3. Raise(i) = Append(r, i)
  BY DEF Raise
<1> HIDE DEF r
<1>4. /\ Append(r, i) \in Seq(Slots) /\ Len(Append(r, i)) = Len(r) + 1 /\ Len(r) \in Nat
      /\ Append(r, i)[Len(r) + 1] = i
      /\ \A k \in 1..Len(r) : k \in DOMAIN r /\ Append(r, i)[k] = r[k]
  BY <1>2
<1>5. \A k \in DOMAIN Append(r, i) : k \in 1..Len(r) \/ k = Len(r) + 1
  BY <1>4
<1>6. \A k \in DOMAIN Append(r, i) : Used(Append(r, i)[k])
  BY <1>1, <1>2, <1>4, <1>5
<1>7. \A k, l \in DOMAIN Append(r, i) : Append(r, i)[k] = Append(r, i)[l] => k = l
  BY <1>2, <1>4, <1>5
<1>8. Append(r, i) # <<>>
  <2> DEFINE t == Append(r, i)
  <2>1. Len(t) = Len(r) + 1 /\ Len(r) \in Nat
    BY <1>4
  <2> HIDE DEF t
  <2>2. t # <<>>
    BY <2>1
  <2> QED BY <2>2 DEF t
<1>9. Last(Append(r, i)) = i
  <2>1. Last(Append(r, i)) = Append(r, i)[Len(Append(r, i))]
    BY DEF Last
  <2> QED BY <2>1, <1>4
<1> QED BY <1>3, <1>4, <1>6, <1>7, <1>8, <1>9

(* A press goes to a window that is there.                                  *)
LEMMA PressedWindow ==
  ASSUME DeskInv, NEW p, TopAt(p, order, wins) # None
  PROVE  TopAt(p, order, wins) \in Slots /\ Used(TopAt(p, order, wins))
<1>1. order \in Seq(Slots) /\ \A k \in DOMAIN order : Used(order[k])
  BY DEF DeskInv, DeskTypes
<1>2. PICK k \in DOMAIN order : TopAt(p, order, wins) = order[k]
  BY <1>1, TopIsOrdered
<1> QED BY <1>1, <1>2

(* The pressed window is in front, focused, and hears the mouse: if its     *)
(* program had the focus before, the slot that had it is this one.          *)
LEMMA PressKeeps ==
  ASSUME DesktopAssumption, DeskInv, NEW p \in Places, NEW title \in BOOLEAN, Press(p, title)
  PROVE  DeskInv'
<1> DEFINE i == TopAt(p, order, wins)
<1>1. /\ i # None /\ wins' = Focused(wins, i) /\ order' = Raise(i) /\ focus' = PressedFocus(i)
      /\ pressed' = i /\ several' = several
  BY DEF Press, Event
<1>2. i \in Slots /\ Used(i)
  BY <1>1, PressedWindow
<1> HIDE DEF i
<1>3. wins \in [Slots -> Windows]
  BY DEF DeskInv, DeskTypes
<1>4. wins' \in [Slots -> Windows]
  BY <1>1, <1>3, FocusedFacts
<1>5. \A j \in Slots : wins'[j].pid = wins[j].pid
  BY <1>1, <1>3, FocusedFacts
<1>6. \A j \in Slots : wins'[j].focused => j = i
  BY <1>1, <1>3, FocusedFacts
<1>7. \A j \in Slots : Used(j)' <=> Used(j)
  BY <1>5 DEF Used
<1>8. /\ order' \in Seq(Slots)
      /\ \A k \in DOMAIN order' : Used(order'[k])
      /\ \A k, l \in DOMAIN order' : order'[k] = order'[l] => k = l
      /\ order' # <<>> /\ Last(order') = i
  BY <1>1, <1>2, RaisedFacts
<1>9. focus' = IF wins[i].pid # focus.pid THEN [pid |-> wins[i].pid, idx |-> i] ELSE focus
  BY <1>1 DEF PressedFocus
<1>10. DeskTypes'
  <2>1. \A k \in DOMAIN order' : order'[k] \in Slots /\ wins'[order'[k]].pid # 0
    BY <1>5, <1>8 DEF Used
  <2>2. wins'[i].pid # 0
    BY <1>2, <1>5 DEF Used
  <2>3. focus' \in [pid : Owners \union {0}, idx : Slots \union {None}]
    <3>1. wins[i].pid \in Owners \union {0} /\ focus \in [pid : Owners \union {0}, idx : Slots \union {None}]
      BY <1>2, <1>3 DEF Windows, DeskInv, DeskTypes
    <3> QED BY <3>1, <1>2, <1>9
  <2> QED BY <1>1, <1>2, <1>4, <1>8, <2>1, <2>2, <2>3 DEF DeskTypes, Used
<1>11. OrderOnce' /\ FocusedOnTop'
  BY <1>2, <1>6, <1>7, <1>8 DEF OrderOnce, FocusedOnTop
<1>12. OneSlot'
  BY <1>1, <1>5, <1>7 DEF DeskInv, OneSlot
<1>13. wins[i].pid = focus.pid /\ wins[i].pid \notin several => focus.idx = i
  BY <1>2 DEF DeskInv, FocusSlot
<1>14. CASE wins[i].pid # focus.pid
  <2>1. focus'.pid = wins[i].pid /\ focus'.idx = i /\ focus' = [pid |-> wins[i].pid, idx |-> i]
    BY <1>9, <1>14
  <2>2. FocusSlot'
    BY <2>1, <1>1, <1>2, <1>5, <1>7 DEF DeskInv, OneSlot, FocusSlot
  <2>3. PressedGetsEvents'
    BY <2>1, <1>1, <1>2, <1>5 DEF PressedGetsEvents
  <2> QED BY <2>2, <2>3, <1>10, <1>11, <1>12 DEF DeskInv
<1>15. CASE wins[i].pid = focus.pid
  <2>1. focus' = focus
    BY <1>9, <1>15
  <2>2. FocusSlot'
    BY <2>1, <1>1, <1>5, <1>7 DEF DeskInv, FocusSlot
  <2>3. PressedGetsEvents'
    <3>1. wins[i].pid \notin several => focus = [pid |-> wins[i].pid, idx |-> i]
      BY <1>13, <1>15 DEF DeskInv, DeskTypes
    <3> QED BY <2>1, <3>1, <1>1, <1>2, <1>5 DEF PressedGetsEvents
  <2> QED BY <2>2, <2>3, <1>10, <1>11, <1>12 DEF DeskInv
<1> QED BY <1>14, <1>15

(* A close box: the window pressed is in front, then the first window of    *)
(* its program goes, and nobody hears the mouse.                            *)
LEMMA CloseKeeps ==
  ASSUME DesktopAssumption, DeskInv, NEW p \in Places, ClickClose(p)
  PROVE  DeskInv'
<1> DEFINE i == TopAt(p, order, wins)
           gone == win_find_pid(wins[i].pid)
           ord == Raise(i)
           ws == Focused(wins, i)
<1>1. /\ i # None /\ wins' = [ws EXCEPT ![gone] = NoWin] /\ order' = RemoveFirst(ord, gone)
      /\ focus' = [pid |-> 0, idx |-> None] /\ pressed' = None /\ several' = several
  BY DEF ClickClose, Event
<1>2. i \in Slots /\ Used(i)
  BY <1>1, PressedWindow
<1>3. wins \in [Slots -> Windows] /\ WinMax \in Nat
  BY DEF DeskInv, DeskTypes, DesktopAssumption
<1>4. gone \in Slots
  BY <1>2, <1>3, FoundSlot
<1>5. /\ ord \in Seq(Slots)
      /\ \A k \in DOMAIN ord : Used(ord[k])
      /\ \A k, l \in DOMAIN ord : ord[k] = ord[l] => k = l
      /\ ord # <<>> /\ Last(ord) = i
  BY <1>2, RaisedFacts
<1> HIDE DEF i, gone, ord
<1>6. ws \in [Slots -> Windows]
  BY <1>3, FocusedFacts
<1>7. \A j \in Slots : ws[j].pid = wins[j].pid
  BY <1>3, FocusedFacts
<1>8. \A j \in Slots : ws[j].focused => j = i
  BY <1>3, FocusedFacts
<1>9. NoWin \in Windows /\ NoWin.pid = 0 /\ ~ NoWin.focused
  BY DEF NoWin, Windows, Places, DesktopAssumption
<1> HIDE DEF ws
<1>10. wins' \in [Slots -> Windows] /\ \A j \in Slots : wins'[j] = IF j = gone THEN NoWin ELSE ws[j]
  BY <1>1, <1>4, <1>6, <1>9
<1>11. \A j \in Slots : wins'[j].pid # 0 <=> (Used(j) /\ j # gone)
  BY <1>7, <1>9, <1>10 DEF Used
<1>12. /\ order' \in Seq(Slots)
       /\ \A k \in DOMAIN order' : order'[k] # gone /\ \E l \in DOMAIN ord : order'[k] = ord[l]
       /\ \A k, l \in DOMAIN order' : order'[k] = order'[l] => k = l
       /\ ord # <<>> /\ Last(ord) # gone => order' # <<>> /\ Last(order') = Last(ord)
  BY <1>1, <1>5, TakenOut
<1>13. DeskTypes'
  <2>1. \A k \in DOMAIN order' : order'[k] \in Slots /\ wins'[order'[k]].pid # 0
    <3> SUFFICES ASSUME NEW k \in DOMAIN order'
                 PROVE  order'[k] \in Slots /\ wins'[order'[k]].pid # 0
      OBVIOUS
    <3>1. PICK l \in DOMAIN ord : order'[k] = ord[l]
      BY <1>12
    <3>2. ord[l] \in Slots /\ Used(ord[l]) /\ ord[l] # gone
      BY <1>5, <1>12, <3>1
    <3> QED BY <1>11, <3>1, <3>2
  <2>2. focus' \in [pid : Owners \union {0}, idx : Slots \union {None}]
    BY <1>1
  <2> QED BY <1>1, <1>10, <1>12, <2>1, <2>2 DEF DeskTypes, Used
<1>14. OrderOnce'
  BY <1>12 DEF OrderOnce
<1>15. OneSlot'
  BY <1>1, <1>7, <1>9, <1>10, <1>11 DEF DeskInv, OneSlot, Used
<1>16. FocusSlot'
  BY <1>1 DEF FocusSlot, Used
<1>17. FocusedOnTop'
  <2>1. \A j \in Slots : wins'[j].focused => j = i /\ j # gone
    BY <1>8, <1>9, <1>10
  <2> QED BY <2>1, <1>2, <1>5, <1>11, <1>12 DEF FocusedOnTop, Used
<1>18. PressedGetsEvents'
  BY <1>1 DEF PressedGetsEvents
<1> QED BY <1>13, <1>14, <1>15, <1>16, <1>17, <1>18 DEF DeskInv

(* Every step of a frame keeps focus, order and mouse events about one      *)
(* window.                                                                  *)
LEMMA DeskStep ==
  ASSUME DesktopAssumption, DeskInv, [DeskNext]_deskVars
  PROVE  DeskInv'
<1>1. wins \in [Slots -> Windows] /\ WinMax \in Nat
  BY DEF DeskInv, DeskTypes, DesktopAssumption
<1>2. ASSUME UNCHANGED <<wins, order, focus, pressed, several>> PROVE DeskInv'
  BY <1>1, <1>2, WindowsStay
<1>3. ASSUME NEW i \in Slots, NEW q \in Places, wins' = [wins EXCEPT ![i].at = q],
             UNCHANGED <<order, focus, pressed, several>>
      PROVE  DeskInv'
  <2>1. [wins[i] EXCEPT !.at = q] \in Windows
    BY <1>1 DEF Windows
  <2>2. wins' \in [Slots -> Windows]
    BY <1>1, <1>3, <2>1
  <2>3. \A j \in Slots : wins'[j].pid = wins[j].pid /\ wins'[j].focused = wins[j].focused
    BY <1>1, <1>3 DEF Windows
  <2> QED BY <1>3, <2>2, <2>3, WindowsStay
<1>4. CASE \E pid \in Owners, p \in Places, popup \in Popups : OpenWindow(pid, p, popup)
  BY <1>4, OpeningKeeps
<1>5. CASE \E pid \in Owners : CloseWindow(pid)
  <2>1. PICK pid \in Owners : CloseWindow(pid)
    BY <1>5
  <2> DEFINE i == win_find_pid(pid)
  <2>2. UNCHANGED <<focus, several>>
    BY <2>1 DEF CloseWindow, Command
  <2>3. CASE i = None
    <3>1. UNCHANGED <<wins, order, pressed>>
      BY <2>1, <2>3 DEF CloseWindow
    <3> QED BY <3>1, <2>2, <1>2
  <2>4. CASE i # None
    <3>1. win_remove(i)
      BY <2>1, <2>4 DEF CloseWindow
    <3>2. i \in Slots /\ wins[i].pid = pid
      BY <2>4, <1>1, FoundSlot, NoSlot
    <3>3. Used(i)
      BY <3>2 DEF Used, DesktopAssumption
    <3> QED BY <3>1, <3>2, <3>3, <2>2, RemovalKeeps
  <2> QED BY <2>3, <2>4
<1>6. CASE \E pid \in Owners, p \in Places : MoveWindow(pid, p)
  <2>1. PICK pid \in Owners, p \in Places : MoveWindow(pid, p)
    BY <1>6
  <2> DEFINE i == win_find_pid(pid)
  <2>2. UNCHANGED <<order, focus, pressed, several>>
    BY <2>1 DEF MoveWindow, Command
  <2>3. wins' = IF i = None THEN wins ELSE [wins EXCEPT ![i].at = p]
    BY <2>1 DEF MoveWindow
  <2>4. i # None => i \in Slots
    BY <1>1, FoundSlot, NoSlot
  <2> HIDE DEF i
  <2> QED BY <2>2, <2>3, <2>4, <1>2, <1>3
<1>7. CASE input_frame_begin \/ DrawCursor \/ UNCHANGED deskVars
  BY <1>2, <1>7 DEF input_frame_begin, DrawCursor, EndOfFrame, deskVars
<1>8. CASE \E p \in Places : TaskbarClick(p) \/ PressDesktop(p)
  BY <1>2, <1>8 DEF TaskbarClick, PressDesktop, Event
<1>9. CASE \E p \in Places : ClickClose(p)
  BY <1>9, CloseKeeps
<1>10. CASE \E p \in Places : Held(p)
  <2>1. PICK p \in Places : Held(p)
    BY <1>10
  <2>2. UNCHANGED <<order, focus, pressed, several>>
    BY <2>1 DEF Held, Event
  <2>3. wins' = IF Used(drag) THEN [wins EXCEPT ![drag].at = p] ELSE wins
    BY <2>1 DEF Held
  <2>4. CASE Used(drag)
    <3>1. drag \in Slots /\ wins' = [wins EXCEPT ![drag].at = p]
      BY <2>3, <2>4 DEF Used
    <3> QED BY <3>1, <2>2, <1>3
  <2>5. CASE ~ Used(drag)
    BY <2>2, <2>3, <2>5, <1>2
  <2> QED BY <2>4, <2>5
<1>11. CASE \E p \in Places, part \in BOOLEAN : Press(p, part)
  BY <1>11, PressKeeps
<1>12. CASE \E p \in Places, part \in BOOLEAN : Hover(p, part)
  BY <1>2, <1>12 DEF Hover, Event
<1>13. CASE \E damaged \in BOOLEAN : DrawAll(damaged)
  <2>1. UNCHANGED <<order, focus, pressed, several>>
    BY <1>13 DEF DrawAll, EndOfFrame
  <2>2. wins' = [i \in Slots |-> [wins[i] EXCEPT !.home = wins[i].at]]
    BY <1>13 DEF DrawAll
  <2>3. \A i \in Slots : /\ [wins[i] EXCEPT !.home = wins[i].at] \in Windows
                         /\ wins'[i].pid = wins[i].pid /\ wins'[i].focused = wins[i].focused
    BY <1>1, <2>2 DEF Windows
  <2> QED BY <1>1, <2>1, <2>2, <2>3, WindowsStay
<1> QED BY <1>4, <1>5, <1>6, <1>7, <1>8, <1>9, <1>10, <1>11, <1>12, <1>13 DEF DeskNext

(* However windows are opened, closed, moved and pressed, the focused       *)
(* window is the one in front, and the window pressed last hears the mouse, *)
(* unless its program opened several.                                       *)
THEOREM DesktopFocusSound ==
  ASSUME DesktopAssumption
  PROVE  DeskSpec => []FocusSound
<1>1. DeskInit => DeskInv
  BY DeskStarts
<1>2. DeskInv /\ [DeskNext]_deskVars => DeskInv'
  BY DeskStep
<1>3. DeskInv => FocusSound
  BY DEF DeskInv, FocusSound
<1> QED BY <1>1, <1>2, <1>3, PTL DEF DeskSpec
=============================================================================
