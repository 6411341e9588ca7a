--------------------------- MODULE DispatchProofs ---------------------------
(***************************************************************************)
(* The safety of Dispatch for every set of peers and every number of       *)
(* messages and failures.                                                  *)
(***************************************************************************)
EXTENDS Dispatch, TLAPS

Msgs == [from : Peers, inst : Nat, seq : Nat]

TypeOK ==
  /\ sent \in [Peers -> Nat] /\ inst \in [Peers -> Nat]
  /\ net \in [Peers -> Seq(Msgs)]
  /\ waiting_for_nolaggy \in Seq(Msgs) /\ handled \in Seq(Msgs)
  /\ dropped \in SUBSET Msgs

(* A sequence with one element more: the elements, and that none repeats.   *)
LEMMA Appended ==
  ASSUME NEW S, NEW s \in Seq(S), NEW x \in S
  PROVE  /\ Append(s, x) \in Seq(S) /\ Last(Append(s, x)) = x
         /\ ToSet(Append(s, x)) = ToSet(s) \cup {x}
         /\ IsInjective(s) /\ x \notin ToSet(s) => IsInjective(Append(s, x))
  <1>1. /\ Len(Append(s, x)) = Len(s) + 1
        /\ \A i \in 1 .. Len(s) : Append(s, x)[i] = s[i]
        /\ Append(s, x)[Len(s) + 1] = x
        /\ DOMAIN s = 1 .. Len(s) /\ DOMAIN Append(s, x) = 1 .. Len(s) + 1
        /\ Append(s, x) \in Seq(S) /\ Len(s) \in Nat
    OBVIOUS
  <1>2. Last(Append(s, x)) = x
    BY <1>1 DEF Last
  <1>3. ToSet(Append(s, x)) = ToSet(s) \cup {x}
    BY <1>1 DEF ToSet
  <1>4. IsInjective(s) /\ x \notin ToSet(s) => IsInjective(Append(s, x))
    BY <1>1 DEF IsInjective, ToSet
  <1> QED BY <1>1, <1>2, <1>3, <1>4

(* A sequence without its first element.                                    *)
LEMMA Shortened ==
  ASSUME NEW S, NEW s \in Seq(S), s # <<>>
  PROVE  /\ Head(s) \in S /\ Tail(s) \in Seq(S)
         /\ Len(Tail(s)) = Len(s) - 1 /\ Len(s) >= 1
         /\ \A i \in 1 .. Len(s) - 1 : Tail(s)[i] = s[i + 1]
         /\ Head(s) = s[1]
         /\ ToSet(s) = ToSet(Tail(s)) \cup {Head(s)}
         /\ IsInjective(s) => IsInjective(Tail(s)) /\ Head(s) \notin ToSet(Tail(s))
  <1>1. /\ Head(s) \in S /\ Tail(s) \in Seq(S) /\ Head(s) = s[1]
        /\ Len(s) \in Nat /\ Len(s) >= 1 /\ Len(Tail(s)) = Len(s) - 1
        /\ DOMAIN s = 1 .. Len(s) /\ DOMAIN Tail(s) = 1 .. Len(s) - 1
        /\ \A i \in 1 .. Len(s) - 1 : Tail(s)[i] = s[i + 1]
    OBVIOUS
  <1>2. ToSet(s) \subseteq ToSet(Tail(s)) \cup {Head(s)}
    <2> SUFFICES ASSUME NEW i \in 1 .. Len(s) PROVE s[i] \in ToSet(Tail(s)) \cup {Head(s)}
      BY <1>1 DEF ToSet
    <2>1. CASE i = 1
      BY <2>1, <1>1
    <2>2. CASE i > 1
      <3>1. i - 1 \in 1 .. Len(s) - 1 /\ Tail(s)[i - 1] = s[i]
        BY <2>2, <1>1
      <3> QED BY <3>1, <1>1 DEF ToSet
    <2> QED BY <2>1, <2>2
  <1>3. ToSet(Tail(s)) \cup {Head(s)} \subseteq ToSet(s)
    BY <1>1 DEF ToSet
  <1>4. IsInjective(s) => IsInjective(Tail(s)) /\ Head(s) \notin ToSet(Tail(s))
    BY <1>1 DEF IsInjective, ToSet
  <1> QED BY <1>1, <1>2, <1>3, <1>4

-----------------------------------------------------------------------------
(* The messages taken off the net, and what there is to know of them: they  *)
(* are those before the ones under way, all of them, each with one record,  *)
(* and each in one place.                                                   *)
Taken == ToSet(waiting_for_nolaggy) \cup ToSet(handled) \cup dropped

Received(p) == sent[p] - Len(net[p])

UnderWay ==
  \A p \in Peers :
    /\ Received(p) >= 0
    /\ \A i \in DOMAIN net[p] : net[p][i].from = p /\ net[p][i].seq = Received(p) + i

TakenBefore == \A m \in Taken : m.seq \in 1 .. Received(m.from)

TakenAll ==
  \A p \in Peers : \A k \in 1 .. Received(p) : \E m \in Taken : m.from = p /\ m.seq = k

TakenOnce == \A m1, m2 \in Taken : m1.from = m2.from /\ m1.seq = m2.seq => m1 = m2

Apart ==
  /\ IsInjective(waiting_for_nolaggy) /\ IsInjective(handled)
  /\ ToSet(waiting_for_nolaggy) \cap ToSet(handled) = {}
  /\ (ToSet(waiting_for_nolaggy) \cup ToSet(handled)) \cap dropped = {}

Accounted == UnderWay /\ TakenBefore /\ TakenAll /\ TakenOnce
IInv == TypeOK /\ Accounted /\ Apart

LEMMA TakenTyped == TypeOK => Taken \subseteq Msgs
  <1> SUFFICES ASSUME TypeOK PROVE Taken \subseteq Msgs
    OBVIOUS
  <1>1. \A s \in Seq(Msgs) : ToSet(s) \subseteq Msgs
    BY DEF ToSet
  <1> QED BY <1>1 DEF TypeOK, Taken

(* The invariant says all that EachMessageOnce does.                        *)
LEMMA InvImplies == IInv => EachMessageOnce
  <1> SUFFICES ASSUME IInv PROVE EachMessageOnce
    OBVIOUS
  <1>1. Taken \subseteq Msgs
    BY TakenTyped DEF IInv
  <1>2. ASSUME NEW p \in Peers
        PROVE  /\ \A i \in DOMAIN net[p] :
                    net[p][i].from = p /\ net[p][i].seq = sent[p] - Len(net[p]) + i
               /\ {m.seq : m \in {x \in Taken : x.from = p}} = 1 .. sent[p] - Len(net[p])
    <2>1. \A m \in Taken : m.from = p => m.seq \in 1 .. Received(p)
      BY DEF IInv, Accounted, TakenBefore
    <2>2. \A k \in 1 .. Received(p) : \E m \in Taken : m.from = p /\ m.seq = k
      BY DEF IInv, Accounted, TakenAll
    <2>3. {m.seq : m \in {x \in Taken : x.from = p}} = 1 .. Received(p)
      BY <2>1, <2>2
    <2>4. \A i \in DOMAIN net[p] :
                    net[p][i].from = p /\ net[p][i].seq = sent[p] - Len(net[p]) + i
      BY DEF IInv, Accounted, UnderWay, Received
    <2> QED BY <2>3, <2>4 DEF Received
  <1> QED BY <1>2 DEF EachMessageOnce, IInv, Accounted, TakenOnce, Apart, Taken

LEMMA InitEstablishes == Init => IInv
  <1> SUFFICES ASSUME Init PROVE IInv
    OBVIOUS
  <1>1. TypeOK
    BY DEF Init, TypeOK
  <1>2. ToSet(<<>>) = {} /\ IsInjective(<<>>) /\ Len(<<>>) = 0
    BY DEF ToSet, IsInjective
  <1>3. Taken = {} /\ Apart
    BY <1>2 DEF Init, Taken, Apart
  <1>4. \A p \in Peers : sent[p] = 0 /\ net[p] = <<>> /\ Received(p) = 0
    BY <1>2 DEF Init, Received
  <1>5. Accounted
    BY <1>3, <1>4 DEF Accounted, UnderWay, TakenBefore, TakenAll, TakenOnce
  <1> QED BY <1>1, <1>3, <1>5 DEF IInv

(* Sending adds one message behind the others.                              *)
LEMMA SendKeeps == ASSUME IInv, NEW p \in Peers, Send(p) PROVE IInv'
  <1> DEFINE m == [from |-> p, inst |-> inst[p], seq |-> sent[p] + 1]
  <1>0. net[p] \in Seq(Msgs) /\ sent[p] \in Nat /\ inst[p] \in Nat
    BY DEF IInv, TypeOK
  <1>1. m \in Msgs /\ net[p] \in Seq(Msgs)
    BY <1>0 DEF Msgs
  <1>2. /\ net' = [net EXCEPT ![p] = Append(@, m)] /\ sent' = [sent EXCEPT ![p] = @ + 1]
        /\ UNCHANGED <<inst, waiting_for_nolaggy, handled, dropped>>
    BY DEF Send
  <1>3. TypeOK'
    BY <1>1, <1>2 DEF IInv, TypeOK
  <1>4. Taken' = Taken
    BY <1>2 DEF Taken
  <1>5. /\ Len(net'[p]) = Len(net[p]) + 1 /\ sent'[p] = sent[p] + 1
        /\ \A i \in 1 .. Len(net[p]) : net'[p][i] = net[p][i]
        /\ net'[p][Len(net[p]) + 1] = m
        /\ DOMAIN net'[p] = 1 .. Len(net[p]) + 1 /\ DOMAIN net[p] = 1 .. Len(net[p])
        /\ Len(net[p]) \in Nat
    BY <1>1, <1>2 DEF IInv, TypeOK
  <1>6. \A q \in Peers : q # p => net'[q] = net[q] /\ sent'[q] = sent[q]
    BY <1>2 DEF IInv, TypeOK
  <1>7. \A q \in Peers : Received(q)' = Received(q)
    <2>1. Received(p)' = Received(p)
      <3>1. /\ Len(net'[p]) = Len(net[p]) + 1 /\ Len(net[p]) \in Nat
            /\ sent'[p] = sent[p] + 1 /\ sent[p] \in Nat
        BY <1>0, <1>5
      <3> QED BY <3>1 DEF Received
    <2> QED BY <2>1, <1>6 DEF Received
  <1>8. UnderWay'
    <2> SUFFICES ASSUME NEW q \in Peers
                 PROVE  /\ Received(q)' >= 0
                        /\ \A i \in DOMAIN net'[q] :
                             net'[q][i].from = q /\ net'[q][i].seq = Received(q)' + i
      BY DEF UnderWay
    <2>1. Received(p) + Len(net[p]) = sent[p] /\ Received(p) \in Int
      BY <1>5 DEF Received, IInv, TypeOK
    <2>2. CASE q = p
      <3>1. Received(p)' >= 0
        BY <1>7 DEF IInv, Accounted, UnderWay
      <3>2. ASSUME NEW i \in 1 .. Len(net[p]) + 1
            PROVE  net'[p][i].from = p /\ net'[p][i].seq = Received(p)' + i
        <4>1. CASE i = Len(net[p]) + 1
          BY <4>1, <2>1, <1>0, <1>5, <1>7
        <4>2. CASE i # Len(net[p]) + 1
          <5>1. i \in 1 .. Len(net[p])
            BY <4>2, <1>5
          <5> QED BY <5>1, <1>5, <1>7 DEF IInv, Accounted, UnderWay
        <4> QED BY <4>1, <4>2
      <3> QED BY <2>2, <3>1, <3>2, <1>5
    <2>3. CASE q # p
      BY <2>3, <1>6, <1>7 DEF IInv, Accounted, UnderWay
    <2> QED BY <2>2, <2>3
  <1>9. TakenBefore' /\ TakenAll' /\ TakenOnce'
    <2>1. \A x \in Taken : x.from \in Peers
      BY TakenTyped DEF IInv, Msgs
    <2> QED BY <2>1, <1>4, <1>7 DEF IInv, Accounted, TakenBefore, TakenAll, TakenOnce
  <1>10. Apart'
    BY <1>2 DEF IInv, Apart
  <1> QED BY <1>3, <1>8, <1>9, <1>10 DEF IInv, Accounted

(* The first message under way is the next after those taken ...            *)
LEMMA FirstIsNext ==
  ASSUME IInv, NEW p \in Peers, net[p] # <<>>
  PROVE  /\ Head(net[p]) \in Msgs \ Taken
         /\ Head(net[p]).from = p /\ Head(net[p]).seq = Received(p) + 1
  <1>1. Head(net[p]) \in Msgs /\ Head(net[p]) = net[p][1] /\ 1 \in DOMAIN net[p]
    BY DEF IInv, TypeOK
  <1>2. Head(net[p]).from = p /\ Head(net[p]).seq = Received(p) + 1
    BY <1>1 DEF IInv, Accounted, UnderWay
  <1>3. Received(p) \in Int
    BY DEF Received, IInv, TypeOK
  <1>4. Head(net[p]) \notin Taken
    BY <1>2, <1>3 DEF IInv, Accounted, TakenBefore
  <1> QED BY <1>1, <1>2, <1>4

(* ... so that taking it off the net keeps the accounts.                    *)
LEMMA TakeKeeps ==
  ASSUME IInv, NEW p \in Peers, net[p] # <<>>,
         net' = [net EXCEPT ![p] = Tail(@)], sent' = sent,
         Taken' = Taken \cup {Head(net[p])}
  PROVE  Accounted'
  <1> DEFINE m == Head(net[p])
  <1>1. m.from = p /\ m.seq = Received(p) + 1 /\ m \notin Taken
    BY FirstIsNext
  <1>2. /\ Len(net[p]) \in Nat /\ Len(net'[p]) = Len(net[p]) - 1
        /\ DOMAIN net[p] = 1 .. Len(net[p]) /\ DOMAIN net'[p] = 1 .. Len(net[p]) - 1
        /\ \A i \in DOMAIN net'[p] : net'[p][i] = net[p][i + 1] /\ i + 1 \in DOMAIN net[p]
    BY DEF IInv, TypeOK
  <1>3. \A q \in Peers : q # p => net'[q] = net[q]
    BY DEF IInv, TypeOK
  <1>4. /\ Received(p) \in Nat /\ Received(p)' = Received(p) + 1
        /\ \A q \in Peers : Received(q) \in Nat /\ (q # p => Received(q)' = Received(q))
    BY <1>2, <1>3 DEF Received, IInv, TypeOK, Accounted, UnderWay
  <1>5. UnderWay'
    <2> SUFFICES ASSUME NEW q \in Peers
                 PROVE  /\ Received(q)' >= 0
                        /\ \A i \in DOMAIN net'[q] :
                             net'[q][i].from = q /\ net'[q][i].seq = Received(q)' + i
      BY DEF UnderWay
    <2>1. CASE q = p
      <3>1. ASSUME NEW i \in DOMAIN net'[p]
            PROVE  net'[p][i].from = p /\ net'[p][i].seq = Received(p)' + i
        <4>1. net[p][i + 1].from = p /\ net[p][i + 1].seq = Received(p) + (i + 1)
          BY <1>2 DEF IInv, Accounted, UnderWay
        <4>2. i \in Nat /\ net'[p][i] = net[p][i + 1]
          BY <1>2
        <4>3. Received(p) \in Nat /\ Received(p)' = Received(p) + 1
          BY <1>4
        <4> QED BY <4>1, <4>2, <4>3
      <3> QED BY <2>1, <3>1, <1>4
    <2>2. CASE q # p
      BY <2>2, <1>3, <1>4 DEF IInv, Accounted, UnderWay
    <2> QED BY <2>1, <2>2
  <1>6. \A x \in Taken : x.from \in Peers
    BY TakenTyped DEF IInv, Msgs
  <1>7. TakenBefore'
    <2> SUFFICES ASSUME NEW x \in Taken' PROVE x.seq \in 1 .. Received(x.from)'
      BY DEF TakenBefore
    <2>1. CASE x = m
      BY <2>1, <1>1, <1>4
    <2>2. CASE x \in Taken
      BY <2>2, <1>4, <1>6 DEF IInv, Accounted, TakenBefore
    <2> QED BY <2>1, <2>2
  <1>8. TakenAll'
    <2> SUFFICES ASSUME NEW q \in Peers, NEW k \in 1 .. Received(q)'
                 PROVE  \E x \in Taken' : x.from = q /\ x.seq = k
      BY DEF TakenAll
    <2>1. CASE q = p /\ k = Received(p) + 1
      BY <2>1, <1>1
    <2>2. CASE ~(q = p /\ k = Received(p) + 1)
      <3>1. k \in 1 .. Received(q)
        BY <2>2, <1>4
      <3> QED BY <3>1 DEF IInv, Accounted, TakenAll
    <2> QED BY <2>1, <2>2
  <1>9. TakenOnce'
    <2>1. \A x \in Taken : x.from = p => x.seq # m.seq
      BY <1>1, <1>4 DEF IInv, Accounted, TakenBefore
    <2> QED BY <2>1, <1>1 DEF IInv, Accounted, TakenOnce
  <1> QED BY <1>5, <1>7, <1>8, <1>9 DEF Accounted

(* handle_deferrable_message appends the message to those handled.          *)
LEMMA DispatchKeeps ==
  ASSUME IInv, NEW p \in Peers, _dispatch(p)
  PROVE  /\ IInv'
         /\ handled' # handled => ~is_stale_message(Last(handled'))
  <1> DEFINE m == Head(net[p])
  <1>1. /\ net[p] # <<>> /\ net' = [net EXCEPT ![p] = Tail(@)]
        /\ sent' = sent /\ inst' = inst
    BY DEF _dispatch
  <1>2. m \in Msgs /\ m \notin Taken /\ net[p] \in Seq(Msgs)
    BY <1>1, FirstIsNext DEF IInv, TypeOK
  <1>3. net' \in [Peers -> Seq(Msgs)]
    <2>1. Tail(net[p]) \in Seq(Msgs)
      BY <1>1, <1>2, Shortened
    <2> QED BY <2>1, <1>1 DEF IInv, TypeOK
  <1>4. CASE is_stale_message(m)
    <2>1. dropped' = dropped \cup {m} /\ UNCHANGED <<waiting_for_nolaggy, handled>>
      BY <1>4 DEF _dispatch
    <2>2. TypeOK'
      BY <2>1, <1>1, <1>2, <1>3 DEF IInv, TypeOK
    <2>3. Taken' = Taken \cup {m}
      BY <2>1 DEF Taken
    <2>4. Apart'
      BY <2>1, <1>2 DEF IInv, Apart, Taken
    <2> QED BY <2>1, <2>2, <2>3, <2>4, <1>1, TakeKeeps DEF IInv
  <1>5. CASE ~is_stale_message(m) /\ laggy
    <2>1. waiting_for_nolaggy' = Append(waiting_for_nolaggy, m) /\ UNCHANGED <<dropped, handled>>
      BY <1>5 DEF _dispatch
    <2>2. /\ waiting_for_nolaggy' \in Seq(Msgs)
          /\ ToSet(waiting_for_nolaggy') = ToSet(waiting_for_nolaggy) \cup {m}
          /\ IsInjective(waiting_for_nolaggy')
      BY <2>1, <1>2, Appended DEF IInv, TypeOK, Apart, Taken
    <2>3. TypeOK'
      BY <2>1, <2>2, <1>1, <1>3 DEF IInv, TypeOK
    <2>4. Taken' = Taken \cup {m}
      BY <2>1, <2>2 DEF Taken
    <2>5. Apart'
      BY <2>1, <2>2, <1>2 DEF IInv, Apart, Taken
    <2> QED BY <2>1, <2>3, <2>4, <2>5, <1>1, TakeKeeps DEF IInv
  <1>6. CASE ~is_stale_message(m) /\ ~laggy
    <2>1. handled' = Append(handled, m) /\ UNCHANGED <<dropped, waiting_for_nolaggy>>
      BY <1>6 DEF _dispatch, handle_deferrable_message
    <2>2. /\ handled' \in Seq(Msgs) /\ Last(handled') = m
          /\ ToSet(handled') = ToSet(handled) \cup {m}
          /\ IsInjective(handled')
      BY <2>1, <1>2, Appended DEF IInv, TypeOK, Apart, Taken
    <2>3. TypeOK'
      BY <2>1, <2>2, <1>1, <1>3 DEF IInv, TypeOK
    <2>4. Taken' = Taken \cup {m}
      BY <2>1, <2>2 DEF Taken
    <2>5. Apart'
      BY <2>1, <2>2, <1>2 DEF IInv, Apart, Taken
    <2> QED BY <2>2, <2>3, <2>4, <2>5, <1>1, <1>6, TakeKeeps DEF IInv
  <1> QED BY <1>4, <1>5, <1>6

(* What is taken from waiting_for_nolaggy is handled or dropped.            *)
LEMMA DeferredKeeps ==
  ASSUME IInv, HandleDeferred
  PROVE  /\ IInv'
         /\ handled' # handled => ~is_stale_message(Last(handled'))
  <1> DEFINE m == Head(waiting_for_nolaggy)
  <1>1. /\ waiting_for_nolaggy # <<>> /\ waiting_for_nolaggy' = Tail(waiting_for_nolaggy)
        /\ UNCHANGED <<sent, inst, net>>
    BY DEF HandleDeferred
  <1>2. /\ m \in Msgs /\ waiting_for_nolaggy' \in Seq(Msgs)
        /\ ToSet(waiting_for_nolaggy) = ToSet(waiting_for_nolaggy') \cup {m}
        /\ IsInjective(waiting_for_nolaggy') /\ m \notin ToSet(waiting_for_nolaggy')
    BY <1>1, Shortened DEF IInv, TypeOK, Apart
  <1>3. ASSUME Taken' = Taken PROVE Accounted'
    BY <1>1, <1>3 DEF IInv, Accounted, UnderWay, TakenBefore, TakenAll, TakenOnce, Received
  <1>4. CASE is_stale_message(m)
    <2>1. dropped' = dropped \cup {m} /\ UNCHANGED handled
      BY <1>4 DEF HandleDeferred
    <2>2. TypeOK'
      BY <2>1, <1>1, <1>2 DEF IInv, TypeOK
    <2>3. Taken' = Taken
      BY <2>1, <1>2 DEF Taken
    <2>4. Apart'
      BY <2>1, <1>2 DEF IInv, Apart
    <2> QED BY <2>1, <2>2, <2>3, <2>4, <1>3 DEF IInv
  <1>5. CASE ~is_stale_message(m)
    <2>1. handled' = Append(handled, m) /\ UNCHANGED dropped
      BY <1>5 DEF HandleDeferred, handle_deferrable_message
    <2>2. /\ handled' \in Seq(Msgs) /\ Last(handled') = m
          /\ ToSet(handled') = ToSet(handled) \cup {m}
          /\ IsInjective(handled')
      BY <2>1, <1>2, Appended DEF IInv, TypeOK, Apart
    <2>3. TypeOK'
      BY <2>1, <2>2, <1>1, <1>2 DEF IInv, TypeOK
    <2>4. Taken' = Taken
      BY <2>1, <2>2, <1>2 DEF Taken
    <2>5. Apart'
      BY <2>1, <2>2, <1>2 DEF IInv, Apart
    <2> QED BY <2>2, <2>3, <2>4, <2>5, <1>3, <1>5 DEF IInv
  <1> QED BY <1>4, <1>5

(* The other steps move no message.                                         *)
LEMMA OthersKeep ==
  ASSUME IInv,
         \/ \E p \in Peers : NewMap(p)
         \/ BeaconChanges \/ RunContext \/ ContextsDone \/ QueuesAdvanced
         \/ ProgressThread \/ tick \/ UNCHANGED vars
  PROVE  IInv' /\ handled' = handled
  <1>1. UNCHANGED <<sent, net, waiting_for_nolaggy, handled, dropped>>
    BY DEF NewMap, BeaconChanges, RunContext, ContextsDone, QueuesAdvanced,
           ProgressThread, tick, vars
  <1>2. inst' \in [Peers -> Nat]
    <2>1. CASE \E p \in Peers : NewMap(p)
      BY <2>1 DEF NewMap, IInv, TypeOK
    <2>2. CASE inst' = inst
      BY <2>2 DEF IInv, TypeOK
    <2> QED BY <2>1, <2>2 DEF BeaconChanges, RunContext, ContextsDone, QueuesAdvanced,
                              ProgressThread, tick, vars
  <1>3. TypeOK'
    BY <1>1, <1>2 DEF IInv, TypeOK
  <1>4. Taken' = Taken /\ \A p \in Peers : Received(p)' = Received(p)
    BY <1>1 DEF Taken, Received
  <1>5. \A m \in Taken : m.from \in Peers
    BY TakenTyped DEF IInv, Msgs
  <1>6. Accounted'
    BY <1>1, <1>4, <1>5 DEF IInv, Accounted, UnderWay, TakenBefore, TakenAll, TakenOnce
  <1>7. Apart'
    BY <1>1 DEF IInv, Apart
  <1> QED BY <1>1, <1>3, <1>6, <1>7 DEF IInv

LEMMA NextKeeps ==
  ASSUME IInv, [Next]_vars
  PROVE  /\ IInv'
         /\ handled' # handled => ~is_stale_message(Last(handled'))
  <1>1. ASSUME NEW p \in Peers, Send(p) PROVE IInv' /\ handled' = handled
    BY <1>1, SendKeeps DEF Send
  <1>2. ASSUME NEW p \in Peers, _dispatch(p)
        PROVE  IInv' /\ (handled' # handled => ~is_stale_message(Last(handled')))
    BY <1>2, DispatchKeeps
  <1>3. CASE HandleDeferred
    BY <1>3, DeferredKeeps
  <1>4. CASE \/ \E p \in Peers : NewMap(p)
             \/ BeaconChanges \/ RunContext \/ ContextsDone \/ QueuesAdvanced
             \/ ProgressThread \/ tick \/ UNCHANGED vars
    BY <1>4, OthersKeep
  <1> QED BY <1>1, <1>2, <1>3, <1>4 DEF Next

(* A message that a peer has sent is under way, set aside, handled or       *)
(* dropped, and only one of these, once: _dispatch and _advance_queues      *)
(* neither lose nor repeat any, however lagginess changes between them.     *)
THEOREM EachMessageOnceAlways == Spec => []EachMessageOnce
  <1>1. IInv /\ [Next]_vars => IInv'
    BY NextKeeps
  <1> QED BY InitEstablishes, InvImplies, <1>1, PTL DEF Spec

(* No handler sees a message of an instance that the map has replaced, not  *)
(* even one that was set aside before the replacement.                      *)
THEOREM NoMessageOfAReplacedPeerAlways == Spec => NoMessageOfAReplacedPeer
  <1>1. IInv /\ [Next]_vars => IInv'
    BY NextKeeps
  <1>2. IInv /\ [Next]_vars =>
          [handled' # handled => ~is_stale_message(Last(handled'))]_vars
    BY NextKeeps
  <1> QED BY InitEstablishes, <1>1, <1>2, PTL DEF Spec, NoMessageOfAReplacedPeer

=============================================================================
