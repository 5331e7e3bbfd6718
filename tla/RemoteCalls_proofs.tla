-------------------------- MODULE RemoteCalls_proofs --------------------------
(***************************************************************************)
(* What the request layer guarantees whatever is lost or late, for any     *)
(* range of sequences, any first sequence and any number of requests below *)
(* the range: an accepted reply puts Host and device in step, and the      *)
(* clients implement the calls of Rpc, but for the requests that repeat    *)
(* the type and the sequence of a failed one.                              *)
(*                                                                         *)
(* Sequences wrap around, so they are compared by Rank, the number of      *)
(* steps from the first one.                                               *)
(***************************************************************************)
EXTENDS RemoteCalls, Sequences, TLAPS

(* The sequences of RequestSequence.                                       *)
Numbering == 1 .. MaxSequence

LEMMA ChannelConstants ==
    /\ MaxSequence \in Nat /\ FirstSequence \in Numbering
    /\ MaxBegun \in Nat /\ MaxBegun < MaxSequence
BY CallsAssumption, Zenon DEF CallsAssumption, Channel!ChannelAssumption, Numbering

Rank(s) == IF s >= FirstSequence THEN s - FirstSequence ELSE s - FirstSequence + MaxSequence

LEMMA RankRange ==
    ASSUME NEW s \in Numbering PROVE Rank(s) \in Nat /\ Rank(s) < MaxSequence
BY ChannelConstants DEF Rank, Numbering

LEMMA RankAdvances ==
    ASSUME NEW s \in Numbering
    PROVE  /\ Channel!AdvanceAfter(s) \in Numbering
           /\ Rank(s) < MaxSequence - 1 => Rank(Channel!AdvanceAfter(s)) = Rank(s) + 1
BY ChannelConstants DEF Rank, Numbering, Channel!AdvanceAfter

-----------------------------------------------------------------------------
(***************************************************************************)
(* The steps of the channel.                                               *)
(***************************************************************************)
AllKinds == {"service", "live", "identity", "workload"}

BeginStep ==
    /\ phase = "idle" /\ begun + 1 < MaxSequence
    /\ \E kind \in AllKinds :
          record' = <<[call |-> begun + 1, kind |-> kind, sequence |-> sequence]>>
    /\ begun' = begun + 1 /\ phase' = "draining"
    /\ doubtful' = IF Channel!Tag(record'[1]) \in kept THEN doubtful \cup {begun + 1} ELSE doubtful
    /\ UNCHANGED <<sequence, accepted, verdicts, kept, slot, handling, endpoint, handled, inbox>>

OtherStep ==
    \/ Channel!Drain \/ Channel!Write \/ Channel!ReadReply \/ Channel!GiveUp \/ Channel!Disconnect
    \/ Channel!TakeRecord \/ Channel!Handle \/ Channel!Deliver

LEMMA ChannelSteps ==
    begun \in Nat /\ Channel!Next => BeginStep \/ OtherStep \/ UNCHANGED channelVars
<1> SUFFICES ASSUME begun \in Nat, Channel!Next
             PROVE  BeginStep \/ OtherStep \/ UNCHANGED channelVars
  OBVIOUS
<1>1. CASE Channel!Begin
  BY <1>1, ChannelConstants DEF Channel!Begin, BeginStep, AllKinds, Channel!AllKinds, Channel!deviceVars
<1>2. CASE Channel!Finished
  BY <1>2, Zenon DEF Channel!Finished, Channel!vars, Channel!hostVars, Channel!deviceVars, channelVars
<1> QED BY <1>1, <1>2, Zenon DEF Channel!Next, Channel!HostStep, OtherStep

-----------------------------------------------------------------------------
(***************************************************************************)
(* The inductive invariant.                                                *)
(***************************************************************************)
OpenPhases == {"draining", "writing", "waiting"}
Requests == [call : Nat, kind : AllKinds, sequence : Numbering]
Replies == [call : Nat, kind : AllKinds, sequence : Numbering, ok : BOOLEAN]
Acceptances == [asked : Nat, answered : Nat]

ChannelTypes ==
    /\ sequence \in Numbering
    /\ begun \in Nat /\ begun < MaxSequence
    /\ phase \in OpenPhases \cup {"idle", "closed"}
    /\ record \in Seq(Requests)
    /\ slot \in Seq(Requests) /\ handling \in Seq(Requests)
    /\ endpoint \in Seq(Replies) /\ inbox \in Seq(Replies)
    /\ accepted \in Seq(Acceptances)

(* The request in hand is the last one, with the sequence of its client.   *)
RequestIsCurrent ==
    IF phase \in OpenPhases
    THEN /\ record # <<>>
         /\ record[1].call = begun /\ record[1].sequence = sequence
         /\ Rank(sequence) < begun
    ELSE record = <<>> /\ Rank(sequence) <= begun

Members(q) == {q[i] : i \in DOMAIN q}
InFlight == Members(slot) \cup Members(handling) \cup Members(endpoint) \cup Members(inbox)

(* Nothing under way is ahead of the client.                               *)
NothingAhead ==
    \A r \in InFlight : r.call <= begun /\ Rank(r.sequence) <= Rank(sequence)

(* What was under way when a reply was accepted is behind the client for   *)
(* good, and what is accepted later was asked later.                       *)
AcceptedIsPast ==
    /\ \A i \in DOMAIN accepted :
        /\ accepted[i].asked <= begun
        /\ phase \in OpenPhases => accepted[i].asked < begun
    /\ \A i \in DOMAIN accepted : \A r \in InFlight :
        r.call <= accepted[i].asked => Rank(r.sequence) < Rank(sequence)

ChannelInv ==
    /\ ChannelTypes /\ RequestIsCurrent /\ NothingAhead /\ AcceptedIsPast
    /\ AcceptanceResynchronises

(* What is under way with the sequence of the client answers the request   *)
(* in hand, or is known as kept; the request in hand is doubtful exactly   *)
(* when its type and sequence are.                                         *)
LateIsKept ==
    phase # "closed" =>
        \A r \in InFlight :
            r.sequence = sequence =>
                \/ Channel!Tag(r) \in kept
                \/ /\ phase \in OpenPhases
                   /\ r.call = begun /\ Channel!Tag(r) = Channel!Tag(record[1])

DoubtIsKnown ==
    /\ doubtful \subseteq 1 .. begun /\ verdicts \subseteq 1 .. begun
    /\ phase \in OpenPhases => (begun \in doubtful <=> Channel!Tag(record[1]) \in kept)

(* A call is executed once.                                                *)
ExecutedOnce ==
    /\ handled \subseteq 1 .. begun
    /\ \A r \in InFlight : r.call \in 1 .. begun
    /\ \A r \in Members(endpoint) \cup Members(inbox) : r.call \in handled
    /\ \A r \in Members(slot) \cup Members(handling) : r.call \notin handled
    /\ \A r \in Members(slot), h \in Members(handling) : r.call # h.call
    /\ phase \in {"draining", "writing"}
          => /\ begun \notin handled
             /\ \A r \in Members(slot) \cup Members(handling) : r.call # begun

CallInv == LateIsKept /\ DoubtIsKnown /\ ExecutedOnce

-----------------------------------------------------------------------------
(***************************************************************************)
(* Where the records under way come from, and what the Host does.          *)
(***************************************************************************)
LEMMA MembersFacts ==
    /\ Members(<<>>) = {}
    /\ \A x : Members(<<x>>) = {x}
    /\ \A S : \A q \in Seq(S) :
        /\ Members(q) \subseteq S /\ \A i \in DOMAIN q : q[i] \in S
        /\ \A x \in S : Members(Append(q, x)) = Members(q) \cup {x}
        /\ q # <<>> => /\ Head(q) = q[1] /\ q[1] \in S /\ q[1] \in Members(q)
                       /\ Tail(q) \in Seq(S) /\ Members(Tail(q)) \subseteq Members(q)
<1>1. Members(<<>>) = {} /\ \A x : Members(<<x>>) = {x}
  BY DEF Members
<1>2. ASSUME NEW S, NEW q \in Seq(S), NEW x \in S
      PROVE  Members(Append(q, x)) = Members(q) \cup {x}
  <2>1. /\ DOMAIN Append(q, x) = 1 .. Len(q) + 1 /\ DOMAIN q = 1 .. Len(q)
        /\ Append(q, x)[Len(q) + 1] = x
        /\ \A i \in DOMAIN q : Append(q, x)[i] = q[i]
    OBVIOUS
  <2>2. DOMAIN Append(q, x) = DOMAIN q \cup {Len(q) + 1} /\ Len(q) \in Nat
    BY <2>1
  <2> QED BY <2>1, <2>2 DEF Members
<1>3. ASSUME NEW S, NEW q \in Seq(S), q # <<>>
      PROVE  /\ Head(q) = q[1] /\ q[1] \in S /\ q[1] \in Members(q)
             /\ Tail(q) \in Seq(S) /\ Members(Tail(q)) \subseteq Members(q)
  <2>1. /\ 1 \in DOMAIN q /\ Head(q) = q[1] /\ q[1] \in S /\ Tail(q) \in Seq(S)
        /\ \A i \in DOMAIN Tail(q) : i + 1 \in DOMAIN q /\ Tail(q)[i] = q[i + 1]
    BY <1>3
  <2> QED BY <2>1 DEF Members
<1>4. \A S : \A q \in Seq(S) : Members(q) \subseteq S /\ \A i \in DOMAIN q : q[i] \in S
  BY DEF Members
<1> QED BY <1>1, <1>2, <1>3, <1>4

(* A record under way was under way before, perhaps as the request that it *)
(* answers, or it is the request that the Host writes.                     *)
Comes ==
    \A r \in InFlight' :
        \/ \E q \in InFlight : q.call = r.call /\ q.sequence = r.sequence
                                /\ Channel!Tag(q) = Channel!Tag(r)
        \/ phase = "writing" /\ r = record[1]

(* A step of the Host: it goes on with its request, gives it up, with or   *)
(* without a new sequence, or accepts a reply, with a new sequence.        *)
GoesOn ==
    /\ UNCHANGED <<sequence, begun, record, accepted, verdicts, kept, doubtful>>
    /\ \/ phase \in OpenPhases /\ phase' \in OpenPhases
       \/ phase' = phase
Fails ==
    /\ phase \in OpenPhases /\ phase' \in {"idle", "closed"}
    /\ record' = <<>> /\ UNCHANGED <<begun, accepted, verdicts, doubtful>>
    /\ \/ /\ sequence' = sequence
          /\ phase' = "idle" => kept' = kept \cup {Channel!Tag(record[1])}
       \/ sequence' = Channel!AdvanceAfter(record[1].sequence)
Accepts ==
    /\ phase = "waiting" /\ phase' = "idle"
    /\ record' = <<>> /\ UNCHANGED <<begun, kept, doubtful>>
    /\ sequence' = Channel!AdvanceAfter(record[1].sequence)
    /\ \E r \in Members(inbox) :
        /\ r.sequence = record[1].sequence
        /\ r.kind = Channel!WireType(record[1].kind)
        /\ accepted' = Append(accepted, [asked |-> record[1].call, answered |-> r.call])
        /\ verdicts' \in {verdicts, verdicts \cup {record[1].call}}

LEMMA HostEffect ==
    ChannelTypes /\ RequestIsCurrent /\ OtherStep => GoesOn \/ Fails \/ Accepts
<1> SUFFICES ASSUME ChannelTypes, RequestIsCurrent, OtherStep PROVE GoesOn \/ Fails \/ Accepts
  OBVIOUS
<1> USE DEF OpenPhases, Channel!deviceVars, Channel!hostVars
<1>1. phase \in OpenPhases => record[1].kind \in AllKinds
  <2>1. phase \in OpenPhases => record[1] \in Requests
    BY MembersFacts, Zenon DEF ChannelTypes, RequestIsCurrent
  <2> QED BY <2>1, Zenon DEF Requests
<1>2. \A r \in BOOLEAN : phase \in OpenPhases =>
        \/ Channel!SequenceAfter(r) = Channel!AdvanceAfter(record[1].sequence)
        \/ /\ ~r /\ record[1].kind \in Channel!KeepingClients
           /\ Channel!SequenceAfter(r) = sequence
  BY <1>1, Zenon DEF AllKinds, Channel!SequenceAfter, Channel!ServiceRequest, Channel!LiveRequest,
              Channel!WorkloadTransact, Channel!EnsurePreparedRuntimeInitialized,
              Channel!KeepingClients
<1>3. CASE Channel!Drain \/ Channel!Write \/ Channel!TakeRecord \/ Channel!Handle \/ Channel!Deliver
  BY <1>3, Zenon DEF GoesOn, Channel!Drain, Channel!Write, Channel!TakeRecord, Channel!Handle, Channel!Deliver
<1>4. CASE Channel!GiveUp
  BY <1>2, <1>4, Zenon DEF Fails, Channel!GiveUp
<1>5. CASE Channel!Disconnect
  BY <1>5, Zenon DEF Fails, Channel!Disconnect
<1>6. CASE Channel!ReadReply
  <2>1. CASE Channel!ValidateDeviceReply(Head(inbox))
    <3>1. Head(inbox) \in Members(inbox)
      BY <1>6, MembersFacts, Zenon DEF Channel!ReadReply, ChannelTypes
    <3>2. /\ Head(inbox).sequence = record[1].sequence
          /\ Head(inbox).kind = Channel!WireType(record[1].kind)
      BY <2>1, Zenon DEF Channel!ValidateDeviceReply, Channel!ValidateLiveReply, Channel!WireType
    <3>3. sequence' = Channel!AdvanceAfter(record[1].sequence)
      BY <1>2, <1>6, <2>1, Zenon DEF Channel!ReadReply
    <3> QED BY <1>6, <2>1, <3>1, <3>2, <3>3, Zenon DEF Channel!ReadReply, Accepts
  <2>2. CASE ~Channel!ValidateDeviceReply(Head(inbox))
    BY <1>6, <2>2, Zenon DEF Channel!ReadReply, GoesOn
  <2> QED BY <2>1, <2>2, Zenon
<1> QED BY <1>3, <1>4, <1>5, <1>6, Zenon DEF OtherStep

LEMMA FlightEffect == ChannelTypes /\ RequestIsCurrent /\ OtherStep => Comes
<1> SUFFICES ASSUME ChannelTypes, RequestIsCurrent, OtherStep PROVE Comes
  OBVIOUS
<1> USE DEF Channel!deviceVars, Channel!hostVars
<1>1. CASE InFlight' \subseteq InFlight
  BY <1>1, Zenon DEF Comes
<1>2. CASE Channel!GiveUp \/ Channel!Disconnect
  <2>1. UNCHANGED <<slot, handling, endpoint, inbox>>
    BY <1>2, Zenon DEF Channel!GiveUp, Channel!Disconnect
  <2> QED BY <1>1, <2>1, Zenon DEF InFlight, Members
<1>3. CASE Channel!Drain \/ Channel!ReadReply
  <2>1. /\ UNCHANGED <<slot, handling, endpoint>>
        /\ inbox' = inbox \/ (inbox # <<>> /\ inbox' = Tail(inbox))
    BY <1>3, Zenon DEF Channel!Drain, Channel!ReadReply
  <2>2. Members(inbox)' \subseteq Members(inbox)
    BY <2>1, MembersFacts, Zenon DEF ChannelTypes
  <2>3. UNCHANGED <<Members(slot), Members(handling), Members(endpoint)>>
    BY <2>1, Zenon DEF Members
  <2> QED BY <1>1, <2>2, <2>3, Zenon DEF InFlight
<1>4. CASE Channel!Write
  <2>1. UNCHANGED <<Members(handling), Members(endpoint), Members(inbox)>>
    BY <1>4, Zenon DEF Channel!Write, Members
  <2>2. slot' = slot \/ slot' = <<record[1]>>
    BY <1>4, Zenon DEF Channel!Write, Channel!TryPublish
  <2>3. Members(slot)' \subseteq Members(slot) \cup {record[1]}
    BY <2>2, MembersFacts
  <2>4. phase = "writing"
    BY <1>4, Zenon DEF Channel!Write
  <2> QED BY <2>1, <2>3, <2>4, Zenon DEF InFlight, Comes
<1>5. CASE Channel!TakeRecord
  <2>1. Members(handling)' = Members(slot) /\ Members(slot)' = {}
    BY <1>5, MembersFacts DEF Channel!TakeRecord, Members
  <2>2. UNCHANGED <<Members(endpoint), Members(inbox)>>
    BY <1>5, Zenon DEF Channel!TakeRecord, Members
  <2> QED BY <1>1, <2>1, <2>2, Zenon DEF InFlight
<1>6. CASE Channel!Handle
  <2>1. Members(handling)' = {} /\ UNCHANGED <<Members(slot), Members(inbox)>>
    BY <1>6, MembersFacts DEF Channel!Handle, Members
  <2>2. handling[1] \in Members(handling)
    BY <1>6, MembersFacts, Zenon DEF Channel!Handle, ChannelTypes
  <2>3. \A r \in Members(endpoint') :
            \/ r \in Members(endpoint)
            \/ /\ r.call = handling[1].call /\ r.sequence = handling[1].sequence
               /\ Channel!Tag(r) = Channel!Tag(handling[1])
    <3>1. PICK ok \in BOOLEAN : endpoint' = IF endpoint = <<>> THEN <<Channel!ReplyTo(handling[1], ok)>>
                                                              ELSE endpoint
      BY <1>6, Zenon DEF Channel!Handle
    <3>2. CASE endpoint' = endpoint
      BY <3>2, Zenon
    <3>3. CASE endpoint' = <<Channel!ReplyTo(handling[1], ok)>>
      BY <3>3, MembersFacts DEF Channel!ReplyTo, Channel!Tag, Channel!WireType
    <3> QED BY <3>1, <3>2, <3>3, Zenon
  <2> QED BY <2>1, <2>2, <2>3, Zenon DEF InFlight, Comes
<1>7. CASE Channel!Deliver
  <2>1. Members(endpoint)' = {} /\ UNCHANGED <<Members(slot), Members(handling)>>
    BY <1>7, MembersFacts DEF Channel!Deliver, Members
  <2>2. endpoint[1] \in Replies /\ endpoint[1] \in Members(endpoint)
    BY <1>7, MembersFacts, Zenon DEF Channel!Deliver, ChannelTypes
  <2>3. Members(inbox)' = Members(inbox) \cup {endpoint[1]}
    BY <1>7, <2>2, MembersFacts DEF Channel!Deliver, ChannelTypes
  <2> QED BY <1>1, <2>1, <2>2, <2>3, Zenon DEF InFlight
<1> QED BY <1>2, <1>3, <1>4, <1>5, <1>6, <1>7, Zenon DEF OtherStep

LEMMA SequencesTyped ==
    ASSUME ChannelTypes, RequestIsCurrent, OtherStep
    PROVE  /\ slot' \in Seq(Requests) /\ handling' \in Seq(Requests)
           /\ endpoint' \in Seq(Replies) /\ inbox' \in Seq(Replies)
<1> USE MembersFacts DEF ChannelTypes, Channel!deviceVars, Channel!hostVars
<1>1. CASE Channel!Drain \/ Channel!ReadReply \/ Channel!GiveUp \/ Channel!Disconnect
  <2>1. /\ UNCHANGED <<slot, handling, endpoint>>
        /\ inbox' = inbox \/ (inbox # <<>> /\ inbox' = Tail(inbox))
    BY <1>1, Zenon DEF Channel!Drain, Channel!ReadReply, Channel!GiveUp, Channel!Disconnect
  <2>2. inbox # <<>> => Tail(inbox) \in Seq(Replies)
    OBVIOUS
  <2> QED BY <2>1, <2>2, Zenon
<1>2. CASE Channel!Write
  <2>1. record[1] \in Requests
    BY <1>2, Zenon DEF Channel!Write, RequestIsCurrent, OpenPhases
  <2> QED BY <1>2, <2>1 DEF Channel!Write, Channel!TryPublish
<1>3. CASE Channel!TakeRecord
  BY <1>3, Zenon DEF Channel!TakeRecord
<1>4. CASE Channel!Handle
  <2>1. handling[1] \in Requests
    BY <1>4, Zenon DEF Channel!Handle
  <2>2. \A ok \in BOOLEAN : Channel!ReplyTo(handling[1], ok) \in Replies
    <3>1. Channel!WireType(handling[1].kind) \in AllKinds
      BY <2>1, Zenon DEF Requests, AllKinds, Channel!WireType
    <3> QED BY <2>1, <3>1, Zenon DEF Channel!ReplyTo, Requests, Replies
  <2> QED BY <1>4, <2>2 DEF Channel!Handle
<1>5. CASE Channel!Deliver
  BY <1>5 DEF Channel!Deliver
<1> QED BY <1>1, <1>2, <1>3, <1>4, <1>5, Zenon DEF OtherStep

LEMMA FlightTyped ==
    ChannelTypes => \A r \in InFlight : r.call \in Nat /\ r.sequence \in Numbering
<1> SUFFICES ASSUME ChannelTypes, NEW r \in InFlight
             PROVE  r.call \in Nat /\ r.sequence \in Numbering
  OBVIOUS
<1>1. r \in Requests \/ r \in Replies
  BY MembersFacts, Zenon DEF ChannelTypes, InFlight
<1> QED BY <1>1, Zenon DEF Requests, Replies

LEMMA AcceptedTyped ==
    ChannelTypes => \A i \in DOMAIN accepted : accepted[i].asked \in Nat /\ accepted[i].answered \in Nat
<1>1. ChannelTypes => \A i \in DOMAIN accepted : accepted[i] \in Acceptances
  BY MembersFacts, Zenon DEF ChannelTypes
<1> QED BY <1>1, Zenon DEF Acceptances

LEMMA ChannelInitially == Channel!Init => ChannelInv /\ CallInv
<1> SUFFICES ASSUME Channel!Init PROVE ChannelInv /\ CallInv
  OBVIOUS
<1>1. Members(slot) = {} /\ Members(handling) = {} /\ Members(endpoint) = {} /\ Members(inbox) = {}
  BY MembersFacts, Zenon DEF Channel!Init
<1>2. Rank(sequence) = 0
  BY ChannelConstants DEF Channel!Init, Rank, Numbering
<1> QED BY <1>1, <1>2, ChannelConstants
        DEF Channel!Init, ChannelInv, ChannelTypes, RequestIsCurrent, NothingAhead, AcceptedIsPast,
            AcceptanceResynchronises, Channel!AcceptanceResynchronises, CallInv,
            LateIsKept, DoubtIsKnown, ExecutedOnce, InFlight, OpenPhases, Numbering

LEMMA ChannelBegins == ChannelInv /\ BeginStep => ChannelInv'
<1> SUFFICES ASSUME ChannelInv, BeginStep PROVE ChannelInv'
  OBVIOUS
<1>1. InFlight' = InFlight
  BY Zenon DEF BeginStep, InFlight, Members
<1>2. PICK kind \in AllKinds :
        record' = <<[call |-> begun + 1, kind |-> kind, sequence |-> sequence]>>
  BY Zenon DEF BeginStep
<1>3. [call |-> begun + 1, kind |-> kind, sequence |-> sequence] \in Requests
  BY DEF ChannelInv, ChannelTypes, Requests
<1>4. ChannelTypes'
  BY <1>2, <1>3, ChannelConstants DEF ChannelInv, ChannelTypes, BeginStep, OpenPhases
<1>5. Rank(sequence) \in Nat /\ \A r \in InFlight : r.call \in Nat
  BY RankRange, FlightTyped, Zenon DEF ChannelInv, ChannelTypes
<1>6. RequestIsCurrent'
  BY <1>2, <1>5 DEF ChannelInv, ChannelTypes, RequestIsCurrent, BeginStep, OpenPhases
<1>7. NothingAhead'
  BY <1>1, <1>5 DEF ChannelInv, ChannelTypes, NothingAhead, BeginStep
<1>8. AcceptedIsPast'
  <2>1. \A i \in DOMAIN accepted : accepted[i].asked \in Nat
    BY AcceptedTyped, Zenon DEF ChannelInv
  <2> QED BY <1>1, <2>1 DEF ChannelInv, ChannelTypes, AcceptedIsPast, BeginStep
<1>9. AcceptanceResynchronises'
  BY Zenon DEF ChannelInv, AcceptanceResynchronises, Channel!AcceptanceResynchronises, BeginStep
<1> QED BY <1>4, <1>6, <1>7, <1>8, <1>9, Zenon DEF ChannelInv

LEMMA ChannelAtRest == ChannelInv /\ UNCHANGED channelVars => ChannelInv'
BY Zenon DEF channelVars, ChannelInv, ChannelTypes, RequestIsCurrent, NothingAhead, AcceptedIsPast,
       AcceptanceResynchronises, Channel!AcceptanceResynchronises, InFlight, Members

LEMMA ChannelStep == ChannelInv /\ OtherStep => ChannelInv'
<1> SUFFICES ASSUME ChannelInv, OtherStep PROVE ChannelInv'
  OBVIOUS
<1> USE DEF ChannelInv
<1>1. Comes /\ (GoesOn \/ Fails \/ Accepts)
  BY FlightEffect, HostEffect, Zenon
<1>2. phase \in OpenPhases =>
        /\ record[1].sequence = sequence /\ record[1].call = begun
        /\ Channel!AdvanceAfter(sequence) \in Numbering
        /\ Rank(Channel!AdvanceAfter(sequence)) = Rank(sequence) + 1
  <2>1. Rank(sequence) \in Nat /\ begun \in Nat /\ begun < MaxSequence
    BY RankRange, Zenon DEF ChannelTypes
  <2>2. phase \in OpenPhases => Rank(sequence) < MaxSequence - 1
    BY <2>1, ChannelConstants DEF RequestIsCurrent
  <2> QED BY <2>2, RankAdvances, Zenon DEF ChannelTypes, RequestIsCurrent
<1>3. /\ Rank(sequence) \in Nat /\ begun \in Nat
      /\ \A r \in InFlight : r.call \in Nat /\ Rank(r.sequence) \in Nat
      /\ \A i \in DOMAIN accepted : accepted[i].asked \in Nat
  BY FlightTyped, AcceptedTyped, RankRange, Zenon DEF ChannelTypes
<1>4. /\ \A r \in InFlight' : r.call <= begun /\ Rank(r.sequence) <= Rank(sequence)
      /\ \A i \in DOMAIN accepted : \A r \in InFlight' :
            r.call <= accepted[i].asked => Rank(r.sequence) < Rank(sequence)
  BY <1>1, <1>2, <1>3 DEF Comes, NothingAhead, AcceptedIsPast, OpenPhases
<1>5. CASE GoesOn
  BY <1>4, <1>5, SequencesTyped, Zenon
     DEF GoesOn, ChannelTypes, RequestIsCurrent, NothingAhead, AcceptedIsPast,
         AcceptanceResynchronises, Channel!AcceptanceResynchronises
<1>6. CASE Fails
  <2>1. ChannelTypes' /\ RequestIsCurrent'
    <3>1. /\ phase \in OpenPhases /\ phase' \in {"idle", "closed"} /\ record' = <<>>
          /\ UNCHANGED <<begun, accepted>>
          /\ sequence' = sequence \/ sequence' = Channel!AdvanceAfter(sequence)
      BY <1>2, <1>6, Zenon DEF Fails
    <3>2. sequence' \in Numbering /\ Rank(sequence) < begun
      BY <1>2, <3>1, Zenon DEF ChannelTypes, RequestIsCurrent
    <3>3. Rank(sequence') <= begun
      BY <1>2, <1>3, <3>1, <3>2
    <3>4. record' \in Seq(Requests)
      BY <3>1
    <3>5. ChannelTypes'
      BY <3>1, <3>2, <3>4, SequencesTyped, Zenon DEF ChannelTypes
    <3> QED BY <3>1, <3>3, <3>5 DEF RequestIsCurrent, OpenPhases
  <2>2. Rank(sequence') >= Rank(sequence) /\ Rank(sequence') \in Nat
    BY <1>2, <1>3, <1>6 DEF Fails
  <2>3. \A r \in InFlight' : r.call \in Nat /\ Rank(r.sequence) \in Nat
    BY <1>1, <1>2, <1>3, Zenon DEF Comes, OpenPhases
  <2>4. NothingAhead' /\ AcceptedIsPast'
    BY <1>3, <1>4, <1>6, <2>2, <2>3 DEF Fails, NothingAhead, AcceptedIsPast, OpenPhases
  <2>5. AcceptanceResynchronises'
    BY <1>6, Zenon DEF Fails, AcceptanceResynchronises, Channel!AcceptanceResynchronises
  <2> QED BY <2>1, <2>4, <2>5, Zenon
<1>7. CASE Accepts
  <2>1. PICK r \in Members(inbox) :
          /\ r.sequence = sequence
          /\ accepted' = Append(accepted, [asked |-> begun, answered |-> r.call])
    BY <1>2, <1>7, Zenon DEF Accepts, OpenPhases
  <2>2. r \in InFlight /\ [asked |-> begun, answered |-> r.call] \in Acceptances
    BY <1>3, Zenon DEF InFlight, Acceptances
  <2>3. ChannelTypes' /\ RequestIsCurrent'
    <3>1. /\ phase = "waiting" /\ phase' = "idle" /\ record' = <<>> /\ begun' = begun
          /\ sequence' = Channel!AdvanceAfter(sequence)
      BY <1>2, <1>7, Zenon DEF Accepts, OpenPhases
    <3>2. sequence' \in Numbering /\ Rank(sequence') = Rank(sequence) + 1 /\ Rank(sequence) < begun
      BY <1>2, <3>1, Zenon DEF OpenPhases, RequestIsCurrent
    <3>3. accepted' \in Seq(Acceptances)
      BY <2>1, <2>2 DEF ChannelTypes
    <3>4. record' \in Seq(Requests)
      BY <3>1
    <3>5. Rank(sequence') <= begun'
      BY <1>3, <3>1, <3>2
    <3>6. ChannelTypes'
      BY <3>1, <3>2, <3>3, <3>4, SequencesTyped, Zenon DEF ChannelTypes
    <3> QED BY <3>1, <3>5, <3>6 DEF RequestIsCurrent, OpenPhases
  <2>4. /\ DOMAIN accepted' = DOMAIN accepted \cup {Len(accepted) + 1}
        /\ accepted'[Len(accepted) + 1] = [asked |-> begun, answered |-> r.call]
        /\ \A i \in DOMAIN accepted : accepted'[i] = accepted[i] /\ i < Len(accepted) + 1
    BY <2>1, <2>2 DEF ChannelTypes
  <2>5. Rank(sequence') = Rank(sequence) + 1
    BY <1>2, <1>7, Zenon DEF Accepts, OpenPhases
  <2>6. \A q \in InFlight' : q.call \in Nat /\ Rank(q.sequence) \in Nat
    BY <1>1, <1>2, <1>3, Zenon DEF Comes, OpenPhases
  <2>7. NothingAhead' /\ AcceptedIsPast'
    <3>1. NothingAhead'
      BY <1>3, <1>4, <1>7, <2>5, <2>6 DEF Accepts, NothingAhead
    <3>2. \A i \in DOMAIN accepted' : accepted'[i].asked <= begun
      BY <1>3, <2>4 DEF AcceptedIsPast
    <3>3. \A q \in InFlight' : Rank(q.sequence) < Rank(sequence')
      BY <1>3, <1>4, <2>5, <2>6
    <3> QED BY <1>7, <3>1, <3>2, <3>3, Zenon DEF Accepts, AcceptedIsPast, OpenPhases
  <2>8. AcceptanceResynchronises'
    <3>1. \A i \in DOMAIN accepted : accepted[i].asked < r.call
      BY <1>3, <2>1, <2>2 DEF AcceptedIsPast
    <3>2. DOMAIN accepted \subseteq Nat /\ Len(accepted) \in Nat
      BY DEF ChannelTypes
    <3>3. ASSUME NEW i \in DOMAIN accepted', NEW j \in DOMAIN accepted', i < j
          PROVE  accepted'[i].asked < accepted'[j].answered
      <4>1. i \in DOMAIN accepted
        BY <2>4, <3>2, <3>3
      <4>2. CASE j \in DOMAIN accepted
        BY <2>4, <3>3, <4>1, <4>2, Zenon DEF AcceptanceResynchronises, Channel!AcceptanceResynchronises
      <4>3. CASE j = Len(accepted) + 1
        BY <2>4, <3>1, <4>1, <4>3
      <4> QED BY <2>4, <4>2, <4>3, Zenon
    <3> QED BY <3>3, Zenon DEF AcceptanceResynchronises, Channel!AcceptanceResynchronises
  <2> QED BY <2>3, <2>7, <2>8, Zenon
<1> QED BY <1>1, <1>5, <1>6, <1>7, Zenon

-----------------------------------------------------------------------------
(***************************************************************************)
(* The calls and their late replies.                                       *)
(***************************************************************************)
LEMMA CallBegins == ChannelInv /\ CallInv /\ BeginStep => CallInv'
<1> SUFFICES ASSUME ChannelInv, CallInv, BeginStep PROVE CallInv'
  OBVIOUS
<1>1. UNCHANGED <<InFlight, Members(slot), Members(handling), Members(endpoint), Members(inbox)>>
  BY Zenon DEF BeginStep, InFlight, Members
<1>2. begun \in Nat /\ begun' = begun + 1 /\ \A r \in InFlight : r.call \in 1 .. begun
  BY Zenon DEF ChannelInv, ChannelTypes, BeginStep, CallInv, ExecutedOnce
<1>3. LateIsKept'
  BY <1>1, Zenon DEF CallInv, LateIsKept, BeginStep, OpenPhases, Channel!Tag
<1>4. DoubtIsKnown'
  <2>1. /\ doubtful \subseteq 1 .. begun /\ verdicts' \subseteq 1 .. begun /\ kept' = kept
        /\ doubtful' = IF Channel!Tag(record'[1]) \in kept THEN doubtful \cup {begun + 1}
                                                         ELSE doubtful
    BY Zenon DEF CallInv, DoubtIsKnown, BeginStep
  <2>2. Channel!Tag(record[1])' = Channel!Tag(record'[1])
    BY Zenon DEF Channel!Tag
  <2> QED BY <1>2, <2>1, <2>2 DEF DoubtIsKnown
<1>5. ExecutedOnce'
  BY <1>1, <1>2 DEF CallInv, ExecutedOnce, BeginStep, InFlight
<1> QED BY <1>3, <1>4, <1>5, Zenon DEF CallInv

LEMMA LateStep == ChannelInv /\ CallInv /\ OtherStep => LateIsKept' /\ DoubtIsKnown'
<1> SUFFICES ASSUME ChannelInv, CallInv, OtherStep PROVE LateIsKept' /\ DoubtIsKnown'
  OBVIOUS
<1>1. Comes /\ (GoesOn \/ Fails \/ Accepts)
  BY FlightEffect, HostEffect, Zenon DEF ChannelInv
<1>2. phase \in OpenPhases =>
        /\ record[1].sequence = sequence /\ record[1].call = begun
        /\ Rank(Channel!AdvanceAfter(sequence)) = Rank(sequence) + 1
  <2>1. Rank(sequence) \in Nat /\ begun \in Nat /\ begun < MaxSequence
    BY RankRange, Zenon DEF ChannelInv, ChannelTypes
  <2>2. phase \in OpenPhases => Rank(sequence) < MaxSequence - 1
    BY <2>1, ChannelConstants DEF ChannelInv, RequestIsCurrent
  <2> QED BY <2>2, RankAdvances, Zenon DEF ChannelInv, ChannelTypes, RequestIsCurrent
<1>3. \A r \in InFlight' :
        r.sequence = sequence =>
            \/ Channel!Tag(r) \in kept
            \/ phase = "closed"
            \/ /\ phase \in OpenPhases
               /\ r.call = begun /\ Channel!Tag(r) = Channel!Tag(record[1])
  <2>1. phase = "writing" => phase \in OpenPhases
    BY DEF OpenPhases
  <2>2. ASSUME NEW r \in InFlight', r.sequence = sequence,
               NEW q \in InFlight, q.call = r.call, q.sequence = r.sequence,
               Channel!Tag(q) = Channel!Tag(r)
        PROVE  \/ Channel!Tag(r) \in kept
               \/ phase = "closed"
               \/ /\ phase \in OpenPhases
                  /\ r.call = begun /\ Channel!Tag(r) = Channel!Tag(record[1])
    BY <2>2, Zenon DEF CallInv, LateIsKept
  <2> QED BY <1>1, <1>2, <2>1, <2>2, Zenon DEF Comes
<1>4. CASE GoesOn
  <2>1. DoubtIsKnown'
    BY <1>4, Zenon DEF GoesOn, CallInv, DoubtIsKnown, OpenPhases, Channel!Tag
  <2>2. LateIsKept'
    <3>1. /\ UNCHANGED <<sequence, begun, record, kept>>
          /\ phase \in OpenPhases => phase' \in OpenPhases
          /\ phase = "closed" => phase' = "closed"
      BY <1>4, Zenon DEF GoesOn, OpenPhases
    <3>2. \A r : Channel!Tag(r)' = Channel!Tag(r)
      BY Zenon DEF Channel!Tag
    <3> QED BY <1>3, <3>1, <3>2, Zenon DEF LateIsKept
  <2> QED BY <2>1, <2>2, Zenon
<1>5. CASE Fails \/ Accepts
  <2>1. DoubtIsKnown'
    <3>1. begun \in 1 .. begun
      <4>1. begun \in Nat /\ Rank(sequence) \in Nat
        BY RankRange, Zenon DEF ChannelInv, ChannelTypes
      <4>2. Rank(sequence) < begun
        BY <1>5, Zenon DEF Fails, Accepts, ChannelInv, RequestIsCurrent, OpenPhases
      <4> QED BY <4>1, <4>2
    <3>2. /\ begun' = begun /\ doubtful' = doubtful /\ phase' \notin OpenPhases
          /\ verdicts' \in {verdicts, verdicts \cup {begun}}
      BY <1>2, <1>5, Zenon DEF Fails, Accepts, OpenPhases
    <3> QED BY <3>1, <3>2, Zenon DEF CallInv, DoubtIsKnown
  <2>2. phase \in OpenPhases /\ phase' \in {"idle", "closed"} /\ begun' = begun
    BY <1>5, Zenon DEF Fails, Accepts, OpenPhases
  <2>3. CASE sequence' = Channel!AdvanceAfter(record[1].sequence)
    <3>1. Rank(sequence) \in Nat /\ Rank(sequence) <= Rank(sequence)
      BY RankRange DEF ChannelInv, ChannelTypes
    <3>2. \A r \in InFlight' : Rank(r.sequence) <= Rank(sequence)
      BY <1>1, <1>2, <2>2, <3>1, Zenon DEF Comes, ChannelInv, NothingAhead
    <3>3. Rank(sequence') = Rank(sequence) + 1
      BY <1>2, <2>2, <2>3, Zenon
    <3>4. \A r \in InFlight' : r.sequence # sequence'
      BY <3>1, <3>2, <3>3
    <3> QED BY <2>1, <3>4, Zenon DEF LateIsKept
  <2>4. CASE sequence' = sequence /\ (phase' = "idle" => kept' = kept \cup {Channel!Tag(record[1])})
    <3>1. \A r \in InFlight' :
            r.sequence = sequence => Channel!Tag(r) \in kept \/ Channel!Tag(r) = Channel!Tag(record[1])
      BY <1>3, <2>2, Zenon DEF OpenPhases
    <3> QED BY <2>1, <2>2, <2>4, <3>1, Zenon DEF LateIsKept, OpenPhases, Channel!Tag
  <2> QED BY <1>5, <2>3, <2>4, Zenon DEF Fails, Accepts
<1> QED BY <1>1, <1>4, <1>5, Zenon

LEMMA ExecutedOnceStep == ChannelInv /\ CallInv /\ OtherStep => ExecutedOnce'
<1> SUFFICES ASSUME ChannelInv, CallInv, OtherStep PROVE ExecutedOnce'
  OBVIOUS
<1> USE DEF Channel!deviceVars, Channel!hostVars
<1>1. ExecutedOnce /\ ChannelTypes /\ RequestIsCurrent /\ begun \in Nat
  BY Zenon DEF CallInv, ChannelInv, ChannelTypes
<1>8. \A r \in InFlight' : r.call \in 1 .. begun'
  <2>1. Comes /\ begun' = begun
    BY <1>1, FlightEffect, HostEffect, Zenon DEF GoesOn, Fails, Accepts
  <2>2. phase = "writing" => record[1].call = begun /\ begun \in 1 .. begun
    <3>1. Rank(sequence) \in Nat
      BY <1>1, RankRange, Zenon DEF ChannelTypes
    <3> QED BY <1>1, <3>1 DEF RequestIsCurrent, OpenPhases
  <2> QED BY <1>1, <2>1, <2>2, Zenon DEF Comes, ExecutedOnce
<1>2. CASE Channel!GiveUp \/ Channel!Disconnect
  <2>1. /\ UNCHANGED <<begun, handled, slot, handling, endpoint, inbox>>
        /\ phase' \in {"idle", "closed"}
    BY <1>2, Zenon DEF Channel!GiveUp, Channel!Disconnect
  <2> QED BY <1>1, <1>8, <2>1, Zenon DEF ExecutedOnce
<1>3. CASE Channel!Drain \/ Channel!ReadReply
  <2>1. /\ UNCHANGED <<begun, handled, slot, handling, endpoint>>
        /\ inbox' = inbox \/ (inbox # <<>> /\ inbox' = Tail(inbox))
        /\ phase' \in {"draining", "writing"} => phase \in {"draining", "writing"}
    BY <1>3, Zenon DEF Channel!Drain, Channel!ReadReply
  <2>2. Members(inbox') \subseteq Members(inbox)
    BY <1>1, <2>1, MembersFacts, Zenon DEF ChannelTypes
  <2> QED BY <1>1, <1>8, <2>1, <2>2, Zenon DEF ExecutedOnce
<1>4. CASE Channel!Write
  <2>1. /\ UNCHANGED <<begun, handled, handling, endpoint, inbox>>
        /\ slot' = slot \/ slot' = <<record[1]>>
        /\ phase = "writing" /\ phase' = "waiting"
    BY <1>4, Zenon DEF Channel!Write, Channel!TryPublish
  <2>2. Members(slot') \subseteq Members(slot) \cup {record[1]} /\ record[1].call = begun
    BY <1>1, <2>1, MembersFacts DEF RequestIsCurrent, OpenPhases
  <2> QED BY <1>1, <1>8, <2>1, <2>2, Zenon DEF ExecutedOnce
<1>5. CASE Channel!TakeRecord
  <2>1. /\ UNCHANGED <<begun, handled, endpoint, inbox, phase>>
        /\ handling' = slot /\ Members(slot') = {}
    BY <1>5, MembersFacts, Zenon DEF Channel!TakeRecord
  <2> QED BY <1>1, <1>8, <2>1, Zenon DEF ExecutedOnce
<1>6. CASE Channel!Handle
  <2>1. /\ UNCHANGED <<begun, slot, inbox, phase>>
        /\ handled' = handled \cup {handling[1].call} /\ Members(handling') = {}
        /\ handling[1] \in Members(handling)
    BY <1>1, <1>6, MembersFacts, Zenon DEF Channel!Handle, ChannelTypes
  <2>2. handling[1].call \in 1 .. begun
    BY <1>1, <2>1, Zenon DEF ExecutedOnce, InFlight
  <2>3. \A r \in Members(endpoint') : r \in Members(endpoint) \/ r.call = handling[1].call
    <3>1. PICK ok \in BOOLEAN : endpoint' = IF endpoint = <<>> THEN <<Channel!ReplyTo(handling[1], ok)>>
                                                              ELSE endpoint
      BY <1>6, Zenon DEF Channel!Handle
    <3>2. CASE endpoint' = endpoint
      BY <3>2, Zenon
    <3>3. CASE endpoint' = <<Channel!ReplyTo(handling[1], ok)>>
      BY <3>3, MembersFacts DEF Channel!ReplyTo
    <3> QED BY <3>1, <3>2, <3>3, Zenon
  <2> QED BY <1>1, <1>8, <2>1, <2>2, <2>3, Zenon DEF ExecutedOnce
<1>7. CASE Channel!Deliver
  <2>1. /\ UNCHANGED <<begun, handled, slot, handling, phase>> /\ Members(endpoint') = {}
        /\ endpoint[1] \in Members(endpoint) /\ Members(inbox') = Members(inbox) \cup {endpoint[1]}
    BY <1>1, <1>7, MembersFacts DEF Channel!Deliver, ChannelTypes
  <2> QED BY <1>1, <1>8, <2>1, Zenon DEF ExecutedOnce
<1> QED BY <1>2, <1>3, <1>4, <1>5, <1>6, <1>7, Zenon DEF OtherStep

LEMMA CallAtRest == CallInv /\ UNCHANGED channelVars => CallInv'
<1> SUFFICES ASSUME CallInv, UNCHANGED channelVars PROVE CallInv'
  OBVIOUS
<1>1. UNCHANGED <<InFlight, Members(slot), Members(handling), Members(endpoint), Members(inbox)>>
  BY Zenon DEF channelVars, InFlight, Members
<1>2. LateIsKept' /\ DoubtIsKnown'
  BY <1>1, Zenon DEF channelVars, CallInv, LateIsKept, DoubtIsKnown, Channel!Tag
<1>3. ExecutedOnce'
  BY <1>1, Zenon DEF channelVars, CallInv, ExecutedOnce
<1> QED BY <1>2, <1>3, Zenon DEF CallInv

(* Every step is a step of Rpc or leaves its variables alone.              *)
LEMMA RpcStep ==
    ASSUME ChannelInv, CallInv, part = "channel", part' = "channel", BeginStep \/ OtherStep
    PROVE  [ChannelCalls!Next]_ChannelCalls!rpcVars
<1> DEFINE open == Channel!OpenCall
<1> USE DEF ChannelCalls!Next, ChannelCalls!rpcVars, Used, Channel!deviceVars, Channel!hostVars,
            Channel!Succeeded
<1>1. CASE BeginStep
  <2>1. open = 0 /\ open' = begun + 1
    BY <1>1 DEF BeginStep, Channel!OpenCall, ChannelInv, RequestIsCurrent, OpenPhases
  <2>2. (verdicts \ doubtful)' = verdicts \ doubtful
    <3>1. begun \in Nat /\ verdicts \subseteq 1 .. begun
      BY Zenon DEF ChannelInv, ChannelTypes, CallInv, DoubtIsKnown
    <3>2. begun + 1 \notin verdicts
      BY <3>1
    <3>3. verdicts' = verdicts /\ doubtful' \in {doubtful, doubtful \cup {begun + 1}}
      BY <1>1, Zenon DEF BeginStep
    <3> QED BY <3>2, <3>3
  <2> QED BY <1>1, <2>1, <2>2, Zenon DEF BeginStep, ChannelCalls!Call
<1>2. CASE OtherStep
  <2>1. CASE Channel!Handle
    <3>1. handling[1] \in Members(handling)
      BY <2>1, MembersFacts, Zenon DEF Channel!Handle, ChannelInv, ChannelTypes
    <3>2. handling[1].call \notin handled /\ handled' = handled \cup {handling[1].call}
      BY <2>1, <3>1, Zenon DEF Channel!Handle, CallInv, ExecutedOnce
    <3>3. UNCHANGED <<begun, record, verdicts, doubtful>>
      BY <2>1, Zenon DEF Channel!Handle
    <3>4. handling[1].call \in 1 .. begun
      BY <1>2, <3>2, <3>3, ExecutedOnceStep, Zenon DEF ExecutedOnce
    <3> QED BY <3>2, <3>3, <3>4, Zenon DEF ChannelCalls!Execute, Channel!OpenCall
  <2>2. CASE ~Channel!Handle
    <3>1. UNCHANGED <<handled, doubtful>>
      BY <1>2, <2>2, Zenon DEF OtherStep, Channel!Drain, Channel!Write, Channel!ReadReply,
             Channel!GiveUp, Channel!Disconnect, Channel!TakeRecord, Channel!Deliver
    <3>2. CASE GoesOn
      BY <3>1, <3>2, Zenon DEF GoesOn, Channel!OpenCall
    <3>3. phase \in OpenPhases => open = begun /\ begun # 0
      <4>1. Rank(sequence) \in Nat
        BY RankRange, Zenon DEF ChannelInv, ChannelTypes
      <4> QED BY <4>1 DEF Channel!OpenCall, ChannelInv, RequestIsCurrent
    <3>4. CASE Fails
      BY <3>1, <3>3, <3>4, Zenon DEF Fails, Channel!OpenCall, ChannelCalls!Fail
    <3>5. CASE Accepts
      <4>1. open = begun /\ begun # 0 /\ open' = 0 /\ UNCHANGED begun /\ record[1].call = begun
        BY <3>3, <3>5, Zenon DEF Accepts, Channel!OpenCall, OpenPhases, ChannelInv, RequestIsCurrent
      <4>2. CASE verdicts' = verdicts \/ begun \in doubtful
        <5>1. (verdicts \ doubtful)' = verdicts \ doubtful
          BY <3>1, <3>5, <4>1, <4>2 DEF Accepts
        <5> QED BY <3>1, <4>1, <5>1, Zenon DEF ChannelCalls!Fail
      <4>3. CASE verdicts' = verdicts \cup {begun} /\ begun \notin doubtful
        <5>1. PICK r \in Members(inbox) :
                r.sequence = record[1].sequence /\ r.kind = Channel!WireType(record[1].kind)
          BY <3>5, Zenon DEF Accepts
        <5>2. record[1].sequence = sequence /\ Channel!Tag(r) = Channel!Tag(record[1])
          BY <3>5, <5>1, Zenon
             DEF Accepts, ChannelInv, RequestIsCurrent, OpenPhases, Channel!Tag, Channel!WireType
        <5>3. Channel!Tag(r) \notin kept
          BY <3>5, <4>3, <5>2, Zenon DEF Accepts, CallInv, DoubtIsKnown, OpenPhases
        <5>4. r.call = begun
          BY <3>5, <5>1, <5>2, <5>3, Zenon DEF Accepts, CallInv, LateIsKept, InFlight, OpenPhases
        <5>5. begun \in handled
          BY <5>1, <5>4, Zenon DEF CallInv, ExecutedOnce
        <5>6. (verdicts \ doubtful)' = (verdicts \ doubtful) \cup {begun}
          BY <3>1, <4>3
        <5> QED BY <3>1, <4>1, <5>5, <5>6, Zenon DEF ChannelCalls!Succeed
      <4> QED BY <3>5, <4>1, <4>2, <4>3, Zenon DEF Accepts
    <3> QED BY <1>2, <3>2, <3>4, <3>5, HostEffect, Zenon DEF ChannelInv
  <2> QED BY <2>1, <2>2, Zenon
<1> QED BY <1>1, <1>2, Zenon

-----------------------------------------------------------------------------
(***************************************************************************)
(* The composition.                                                        *)
(***************************************************************************)
CallsInv == ChannelInv /\ CallInv

LEMMA CallsInitially == CallsInit => CallsInv
BY ChannelInitially, Zenon DEF CallsInit, CallsInv

LEMMA CallsStep ==
    CallsInv /\ [CallsNext]_callVars
        => /\ CallsInv' /\ part' = part
           /\ part = "channel" => [ChannelCalls!Next]_ChannelCalls!rpcVars
<1> SUFFICES ASSUME CallsInv, [CallsNext]_callVars
             PROVE  /\ CallsInv' /\ part' = part
                    /\ part = "channel" => [ChannelCalls!Next]_ChannelCalls!rpcVars
  OBVIOUS
<1>1. part' = part
  BY Zenon DEF CallsNext, callVars
<1>2. begun \in Nat
  BY Zenon DEF CallsInv, ChannelInv, ChannelTypes
<1>3. CASE UNCHANGED channelVars
  <2>1. CallsInv'
    BY <1>1, <1>3, ChannelAtRest, CallAtRest, Zenon DEF CallsInv
  <2>2. UNCHANGED ChannelCalls!rpcVars
    BY <1>1, <1>3, Zenon DEF channelVars, ChannelCalls!rpcVars, Used, Channel!OpenCall,
                            Channel!Succeeded
  <2> QED BY <1>1, <2>1, <2>2, Zenon
<1>4. CASE part = "channel" /\ Channel!Next
  <2>1. BeginStep \/ OtherStep \/ UNCHANGED channelVars
    BY <1>2, <1>4, ChannelSteps, Zenon
  <2>2. CASE BeginStep
    BY <1>1, <1>4, <2>2, ChannelBegins, CallBegins, RpcStep, Zenon DEF CallsInv
  <2>3. CASE OtherStep
    BY <1>1, <1>4, <2>3, ChannelStep, LateStep, ExecutedOnceStep, RpcStep, Zenon
       DEF CallsInv, CallInv
  <2> QED BY <1>3, <2>1, <2>2, <2>3, Zenon
<1> QED BY <1>3, <1>4, Zenon DEF CallsNext, callVars

(* The invariants of the request layer hold in every behaviour.            *)
THEOREM ChannelInvariance == CallsSpec => []CallsInv
BY CallsInitially, CallsStep, PTL DEF CallsSpec

(* For any range of sequences and fewer requests than sequences, of any    *)
(* clients and with any losses, delays and give-ups: whatever was late    *)
(* when a reply was accepted is not accepted after it.                     *)
THEOREM AcceptanceIsInStep == CallsSpec => []AcceptanceResynchronises
<1>1. CallsInv => AcceptanceResynchronises
  BY Zenon DEF CallsInv, ChannelInv
<1> QED BY <1>1, ChannelInvariance, PTL

(* The request layer, with all its clients, is an implementation of the    *)
(* calls of Rpc, its liveness left aside: a call is carried out at most    *)
(* once, and a success was carried out for that very call, unless the      *)
(* request repeated the type and the sequence of a failed one that         *)
(* WorkloadClient or the identity probe had kept.                          *)
THEOREM ChannelRefinement == CallsSpec => ChannelCalls!Safety
<1>1. CallsInit => ChannelCalls!Init
  <2>1. CallsInit => verdicts \ doubtful = {}
    BY DEF CallsInit, Channel!Init
  <2> QED BY <2>1, Zenon DEF CallsInit, Channel!Init, ChannelCalls!Init, Used, Channel!OpenCall,
                             Channel!Succeeded
<1>2. CallsInv /\ [CallsNext]_callVars => [ChannelCalls!Next]_ChannelCalls!rpcVars
  <2> SUFFICES ASSUME CallsInv, [CallsNext]_callVars
               PROVE  [ChannelCalls!Next]_ChannelCalls!rpcVars
    OBVIOUS
  <2>1. CASE part = "channel"
    BY <2>1, CallsStep, Zenon
  <2>2. CASE part # "channel"
    BY <2>2, CallsStep, Zenon DEF ChannelCalls!rpcVars, Used
  <2> QED BY <2>1, <2>2, Zenon
<1> QED BY <1>1, <1>2, ChannelInvariance, PTL DEF CallsSpec, ChannelCalls!Safety
=============================================================================
