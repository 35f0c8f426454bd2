------------------------- MODULE ProvisioningProofs -------------------------
(***************************************************************************)
(* What is proved of Provisioning, for any number of sessions and draws:   *)
(* the device takes provisioning data only under a session key both ends   *)
(* have computed, reveals only what it has committed itself to, and is not *)
(* displaced; and a session that succeeds has provisioned it.              *)
(***************************************************************************)
EXTENDS Provisioning, TLAPS

IsSeq(s) == s \in Seq({s[i] : i \in 1 .. Len(s)})

(* From here on a session keeps its transcript, its secret and its random. *)
Final == {"DataDistribution", "Success", "Gone"}
PeerKey(f, p) == SessionKey(f.transcript, f.secret, Own(p), f.theirs)

(* Data for session p in state f is the odd one, or its own, made with its *)
(* final key.                                                              *)
Genuine(f, p, pdu) ==
    Kind(pdu) = "Data" => \/ pdu = Data(Garbage, Nobody)
                          \/ f.phase \in Final /\ pdu = Data(PeerKey(f, p), p)

AllGenuine(f, p, s) == IsSeq(s) /\ \A i \in 1 .. Len(s) : Genuine(f, p, s[i])

SessionInv(f, p, sent) ==
    /\ DOMAIN f = DOMAIN NewProvisioner
    /\ f.phase \in Outcomes
    /\ AllGenuine(f, p, sent)
    /\ AllGenuine(f, p, f.response)

SessionsInv ==
    /\ DOMAIN provisioner = Provisioners /\ DOMAIN toDevice = Provisioners
    /\ \A p \in Provisioners : SessionInv(provisioner[p], p, toDevice[p])

(* What becomes of a session that is final.                                *)
Stays(f, g, p) == f.phase \in Final => g.phase \in Final /\ PeerKey(g, p) = PeerKey(f, p)

(* Before a Confirmation is checked, the one remembered is none, or the one*)
(* that was answered with the commitment that still holds, which is c, the *)
(* last the device has sent.                                               *)
Commitment(f) == Confirmation(Confirm(f.transcript, f.secret, f.mine, f.auth))

Committing(f, c) ==
    /\ f.phase \in {"Beaconing", "Invitation", "KeyExchange"} => f.confirmation = Zeros
    /\ f.phase = "Authentication" => \/ f.confirmation = Zeros
                                     \/ f.response = Commitment(f) /\ c = f.response
    /\ f.phase = "DataDistribution" => f.response = Random(f.mine) /\ c = Commitment(f)

RightFsm(f, c) ==
    /\ DOMAIN f = DOMAIN NewFsm
    /\ f.phase \in Phases
    /\ f.data \in Provisioners \cup {Nobody}
    /\ Committing(f, c)

DeviceInv ==
    /\ RightFsm(fsm, committed)
    /\ pc \in {"listening", "completing", "provisioned", "stopped"}
    /\ pc = "completing" => fsm.phase = "Complete" /\ fsm.data \in Provisioners
    /\ lastAnswered # NoPDU => fsm.response # NoPDU
    /\ draws \in 0 .. MaxDraws
    /\ stored \in Provisioners \cup {Nobody}
    /\ interrupted \subseteq Provisioners

(* The data taken is that of a session that is final, and has the key.     *)
TakenInv == fsm.phase = "Complete" =>
                /\ fsm.data \in Provisioners
                /\ provisioner[fsm.data].phase \in Final
                /\ Agrees(fsm.data)

ProvisioningInv == DeviceInv /\ SessionsInv /\ TakenInv

-----------------------------------------------------------------------------
(* Sequences, as what toDevice and the responses of a session hold.        *)

LEMMA SeqElements ==
    ASSUME NEW S, NEW s \in Seq(S)
    PROVE  IsSeq(s)
<1>1. Len(s) \in Nat /\ s = [i \in 1 .. Len(s) |-> s[i]]
  OBVIOUS
<1>2. \A i \in 1 .. Len(s) : s[i] \in {s[j] : j \in 1 .. Len(s)}
  OBVIOUS
<1> QED
  BY <1>1, <1>2 DEF IsSeq

LEMMA Short ==
    /\ IsSeq(<<>>)
    /\ \A a : IsSeq(<<a>>)
    /\ \A a, b : IsSeq(<<a, b>>)
<1>1. IsSeq(<<>>)
  BY <<>> \in Seq({}), SeqElements
<1>2. ASSUME NEW a PROVE IsSeq(<<a>>)
  BY <<a>> \in Seq({a}), SeqElements
<1>3. ASSUME NEW a, NEW b PROVE IsSeq(<<a, b>>)
  BY <<a, b>> \in Seq({a, b}), SeqElements
<1> QED
  BY <1>1, <1>2, <1>3

(* A concatenation, and a tail, have no elements of their own.             *)
LEMMA Concatenation ==
    ASSUME NEW s, NEW t, IsSeq(s), IsSeq(t)
    PROVE  /\ IsSeq(s \o t)
           /\ \A i \in 1 .. Len(s \o t) : \/ \E j \in 1 .. Len(s) : (s \o t)[i] = s[j]
                                          \/ \E j \in 1 .. Len(t) : (s \o t)[i] = t[j]
<1> DEFINE S == {s[i] : i \in 1 .. Len(s)} \cup {t[i] : i \in 1 .. Len(t)}
<1>1. s \in Seq(S) /\ t \in Seq(S)
  <2>1. s \in Seq({s[i] : i \in 1 .. Len(s)}) /\ t \in Seq({t[i] : i \in 1 .. Len(t)})
    BY DEF IsSeq
  <2> QED
    BY <2>1
<1> HIDE DEF S
<1>2. s \o t \in Seq(S) /\ Len(s \o t) = Len(s) + Len(t) /\ Len(s) \in Nat /\ Len(t) \in Nat
  BY <1>1
<1>3. ASSUME NEW i \in 1 .. Len(s \o t)
      PROVE  \/ \E j \in 1 .. Len(s) : (s \o t)[i] = s[j]
             \/ \E j \in 1 .. Len(t) : (s \o t)[i] = t[j]
  <2>1. CASE i <= Len(s)
    BY <1>1, <1>2, <2>1
  <2>2. CASE i > Len(s)
    <3>1. (s \o t)[i] = t[i - Len(s)] /\ i - Len(s) \in 1 .. Len(t)
      BY <1>1, <1>2, <2>2
    <3> QED
      BY <3>1
  <2> QED
    BY <1>2, <2>1, <2>2
<1> QED
  BY <1>2, <1>3, SeqElements

LEMMA Tailing ==
    ASSUME NEW s, IsSeq(s), s # <<>>
    PROVE  /\ Len(s) \in Nat \ {0}
           /\ IsSeq(Tail(s))
           /\ \A i \in 1 .. Len(Tail(s)) : \E j \in 1 .. Len(s) : Tail(s)[i] = s[j]
<1> DEFINE S == {s[i] : i \in 1 .. Len(s)}
<1>1. s \in Seq(S)
  BY DEF IsSeq
<1> HIDE DEF S
<1>2. Tail(s) \in Seq(S) /\ Len(s) \in Nat \ {0} /\ Len(Tail(s)) = Len(s) - 1
      /\ \A i \in 1 .. Len(Tail(s)) : Tail(s)[i] = s[i + 1] /\ i + 1 \in 1 .. Len(s)
  BY <1>1
<1> QED
  BY <1>2, SeqElements

LEMMA Appending ==
    ASSUME NEW s, NEW e, IsSeq(s)
    PROVE  Append(s, e) = s \o <<e>>
<1> DEFINE S == {s[i] : i \in 1 .. Len(s)} \cup {e}
<1>1. s \in Seq(S) /\ e \in S
  <2>1. s \in Seq({s[i] : i \in 1 .. Len(s)})
    BY DEF IsSeq
  <2> QED
    BY <2>1
<1> HIDE DEF S
<1> QED
  BY <1>1

-----------------------------------------------------------------------------
(* Sessions.                                                               *)

LEMMA GenuineConcatenation ==
    ASSUME NEW f, NEW p, NEW s, NEW t, AllGenuine(f, p, s), AllGenuine(f, p, t)
    PROVE  AllGenuine(f, p, s \o t)
<1> IsSeq(s) /\ IsSeq(t)
  BY DEF AllGenuine
<1> QED
  BY Concatenation DEF AllGenuine

LEMMA GenuineTail ==
    ASSUME NEW f, NEW p, NEW s, AllGenuine(f, p, s), s # <<>>
    PROVE  AllGenuine(f, p, Tail(s)) /\ Genuine(f, p, s[1])
<1> IsSeq(s)
  BY DEF AllGenuine
<1> QED
  BY Tailing DEF AllGenuine

LEMMA GenuineStays ==
    ASSUME NEW f, NEW g, NEW p, NEW s, AllGenuine(f, p, s), Stays(f, g, p)
    PROVE  AllGenuine(g, p, s)
BY DEF AllGenuine, Genuine, Stays

LEMMA NothingGenuine ==
    ASSUME NEW f, NEW p
    PROVE  AllGenuine(f, p, <<>>)
BY Short DEF AllGenuine

(* PDUs other than Data are genuine.                                       *)
LEMMA OthersGenuine ==
    /\ \A f, p, a : Kind(a) # "Data" => AllGenuine(f, p, <<a>>)
    /\ \A f, p, a, b : Kind(a) # "Data" /\ Kind(b) # "Data" => AllGenuine(f, p, <<a, b>>)
BY Short DEF AllGenuine, Genuine

(* One session moves from f to g, or stays, and what it sends is genuine.  *)
LEMMA SessionMoves ==
    ASSUME SessionsInv, NEW p \in Provisioners, NEW g,
           DOMAIN provisioner' = Provisioners, provisioner'[p] = g,
           \A q \in Provisioners : q # p => provisioner'[q] = provisioner[q],
           DOMAIN toDevice' = Provisioners,
           \A q \in Provisioners : q # p => toDevice'[q] = toDevice[q],
           SessionInv(g, p, toDevice'[p]),
           Stays(provisioner[p], g, p)
    PROVE  /\ SessionsInv'
           /\ \A q \in Provisioners : Stays(provisioner[q], provisioner'[q], q)
<1>1. \A q \in Provisioners : Stays(provisioner[q], provisioner'[q], q)
  BY DEF Stays
<1>2. \A q \in Provisioners : SessionInv(provisioner'[q], q, toDevice'[q])
  BY DEF SessionsInv
<1> QED
  BY <1>1, <1>2 DEF SessionsInv

(* The same for one that sends a response.                                 *)
LEMMA SessionSends ==
    ASSUME SessionsInv, NEW p \in Provisioners, NEW g, NEW sent,
           DOMAIN provisioner' = Provisioners, provisioner'[p] = g,
           \A q \in Provisioners : q # p => provisioner'[q] = provisioner[q],
           toDevice' = [toDevice EXCEPT ![p] = @ \o sent],
           DOMAIN g = DOMAIN NewProvisioner, g.phase \in Outcomes,
           AllGenuine(g, p, sent), AllGenuine(g, p, g.response),
           Stays(provisioner[p], g, p)
    PROVE  /\ SessionsInv'
           /\ \A q \in Provisioners : Stays(provisioner[q], provisioner'[q], q)
<1>1. /\ DOMAIN toDevice' = Provisioners
      /\ toDevice'[p] = toDevice[p] \o sent
      /\ \A q \in Provisioners : q # p => toDevice'[q] = toDevice[q]
  BY DEF SessionsInv
<1>2. AllGenuine(provisioner[p], p, toDevice[p])
  BY DEF SessionsInv, SessionInv
<1>3. AllGenuine(g, p, toDevice'[p])
  BY <1>1, <1>2, GenuineStays, GenuineConcatenation
<1>4. SessionInv(g, p, toDevice'[p])
  BY <1>3 DEF SessionInv
<1> QED
  BY <1>1, <1>4, SessionMoves

LEMMA BeginKeeps ==
    ASSUME SessionsInv, NEW p \in Provisioners, Begin(p)
    PROVE  /\ SessionsInv'
           /\ \A q \in Provisioners : Stays(provisioner[q], provisioner'[q], q)
<1> DEFINE g == [NewProvisioner EXCEPT !.phase = "Invitation", !.transcript = <<Invite>>,
                                       !.response = <<Invite>>]
<1>1. /\ DOMAIN provisioner' = Provisioners /\ provisioner'[p] = g
      /\ \A q \in Provisioners : q # p => provisioner'[q] = provisioner[q]
      /\ toDevice' = [toDevice EXCEPT ![p] = @ \o g.response]
      /\ provisioner[p].phase = "Idle"
  BY DEF Begin, Advance, SessionsInv
<1>2. /\ DOMAIN g = DOMAIN NewProvisioner /\ g.phase \in Outcomes
      /\ g.response = <<Invite>>
  BY DEF NewProvisioner, Outcomes
<1>3. AllGenuine(g, p, <<Invite>>)
  <2>1. Kind(Invite) # "Data"
    BY DEF Invite, Kind
  <2> QED
    BY <2>1, OthersGenuine
<1>4. Stays(provisioner[p], g, p)
  BY <1>1 DEF Stays, Final
<1> HIDE DEF g
<1> QED
  BY <1>1, <1>2, <1>3, <1>4, SessionSends

LEMMA SendAgainKeeps ==
    ASSUME SessionsInv, NEW p \in Provisioners, SendAgain(p)
    PROVE  /\ SessionsInv'
           /\ \A q \in Provisioners : Stays(provisioner[q], provisioner'[q], q)
<1> DEFINE g == provisioner[p]
<1>1. /\ DOMAIN provisioner' = Provisioners /\ provisioner'[p] = g
      /\ \A q \in Provisioners : q # p => provisioner'[q] = provisioner[q]
      /\ toDevice' = [toDevice EXCEPT ![p] = @ \o g.response]
  BY DEF SendAgain, Advance, SessionsInv
<1>2. SessionInv(g, p, toDevice[p]) /\ Stays(g, g, p)
  BY DEF SessionsInv, Stays
<1>3. DOMAIN g = DOMAIN NewProvisioner /\ g.phase \in Outcomes /\ AllGenuine(g, p, g.response)
  BY <1>2 DEF SessionInv
<1> HIDE DEF g
<1> QED
  BY <1>1, <1>2, <1>3, SessionSends DEF g

LEMMA SendOddKeeps ==
    ASSUME SessionsInv, NEW p \in Provisioners, SendOdd(p)
    PROVE  /\ SessionsInv'
           /\ \A q \in Provisioners : Stays(provisioner[q], provisioner'[q], q)
<1> DEFINE g == provisioner[p]
<1>1. PICK pdu \in Odd : toDevice' = [toDevice EXCEPT ![p] = Append(@, pdu)]
  BY DEF SendOdd
<1>2. SessionInv(g, p, toDevice[p]) /\ Stays(g, g, p)
  BY DEF SessionsInv, Stays
<1>3. DOMAIN g = DOMAIN NewProvisioner /\ g.phase \in Outcomes /\ AllGenuine(g, p, g.response)
  BY <1>2 DEF SessionInv
<1>4. IsSeq(toDevice[p])
  BY <1>2 DEF SessionInv, AllGenuine
<1>5. toDevice' = [toDevice EXCEPT ![p] = @ \o <<pdu>>]
  BY <1>1, <1>4, Appending
<1>6. /\ DOMAIN provisioner' = Provisioners /\ provisioner'[p] = g
      /\ \A q \in Provisioners : q # p => provisioner'[q] = provisioner[q]
  BY DEF SendOdd, SessionsInv
<1>7. AllGenuine(g, p, <<pdu>>)
  BY Short DEF AllGenuine, Genuine, Odd, Start, PublicKey, Confirmation, Random, Kind
<1> HIDE DEF g
<1> QED
  BY <1>2, <1>3, <1>5, <1>6, <1>7, SessionSends DEF g

LEMMA LeaveKeeps ==
    ASSUME SessionsInv, NEW p \in Provisioners, Leave(p)
    PROVE  /\ SessionsInv'
           /\ \A q \in Provisioners : Stays(provisioner[q], provisioner'[q], q)
<1> DEFINE g == [provisioner[p] EXCEPT !.phase = "Gone"]
<1>1. /\ DOMAIN provisioner' = Provisioners /\ provisioner'[p] = g
      /\ \A q \in Provisioners : q # p => provisioner'[q] = provisioner[q]
      /\ DOMAIN toDevice' = Provisioners
      /\ toDevice'[p] = <<>>
      /\ \A q \in Provisioners : q # p => toDevice'[q] = toDevice[q]
  BY DEF Leave, SessionsInv
<1>2. SessionInv(provisioner[p], p, toDevice[p])
  BY DEF SessionsInv
<1>3. /\ DOMAIN g = DOMAIN NewProvisioner /\ g.phase = "Gone"
      /\ g.response = provisioner[p].response
      /\ PeerKey(g, p) = PeerKey(provisioner[p], p)
  BY <1>2 DEF SessionInv, NewProvisioner, PeerKey
<1>4. Stays(provisioner[p], g, p)
  BY <1>3 DEF Stays, Final
<1>5. AllGenuine(g, p, g.response) /\ AllGenuine(g, p, <<>>)
  BY <1>2, <1>3, <1>4, GenuineStays, NothingGenuine DEF SessionInv
<1>6. SessionInv(g, p, toDevice'[p])
  BY <1>1, <1>3, <1>5 DEF SessionInv, Outcomes
<1> HIDE DEF g
<1> QED
  BY <1>1, <1>4, <1>6, SessionMoves

(* Provisioner::next, PDU by PDU.                                          *)
LEMMA MovesKeeps ==
    ASSUME NEW p, NEW f, NEW pdu,
           DOMAIN f = DOMAIN NewProvisioner, f.phase \in Outcomes,
           Understands(f, pdu)
    PROVE  /\ DOMAIN Moves(p, f, pdu) = DOMAIN NewProvisioner
           /\ Moves(p, f, pdu).phase \in Outcomes
           /\ AllGenuine(Moves(p, f, pdu), p, Moves(p, f, pdu).response)
           /\ Stays(f, Moves(p, f, pdu), p)
<1> DEFINE Right(g) == /\ DOMAIN g = DOMAIN NewProvisioner
                       /\ g.phase \in Outcomes
                       /\ AllGenuine(g, p, g.response)
                       /\ Stays(f, g, p)
<1>1. CASE f.phase = "Invitation" /\ Kind(pdu) = "Capabilities"
  <2> DEFINE g == Asked(f, p)
  <2>1. Moves(p, f, pdu) = g
    BY <1>1 DEF Moves
  <2>2. /\ DOMAIN g = DOMAIN NewProvisioner /\ g.phase = "KeyExchange"
        /\ g.response = <<Start("None"), PublicKey(Own(p))>>
    BY DEF Asked, NewProvisioner
  <2>3. Kind(Start("None")) # "Data" /\ Kind(PublicKey(Own(p))) # "Data"
    BY DEF Start, PublicKey, Kind
  <2> HIDE DEF g
  <2>4. AllGenuine(g, p, g.response)
    BY <2>2, <2>3, OthersGenuine
  <2>5. Right(g)
    BY <1>1, <2>2, <2>4 DEF Stays, Final, Outcomes
  <2> QED
    BY <2>1, <2>5
<1>2. CASE f.phase = "KeyExchange" /\ Kind(pdu) = "PublicKey"
  <2> DEFINE g == Committed(f, p, pdu[2])
             value == Confirm(g.transcript, g.secret, Own(p), Zeros)
  <2>1. Moves(p, f, pdu) = g
    BY <1>2 DEF Moves
  <2>2. /\ DOMAIN g = DOMAIN NewProvisioner /\ g.phase = "Authentication"
        /\ g.response = <<Confirmation(value)>>
    BY DEF Committed, NewProvisioner
  <2>3. Kind(Confirmation(value)) # "Data"
    BY DEF Confirmation, Kind
  <2> HIDE DEF g, value
  <2>4. AllGenuine(g, p, g.response)
    BY <2>2, <2>3, OthersGenuine
  <2>5. Right(g)
    BY <1>2, <2>2, <2>4 DEF Stays, Final, Outcomes
  <2> QED
    BY <2>1, <2>5
<1>3. CASE f.phase = "Authentication" /\ Kind(pdu) = "Confirmation"
  <2> DEFINE g == Opened(f, p, pdu[2])
  <2>1. Moves(p, f, pdu) = g
    BY <1>3 DEF Moves
  <2>2. /\ DOMAIN g = DOMAIN NewProvisioner /\ g.phase = "Authentication"
        /\ g.response = <<Random(Own(p))>>
    BY <1>3 DEF Opened, NewProvisioner
  <2>3. Kind(Random(Own(p))) # "Data"
    BY DEF Random, Kind
  <2> HIDE DEF g
  <2>4. AllGenuine(g, p, g.response)
    BY <2>2, <2>3, OthersGenuine
  <2>5. Right(g)
    BY <1>3, <2>2, <2>4 DEF Stays, Final, Outcomes
  <2> QED
    BY <2>1, <2>5
<1>4. CASE f.phase = "Authentication" /\ Kind(pdu) = "Random"
  <2>1. CASE Matches(f, pdu[2])
    <3> DEFINE g == Distributed(f, p, pdu[2])
    <3>1. Moves(p, f, pdu) = g
      BY <1>4, <2>1 DEF Moves
    <3>2. /\ DOMAIN g = DOMAIN NewProvisioner /\ g.phase = "DataDistribution"
          /\ g.response = <<Data(PeerKey(g, p), p)>>
      BY DEF Distributed, NewProvisioner, PeerKey
    <3> HIDE DEF g
    <3>3. AllGenuine(g, p, g.response)
      BY <3>2, Short DEF AllGenuine, Genuine, Final
    <3>4. Right(g)
      BY <1>4, <3>2, <3>3 DEF Stays, Final, Outcomes
    <3> QED
      BY <3>1, <3>4
  <2>2. CASE ~Matches(f, pdu[2])
    <3> DEFINE g == Failure(f)
    <3>1. Moves(p, f, pdu) = g
      BY <1>4, <2>2 DEF Moves
    <3>2. /\ DOMAIN g = DOMAIN NewProvisioner /\ g.phase = "Failure"
          /\ g.response = <<Failed>>
      BY DEF Failure, NewProvisioner
    <3>3. Kind(Failed) # "Data"
      BY DEF Failed, Kind
    <3> HIDE DEF g
    <3>4. AllGenuine(g, p, g.response)
      BY <3>2, <3>3, OthersGenuine
    <3>5. Right(g)
      BY <1>4, <3>2, <3>4 DEF Stays, Final, Outcomes
    <3> QED
      BY <3>1, <3>5
  <2> QED
    BY <2>1, <2>2
<1>5. CASE f.phase = "DataDistribution" /\ Kind(pdu) = "Complete"
  <2> DEFINE g == Success(f)
  <2>1. Moves(p, f, pdu) = g
    BY <1>5 DEF Moves
  <2>2. /\ DOMAIN g = DOMAIN NewProvisioner /\ g.phase = "Success"
        /\ g.response = <<>>
        /\ PeerKey(g, p) = PeerKey(f, p)
    BY DEF Success, NewProvisioner, PeerKey
  <2> HIDE DEF g
  <2>3. Right(g)
    BY <2>2, NothingGenuine DEF Stays, Final, Outcomes
  <2> QED
    BY <2>1, <2>3
<1> QED
  BY <1>1, <1>2, <1>3, <1>4, <1>5 DEF Understands

LEMMA HearsKeeps ==
    ASSUME SessionsInv, NEW p \in Provisioners, Hears(p)
    PROVE  /\ SessionsInv'
           /\ \A q \in Provisioners : Stays(provisioner[q], provisioner'[q], q)
<1> DEFINE f == provisioner[p]
           pdu == Head(fromDevice[p])
           g == IF Understands(f, pdu) THEN Moves(p, f, pdu) ELSE f
           sent == IF Understands(f, pdu) THEN g.response ELSE <<>>
<1>1. SessionInv(f, p, toDevice[p])
  BY DEF SessionsInv
<1>2. DOMAIN f = DOMAIN NewProvisioner /\ f.phase \in Outcomes /\ AllGenuine(f, p, f.response)
  BY <1>1 DEF SessionInv
<1>3. /\ DOMAIN provisioner' = Provisioners /\ provisioner'[p] = g
      /\ \A q \in Provisioners : q # p => provisioner'[q] = provisioner[q]
  BY DEF Hears, SessionsInv
<1>4. toDevice' = [toDevice EXCEPT ![p] = @ \o sent]
  <2>1. CASE Understands(f, pdu)
    BY <2>1 DEF Hears
  <2>2. CASE ~Understands(f, pdu)
    <3>1. [f EXCEPT !.response = <<>>].response = <<>>
      BY <1>2 DEF NewProvisioner
    <3> QED
      BY <2>2, <3>1 DEF Hears
  <2> QED
    BY <2>1, <2>2
<1>5. /\ DOMAIN g = DOMAIN NewProvisioner /\ g.phase \in Outcomes
      /\ AllGenuine(g, p, g.response) /\ Stays(f, g, p)
  <2>1. CASE Understands(f, pdu)
    BY <1>2, <2>1, MovesKeeps
  <2>2. CASE ~Understands(f, pdu)
    BY <1>2, <2>2 DEF Stays
  <2> QED
    BY <2>1, <2>2
<1>6. AllGenuine(g, p, sent)
  BY <1>5, NothingGenuine
<1> HIDE DEF g, sent, pdu
<1> QED
  BY <1>3, <1>4, <1>5, <1>6, SessionSends

(* Every session, and all that changes is what a session does.             *)
LEMMA SessionKeeps ==
    ASSUME SessionsInv, NEW p \in Provisioners, Session(p)
    PROVE  /\ SessionsInv'
           /\ \A q \in Provisioners : Stays(provisioner[q], provisioner'[q], q)
           /\ UNCHANGED <<pc, fsm, lastAnswered, draws, stored, committed, interrupted>>
<1>1. UNCHANGED <<pc, fsm, lastAnswered, draws, stored, committed, interrupted>>
  BY DEF Session, Begin, Hears, SendAgain, SendOdd, Lose, Leave, device, history
<1>2. CASE Lose(p)
  <2>1. UNCHANGED <<provisioner, toDevice>>
    BY <1>2 DEF Lose
  <2>2. SessionsInv'
    BY <2>1 DEF SessionsInv
  <2>3. \A f, q : Stays(f, f, q)
    BY DEF Stays
  <2> QED
    BY <1>1, <2>1, <2>2, <2>3
<1> QED
  BY <1>1, <1>2, BeginKeeps, HearsKeeps, SendAgainKeeps, SendOddKeeps, LeaveKeeps DEF Session

(* The power fails: links are gone, and what a session has computed stays. *)
LEMMA RebootKeeps ==
    ASSUME SessionsInv, Reboot
    PROVE  SessionsInv'
<1>1. /\ DOMAIN provisioner' = Provisioners /\ DOMAIN toDevice' = Provisioners
      /\ \A p \in Provisioners : toDevice'[p] = <<>>
  BY DEF Reboot
<1>2. ASSUME NEW p \in Provisioners PROVE SessionInv(provisioner'[p], p, <<>>)
  <2> DEFINE f == provisioner[p]
             g == provisioner'[p]
  <2>1. SessionInv(f, p, toDevice[p])
    BY DEF SessionsInv
  <2>2. g = f \/ g = [f EXCEPT !.phase = "Gone"]
    BY DEF Reboot
  <2>3. /\ DOMAIN g = DOMAIN NewProvisioner /\ g.phase \in Outcomes
        /\ g.response = f.response /\ Stays(f, g, p)
    BY <2>1, <2>2 DEF SessionInv, NewProvisioner, Stays, Final, PeerKey, Outcomes
  <2>4. AllGenuine(g, p, g.response)
    BY <2>1, <2>3, GenuineStays DEF SessionInv
  <2> QED
    BY <2>3, <2>4, NothingGenuine DEF SessionInv
<1> QED
  BY <1>1, <1>2 DEF SessionsInv

-----------------------------------------------------------------------------
(* The device.  What it has said last, when it says what f has to say.     *)
After(f, c) == IF Kind(f.response) = "Confirmation" THEN f.response ELSE c

LEMMA NewFsmIsRight == \A c : RightFsm(NewFsm, c) /\ NewFsm.phase = "Beaconing"
BY DEF RightFsm, NewFsm, Committing, Phases

(* Saying the same again changes no commitment.                            *)
LEMMA SayingAgain ==
    ASSUME NEW f, NEW c, RightFsm(f, c)
    PROVE  RightFsm(f, After(f, c))
<1>1. CASE f.phase = "DataDistribution"
  <2>1. Kind(f.response) # "Confirmation"
    BY <1>1 DEF RightFsm, Committing, Random, Kind
  <2> QED
    BY <2>1 DEF After
<1>2. CASE f.phase # "DataDistribution"
  BY <1>2 DEF RightFsm, Committing, After
<1> QED
  BY <1>1, <1>2

(* An answer leaves the machine in the state asked for.                    *)
LEMMA Answering ==
    ASSUME NEW pdu, NEW next, Answer(pdu, next), RightFsm(next, After(next, committed))
    PROVE  /\ RightFsm(fsm', committed')
           /\ fsm' = next
           /\ lastAnswered' # NoPDU => fsm'.response # NoPDU
           /\ pc' = pc
<1>1. committed' = After(next, committed)
  <2>1. CASE next.response = NoPDU
    <3>1. Kind(NoPDU) # "Confirmation"
      BY DEF Kind, NoPDU
    <3> QED
      BY <2>1, <3>1 DEF Answer, Silent, After
  <2>2. CASE next.response # NoPDU
    BY <2>2 DEF Answer, Transmit, After
  <2> QED
    BY <2>1, <2>2
<1> QED
  BY <1>1 DEF Answer

(* A PDU on the way is handed over.                                        *)
LEMMA Receiving ==
    ASSUME SessionsInv, NEW p \in Provisioners, NEW pdu \in Pending(p), Receives(p, pdu)
    PROVE  /\ SessionsInv'
           /\ Genuine(provisioner[p], p, pdu)
           /\ pc = "listening"
           /\ UNCHANGED <<provisioner, stored, interrupted>>
<1> DEFINE f == provisioner[p]
<1>1. pdu = toDevice[p][1] /\ 1 .. Len(toDevice[p]) # {}
  BY DEF Pending
<1>2. toDevice[p] # <<>>
  BY <1>1
<1>3. SessionInv(f, p, toDevice[p])
  BY DEF SessionsInv
<1>4. AllGenuine(f, p, Tail(toDevice[p])) /\ Genuine(f, p, toDevice[p][1])
  BY <1>2, <1>3, GenuineTail DEF SessionInv
<1>5. /\ DOMAIN toDevice' = Provisioners
      /\ toDevice'[p] = Tail(toDevice[p])
      /\ \A q \in Provisioners : q # p => toDevice'[q] = toDevice[q]
      /\ UNCHANGED <<provisioner, stored, interrupted>>
      /\ pc = "listening"
  BY DEF Receives, SessionsInv
<1>6. SessionInv(f, p, toDevice'[p])
  BY <1>3, <1>4, <1>5 DEF SessionInv
<1>7. /\ DOMAIN provisioner = Provisioners
      /\ \A q \in Provisioners : q # p => SessionInv(provisioner[q], q, toDevice'[q])
  BY <1>5 DEF SessionsInv
<1>8. SessionsInv'
  BY <1>5, <1>6, <1>7 DEF SessionsInv
<1> QED
  BY <1>1, <1>4, <1>5, <1>8

(* A turn that leaves the device listening or stopped, and takes no data.  *)
LEMMA Turning ==
    ASSUME DeviceInv, TakenInv, SessionsInv,
           NEW p \in Provisioners, NEW pdu \in Pending(p), Receives(p, pdu),
           RightFsm(fsm', committed'), fsm'.phase # "Complete" \/ fsm' = fsm,
           lastAnswered' # NoPDU => fsm'.response # NoPDU,
           pc' \in {"listening", "stopped"}, draws' \in 0 .. MaxDraws
    PROVE  DeviceInv' /\ TakenInv' /\ SessionsInv'
<1>1. SessionsInv' /\ UNCHANGED <<provisioner, stored, interrupted>>
  BY Receiving
<1>2. DeviceInv'
  BY <1>1 DEF DeviceInv
<1>3. TakenInv'
  BY <1>1 DEF TakenInv, Agrees
<1> QED
  BY <1>1, <1>2, <1>3

(* The same when the turn ends with a new machine.                         *)
LEMMA TurningNew ==
    ASSUME DeviceInv, TakenInv, SessionsInv,
           NEW p \in Provisioners, NEW pdu \in Pending(p), Receives(p, pdu),
           Fail \/ Break, draws' \in 0 .. MaxDraws
    PROVE  DeviceInv' /\ TakenInv' /\ SessionsInv'
<1>1. fsm' = NewFsm /\ lastAnswered' = NoPDU /\ pc' \in {"listening", "stopped"}
  BY DEF Fail, Break, Receives
<1>2. RightFsm(fsm', committed') /\ fsm'.phase # "Complete"
  BY <1>1, NewFsmIsRight
<1> QED
  BY <1>1, <1>2, Turning

(* The same when the turn ends with an answer.                             *)
LEMMA TurningAnswer ==
    ASSUME DeviceInv, TakenInv, SessionsInv,
           NEW p \in Provisioners, NEW pdu \in Pending(p), Receives(p, pdu),
           NEW next, Answer(pdu, next), RightFsm(next, After(next, committed)),
           next.phase # "Complete" \/ next = fsm,
           draws' \in 0 .. MaxDraws
    PROVE  DeviceInv' /\ TakenInv' /\ SessionsInv'
<1>1. /\ RightFsm(fsm', committed') /\ fsm' = next /\ pc' = pc
      /\ lastAnswered' # NoPDU => fsm'.response # NoPDU
  BY Answering
<1>2. pc' \in {"listening", "stopped"}
  BY <1>1 DEF Receives
<1> QED
  BY <1>1, <1>2, Turning

LEMMA Drawing ==
    ASSUME DeviceInv
    PROVE  /\ MayDraw => draws' \in 0 .. MaxDraws
           /\ UNCHANGED draws => draws' \in 0 .. MaxDraws
BY ProvisioningAssumption DEF DeviceInv, MayDraw

LEMMA RepeatedKeeps ==
    ASSUME ProvisioningInv, NEW p \in Provisioners, NEW pdu \in Pending(p), ReceiveRepeated(p, pdu)
    PROVE  ProvisioningInv'
<1>1. RightFsm(fsm, After(fsm, committed)) /\ fsm' = fsm
  BY SayingAgain DEF ProvisioningInv, DeviceInv, ReceiveRepeated
<1>2. committed' = After(fsm, committed)
  BY DEF ReceiveRepeated, Transmit, After
<1>3. /\ lastAnswered' # NoPDU => fsm'.response # NoPDU
      /\ pc' \in {"listening", "stopped"} /\ draws' \in 0 .. MaxDraws
  BY DEF ReceiveRepeated, ProvisioningInv, DeviceInv, Receives
<1> QED
  BY <1>1, <1>2, <1>3, Turning DEF ProvisioningInv, ReceiveRepeated

LEMMA WaywardKeeps ==
    ASSUME ProvisioningInv, NEW p \in Provisioners, NEW pdu \in Pending(p), ReceiveWayward(p, pdu)
    PROVE  ProvisioningInv'
<1>1. RightFsm(fsm, After(fsm, committed))
  BY SayingAgain DEF ProvisioningInv, DeviceInv
<1> QED
  BY <1>1, TurningAnswer, Drawing DEF ProvisioningInv, ReceiveWayward, Fresh

LEMMA InviteKeeps ==
    ASSUME ProvisioningInv, NEW p \in Provisioners, NEW pdu \in Pending(p), ReceiveInvite(p, pdu)
    PROVE  ProvisioningInv'
<1> DEFINE next == [fsm EXCEPT !.phase = "Invitation",
                               !.transcript = @ \o <<pdu, Capabilities>>,
                               !.response = Capabilities]
<1>1. RightFsm(fsm, committed) /\ fsm.phase = "Beaconing"
  BY DEF ProvisioningInv, DeviceInv, ReceiveInvite
<1>2. /\ DOMAIN next = DOMAIN NewFsm /\ next.phase = "Invitation"
      /\ next.confirmation = fsm.confirmation /\ next.data = fsm.data
  BY <1>1 DEF RightFsm, NewFsm
<1>3. Receives(p, pdu) /\ Answer(pdu, next) /\ draws' \in 0 .. MaxDraws
  BY Drawing DEF ProvisioningInv, ReceiveInvite, Fresh
<1> HIDE DEF next
<1>4. RightFsm(next, After(next, committed))
  BY <1>1, <1>2 DEF RightFsm, Committing, Phases
<1> QED
  BY <1>2, <1>3, <1>4, TurningAnswer DEF ProvisioningInv

LEMMA StartKeeps ==
    ASSUME ProvisioningInv, NEW p \in Provisioners, NEW pdu \in Pending(p), ReceiveStart(p, pdu)
    PROVE  ProvisioningInv'
<1>1. /\ RightFsm(fsm, committed) /\ fsm.phase = "Invitation" /\ Receives(p, pdu)
      /\ draws' \in 0 .. MaxDraws
  BY Drawing DEF ProvisioningInv, DeviceInv, ReceiveStart, Fresh
<1>2. ASSUME NEW auth, Answer(pdu, Started(fsm, pdu, auth))
      PROVE  ProvisioningInv'
  <2> DEFINE next == Started(fsm, pdu, auth)
  <2>1. /\ DOMAIN next = DOMAIN NewFsm /\ next.phase = "KeyExchange"
        /\ next.confirmation = fsm.confirmation /\ next.data = fsm.data
    BY <1>1 DEF RightFsm, NewFsm, Started
  <2>2. Answer(pdu, next)
    BY <1>2
  <2> HIDE DEF next
  <2>3. RightFsm(next, After(next, committed))
    BY <1>1, <2>1 DEF RightFsm, Committing, Phases
  <2> QED
    BY <1>1, <2>1, <2>2, <2>3, TurningAnswer DEF ProvisioningInv
<1>3. CASE Break
  BY <1>1, <1>3, TurningNew DEF ProvisioningInv
<1> QED
  BY <1>2, <1>3 DEF ReceiveStart

LEMMA PublicKeyKeeps ==
    ASSUME ProvisioningInv, NEW p \in Provisioners, NEW pdu \in Pending(p), ReceivePublicKey(p, pdu)
    PROVE  ProvisioningInv'
<1>1. /\ RightFsm(fsm, committed) /\ fsm.phase = "KeyExchange" /\ Receives(p, pdu)
      /\ draws' \in 0 .. MaxDraws
  BY Drawing DEF ProvisioningInv, DeviceInv, ReceivePublicKey, Fresh
<1>2. CASE Answer(pdu, KeyExchanged(fsm, pdu[2], Drawn(draws)))
  <2> DEFINE next == KeyExchanged(fsm, pdu[2], Drawn(draws))
  <2>1. /\ DOMAIN next = DOMAIN NewFsm /\ next.phase = "Authentication"
        /\ next.confirmation = fsm.confirmation /\ next.data = fsm.data
    BY <1>1 DEF RightFsm, NewFsm, KeyExchanged
  <2>2. Answer(pdu, next)
    BY <1>2
  <2> HIDE DEF next
  <2>3. RightFsm(next, After(next, committed))
    BY <1>1, <2>1 DEF RightFsm, Committing, Phases
  <2> QED
    BY <1>1, <2>1, <2>2, <2>3, TurningAnswer DEF ProvisioningInv
<1>3. CASE Fail
  BY <1>1, <1>3, TurningNew DEF ProvisioningInv
<1> QED
  BY <1>2, <1>3 DEF ReceivePublicKey

LEMMA ConfirmationKeeps ==
    ASSUME ProvisioningInv, NEW p \in Provisioners, NEW pdu \in Pending(p), ReceiveConfirmation(p, pdu)
    PROVE  ProvisioningInv'
<1> DEFINE next == Confirmed(fsm, pdu[2], Drawn(draws))
<1>1. /\ RightFsm(fsm, committed) /\ Receives(p, pdu)
      /\ draws' \in 0 .. MaxDraws /\ fsm.phase = "Authentication"
      /\ Answer(pdu, next)
  BY Drawing DEF ProvisioningInv, DeviceInv, ReceiveConfirmation, Fresh
<1>2. /\ DOMAIN next = DOMAIN NewFsm /\ next.phase = "Authentication"
      /\ next.data = fsm.data
      /\ next.response = Commitment(next)
  BY <1>1 DEF RightFsm, NewFsm, Confirmed, Commitment
<1> HIDE DEF next
<1>3. After(next, committed) = next.response
  <2>1. Kind(Commitment(next)) = "Confirmation"
    BY DEF Commitment, Confirmation, Kind
  <2> QED
    BY <1>2, <2>1 DEF After
<1>4. RightFsm(next, After(next, committed))
  BY <1>1, <1>2, <1>3 DEF RightFsm, Committing, Phases
<1> QED
  BY <1>1, <1>2, <1>4, TurningAnswer DEF ProvisioningInv

LEMMA RandomKeeps ==
    ASSUME ProvisioningInv, NEW p \in Provisioners, NEW pdu \in Pending(p), ReceiveRandom(p, pdu)
    PROVE  ProvisioningInv'
<1>1. /\ RightFsm(fsm, committed) /\ fsm.phase = "Authentication" /\ Receives(p, pdu)
      /\ draws' \in 0 .. MaxDraws
  BY Drawing DEF ProvisioningInv, DeviceInv, ReceiveRandom, Fresh
<1>2. CASE Checks(fsm, pdu[2]) /\ Answer(pdu, Revealed(fsm, pdu[2]))
  <2> DEFINE next == Revealed(fsm, pdu[2])
  <2>1. /\ DOMAIN next = DOMAIN NewFsm /\ next.phase = "DataDistribution"
        /\ next.data = fsm.data
        /\ next.response = Random(next.mine)
        /\ Commitment(next) = Commitment(fsm)
    BY <1>1 DEF RightFsm, NewFsm, Revealed, Commitment
  <2>2. Answer(pdu, next)
    BY <1>2
  <2> HIDE DEF next
  <2>3. fsm.confirmation # Zeros
    BY <1>2 DEF Checks, Confirm, Zeros
  <2>4. committed = Commitment(fsm)
    BY <1>1, <2>3 DEF RightFsm, Committing
  <2>5. After(next, committed) = committed
    <3>1. Kind(Random(next.mine)) # "Confirmation"
      BY DEF Random, Kind
    <3> QED
      BY <2>1, <3>1 DEF After
  <2>6. RightFsm(next, After(next, committed))
    BY <1>1, <2>1, <2>4, <2>5 DEF RightFsm, Committing, Phases
  <2> QED
    BY <1>1, <2>1, <2>2, <2>6, TurningAnswer DEF ProvisioningInv
<1>3. CASE Fail
  BY <1>1, <1>3, TurningNew DEF ProvisioningInv
<1> QED
  BY <1>2, <1>3 DEF ReceiveRandom

(* Data decrypts only if it was made with the session key, and such Data is*)
(* a session's own.                                                        *)
LEMMA DataKeeps ==
    ASSUME ProvisioningInv, NEW p \in Provisioners, NEW pdu \in Pending(p), ReceiveData(p, pdu)
    PROVE  ProvisioningInv'
<1>1. /\ RightFsm(fsm, committed) /\ fsm.phase = "DataDistribution" /\ Receives(p, pdu)
      /\ draws' \in 0 .. MaxDraws /\ Kind(pdu) = "Data"
  BY Drawing DEF ProvisioningInv, DeviceInv, ReceiveData, Fresh
<1>2. /\ SessionsInv' /\ UNCHANGED <<provisioner, stored, interrupted>>
      /\ Genuine(provisioner[p], p, pdu)
  BY <1>1, Receiving DEF ProvisioningInv
<1>3. CASE Break
  BY <1>1, <1>3, TurningNew DEF ProvisioningInv
<1>4. CASE ~Break
  <2>1. /\ Decrypts(fsm, pdu[2])
        /\ fsm' = [fsm EXCEPT !.phase = "Complete", !.data = pdu[3], !.response = Complete]
        /\ pc' = "completing"
        /\ lastAnswered' = lastAnswered
    BY <1>4 DEF ReceiveData
  <2>2. pdu[2] # Garbage
    BY <2>1 DEF Decrypts, SessionKey, Garbage
  <2>3. provisioner[p].phase \in Final /\ pdu = Data(PeerKey(provisioner[p], p), p)
    BY <1>1, <1>2, <2>2 DEF Genuine, Data
  <2>4. pdu[2] = PeerKey(provisioner[p], p) /\ pdu[3] = p
    BY <2>3 DEF Data
  <2>5. /\ DOMAIN fsm' = DOMAIN NewFsm /\ fsm'.phase = "Complete" /\ fsm'.data = p
        /\ fsm'.response = Complete
        /\ fsm'.transcript = fsm.transcript /\ fsm'.secret = fsm.secret
        /\ fsm'.theirs = fsm.theirs /\ fsm'.mine = fsm.mine
    BY <1>1, <2>1, <2>4 DEF RightFsm, NewFsm
  <2>6. TakenInv'
    BY <1>2, <2>1, <2>3, <2>4, <2>5 DEF TakenInv, Agrees, Decrypts, PeerKey
  <2>7. RightFsm(fsm', committed')
    BY <2>5 DEF RightFsm, Committing, Phases
  <2>8. fsm'.response # NoPDU
    BY <2>5 DEF Complete, NoPDU
  <2>9. DeviceInv'
    BY <1>1, <1>2, <2>1, <2>5, <2>7, <2>8 DEF DeviceInv, ProvisioningInv
  <2> QED
    BY <1>2, <2>6, <2>9 DEF ProvisioningInv
<1> QED
  BY <1>3, <1>4

LEMMA ReceiveKeeps ==
    ASSUME ProvisioningInv, NEW p \in Provisioners, Receive(p)
    PROVE  ProvisioningInv'
BY RepeatedKeeps, InviteKeeps, StartKeeps, PublicKeyKeeps, ConfirmationKeeps, RandomKeeps,
   DataKeeps, WaywardKeeps DEF Receive

LEMMA SessionKeepsAll ==
    ASSUME ProvisioningInv, NEW p \in Provisioners, Session(p)
    PROVE  ProvisioningInv'
<1>1. /\ SessionsInv'
      /\ \A q \in Provisioners : Stays(provisioner[q], provisioner'[q], q)
      /\ UNCHANGED <<pc, fsm, lastAnswered, draws, stored, committed, interrupted>>
  BY SessionKeeps DEF ProvisioningInv
<1>2. DeviceInv'
  BY <1>1 DEF ProvisioningInv, DeviceInv
<1>3. TakenInv'
  BY <1>1 DEF ProvisioningInv, TakenInv, Agrees, Stays, PeerKey
<1> QED
  BY <1>1, <1>2, <1>3 DEF ProvisioningInv

LEMMA RetransmitKeeps ==
    ASSUME ProvisioningInv, Retransmit
    PROVE  ProvisioningInv'
<1>1. /\ UNCHANGED <<draws, stored, provisioner, toDevice, interrupted>>
      /\ RightFsm(fsm, committed) /\ pc = "listening"
  BY DEF Retransmit, ProvisioningInv, DeviceInv
<1>2. SessionsInv'
  BY <1>1 DEF ProvisioningInv, SessionsInv
<1>3. CASE Break
  <2>1. RightFsm(fsm', committed') /\ fsm'.phase # "Complete" /\ lastAnswered' = NoPDU
        /\ pc' = "stopped"
    BY <1>3, NewFsmIsRight DEF Break
  <2>2. DeviceInv' /\ TakenInv'
    BY <1>1, <2>1 DEF ProvisioningInv, DeviceInv, TakenInv
  <2> QED
    BY <1>2, <2>2 DEF ProvisioningInv
<1>4. CASE Transmit(fsm.response) /\ UNCHANGED <<pc, fsm, lastAnswered>>
  <2>1. committed' = After(fsm, committed)
    BY <1>4 DEF Transmit, After
  <2>2. RightFsm(fsm', committed')
    BY <1>1, <1>4, <2>1, SayingAgain
  <2>3. DeviceInv' /\ TakenInv'
    BY <1>1, <1>4, <2>2 DEF ProvisioningInv, DeviceInv, TakenInv, Agrees
  <2> QED
    BY <1>2, <2>3 DEF ProvisioningInv
<1> QED
  BY <1>3, <1>4 DEF Retransmit

LEMMA StoringKeeps ==
    ASSUME ProvisioningInv, Finish \/ StoreFails
    PROVE  ProvisioningInv'
<1>1. /\ UNCHANGED <<fsm, lastAnswered, draws, provisioner, toDevice, committed>>
      /\ pc' \in {"provisioned", "stopped"}
      /\ stored' \in {stored, fsm.data}
      /\ interrupted' \subseteq interrupted \cup {fsm.data}
      /\ pc = "completing"
  BY DEF Finish, StoreFails, Interrupts, history
<1>2. fsm.data \in Provisioners
  BY <1>1 DEF ProvisioningInv, DeviceInv
<1>3. SessionsInv' /\ TakenInv'
  BY <1>1 DEF ProvisioningInv, SessionsInv, TakenInv, Agrees
<1>4. DeviceInv'
  BY <1>1, <1>2 DEF ProvisioningInv, DeviceInv
<1> QED
  BY <1>3, <1>4 DEF ProvisioningInv

LEMMA RebootKeepsAll ==
    ASSUME ProvisioningInv, Reboot
    PROVE  ProvisioningInv'
<1>1. SessionsInv'
  BY RebootKeeps DEF ProvisioningInv
<1>2. /\ fsm' = NewFsm /\ lastAnswered' = NoPDU /\ pc' = "listening"
      /\ UNCHANGED <<draws, stored>>
      /\ interrupted' = IF pc = "completing" THEN interrupted \cup {fsm.data} ELSE interrupted
  BY DEF Reboot, Interrupts
<1>3. interrupted' \subseteq Provisioners
  BY <1>2 DEF ProvisioningInv, DeviceInv
<1>4. RightFsm(fsm', committed') /\ fsm'.phase # "Complete"
  BY <1>2, NewFsmIsRight
<1>5. DeviceInv' /\ TakenInv'
  BY <1>2, <1>3, <1>4 DEF ProvisioningInv, DeviceInv, TakenInv
<1> QED
  BY <1>1, <1>5 DEF ProvisioningInv

-----------------------------------------------------------------------------
LEMMA InitIsRight == Init => ProvisioningInv
<1> SUFFICES ASSUME Init PROVE ProvisioningInv
  OBVIOUS
<1>1. \A p \in Provisioners : SessionInv(NewProvisioner, p, <<>>)
  BY NothingGenuine DEF SessionInv, NewProvisioner, Outcomes
<1>2. SessionsInv
  BY <1>1 DEF Init, SessionsInv
<1>3. RightFsm(fsm, committed) /\ fsm.phase = "Beaconing"
  BY NewFsmIsRight DEF Init
<1>4. DeviceInv /\ TakenInv
  BY <1>3, ProvisioningAssumption DEF Init, DeviceInv, TakenInv
<1> QED
  BY <1>2, <1>4 DEF ProvisioningInv

LEMMA StepIsRight == ProvisioningInv /\ [Next]_vars => ProvisioningInv'
<1> SUFFICES ASSUME ProvisioningInv, [Next]_vars PROVE ProvisioningInv'
  OBVIOUS
<1>1. CASE Next
  BY <1>1, ReceiveKeeps, SessionKeepsAll, RetransmitKeeps, StoringKeeps, RebootKeepsAll DEF Next
<1>2. CASE UNCHANGED vars
  <2>1. UNCHANGED <<pc, fsm, lastAnswered, draws, stored, provisioner, toDevice, committed, interrupted>>
    BY <1>2 DEF vars, device, history
  <2>2. DeviceInv' /\ SessionsInv' /\ TakenInv'
    BY <2>1 DEF ProvisioningInv, DeviceInv, SessionsInv, TakenInv, Agrees
  <2> QED
    BY <2>2 DEF ProvisioningInv
<1> QED
  BY <1>1, <1>2

(* What the device knows of itself and of the sessions holds in every      *)
(* reachable state: commitments stand, and Data on the way is genuine.     *)
THEOREM InvariantHolds == Spec => []ProvisioningInv
BY InitIsRight, StepIsRight, PTL DEF Spec

(* A repeated PDU always has an answer, and every phase is one of the code.*)
THEOREM TypeCorrect == Spec => []TypeOK
<1>1. ProvisioningInv => TypeOK
  BY DEF ProvisioningInv, DeviceInv, SessionsInv, SessionInv, RightFsm, TypeOK
<1> QED
  BY <1>1, InvariantHolds, PTL

(* The device takes the data of a session only under a key both have       *)
(* computed, from the same transcript, secret and randoms: Provisionee::next *)
(* on Data, for any number of sessions at once.                            *)
THEOREM BothHaveTheKey == Spec => []Agreement
<1>1. ProvisioningInv => Agreement
  BY DEF ProvisioningInv, TakenInv, Agreement
<1> QED
  BY <1>1, InvariantHolds, PTL

(* The Random revealed by Phase<Authentication>::check opens the last      *)
(* Confirmation, however often that was repeated or drawn again.           *)
THEOREM CommitmentIsOpened == Spec => []RevealOpensCommitment
<1>1. ProvisioningInv => RevealOpensCommitment
  BY DEF ProvisioningInv, DeviceInv, RightFsm, Committing, Commitment, RevealOpensCommitment
<1> QED
  BY <1>1, InvariantHolds, PTL

(* Nothing another session sends takes the device out of a session whose   *)
(* random it has accepted.                                                 *)
THEOREM AcceptedIsNotDisplaced == Spec => NotDisplaced
<1> DEFINE Left == fsm'.phase = "Complete" \/ fsm' = fsm \/ pc' = "stopped" \/ committed' = NoPDU
<1>1. ASSUME ProvisioningInv, NEW p \in Provisioners, Receive(p), fsm.phase = "DataDistribution"
      PROVE  Left
  <2>1. PICK pdu \in Pending(p) : ReceiveRepeated(p, pdu) \/ ReceiveData(p, pdu) \/ ReceiveWayward(p, pdu)
    BY <1>1 DEF Receive, ReceiveInvite, ReceiveStart, ReceivePublicKey, ReceiveConfirmation, ReceiveRandom
  <2>2. CASE ReceiveRepeated(p, pdu)
    BY <2>2 DEF ReceiveRepeated
  <2>3. CASE ReceiveData(p, pdu)
    <3>1. CASE Break
      BY <3>1 DEF Break
    <3>2. CASE fsm' = [fsm EXCEPT !.phase = "Complete", !.data = pdu[3], !.response = Complete]
      BY <1>1, <3>2 DEF ProvisioningInv, DeviceInv, RightFsm, NewFsm
    <3> QED
      BY <2>3, <3>1, <3>2 DEF ReceiveData
  <2>4. CASE ReceiveWayward(p, pdu)
    BY <2>4 DEF ReceiveWayward, Answer
  <2> QED
    BY <2>1, <2>2, <2>3, <2>4
<1>2. ASSUME NEW p \in Provisioners, Session(p) PROVE Left
  BY <1>2 DEF Session, Begin, Hears, SendAgain, SendOdd, Lose, Leave, device
<1>3. ASSUME Retransmit \/ Finish \/ StoreFails \/ Reboot PROVE Left
  BY <1>3 DEF Retransmit, Break, Finish, StoreFails, Reboot
<1>4. ASSUME UNCHANGED vars PROVE Left
  BY <1>4 DEF vars, device
<1>5. ProvisioningInv /\ [Next]_vars => [fsm.phase = "DataDistribution" => Left]_vars
  BY <1>1, <1>2, <1>3, <1>4 DEF Next
<1> QED
  BY <1>5, InvariantHolds, PTL DEF Spec, NotDisplaced

-----------------------------------------------------------------------------
(* A session that ends in Success has provisioned this device.  The device *)
(* is f, has drawn d numbers, and its driver is at c.                      *)

(* It has ended after its random was shown, or shows it.                   *)
Silenced(f, c) == c = "stopped" /\ f.phase # "Complete"
Revealing(f) == f.phase \in {"DataDistribution", "Complete"}
Shown(f, c, random) == Silenced(f, c) \/ (Revealing(f) /\ f.mine = random)
Shares(f, c, secret) == Silenced(f, c) \/ (Revealing(f) /\ f.secret = secret)

(* The device has made this commitment, and if it is about the random it   *)
(* has now, then with the secret it has now.                               *)
Sealed(f, d, value) ==
    \E n \in 0 .. d - 1 : /\ value = Confirm(value[2], value[3], Drawn(n), value[5])
                          /\ f.mine = Drawn(n) => value[3] = f.secret

(* What the device has sent.                                               *)
OnAir(f, d, c, pdu) ==
    /\ Kind(pdu) = "PublicKey" => \E n \in 0 .. d - 1 : pdu[2] = Drawn(n)
    /\ Kind(pdu) = "Confirmation" => Sealed(f, d, pdu[2])
    /\ Kind(pdu) = "Random" => Shown(f, c, pdu[2])
    /\ Kind(pdu) = "Complete" => f.phase = "Complete"

AllOnAir(f, d, c, s) == IsSeq(s) /\ \A i \in 1 .. Len(s) : OnAir(f, d, c, s[i])

MineInv(f, d) == \/ f.mine = Zeros
                 \/ /\ \E n \in 0 .. d - 1 : f.mine = Drawn(n)
                    /\ f.phase \notin {"Beaconing", "Invitation", "KeyExchange"}

(* What session p, in state h, has heard: a secret is of two sessions' no  *)
(* more than its own.                                                      *)
Exchanged(d, h, p) == h.secret = {} \/ \E n \in 0 .. d - 1 : h.secret = {Drawn(n), Own(p)}
HeardOf(f, d, h, p) == Exchanged(d, h, p) /\ (h.confirmation = Zeros \/ Sealed(f, d, h.confirmation))
KnowsSecret(f, c, h) == /\ h.phase \in {"Authentication", "DataDistribution"} => h.secret # {}
                        /\ h.phase = "DataDistribution" => Shares(f, c, h.secret)

SaysInv == /\ DOMAIN fromDevice = Provisioners
           /\ \A p \in Provisioners : AllOnAir(fsm, draws, pc, fromDevice[p])
           /\ OnAir(fsm, draws, pc, fsm.response)
           /\ MineInv(fsm, draws)

HearsInv == \A p \in Provisioners : /\ HeardOf(fsm, draws, provisioner[p], p)
                                    /\ KnowsSecret(fsm, pc, provisioner[p])

StoresInv ==
    /\ stored # Nobody => pc = "provisioned"
    /\ fsm.phase = "Complete" => \/ pc = "completing"
                                 \/ pc = "provisioned" /\ stored = fsm.data
                                 \/ pc = "stopped" /\ fsm.data \in interrupted

SuccessInv == ProvisioningInv /\ SaysInv /\ HearsInv /\ StoresInv /\ SuccessIsReal

-----------------------------------------------------------------------------
(* The device goes on from f, d and c to g, e and b.                       *)
Later(f, d, g, e) ==
    /\ d \in Nat /\ e \in Nat /\ d <= e
    /\ \A n \in 0 .. d - 1 : g.mine = Drawn(n) => f.mine = Drawn(n) /\ f.secret = g.secret

Kept(f, d, c, g, e, b) ==
    /\ Later(f, d, g, e)
    /\ \A r : Shown(f, c, r) => Shown(g, b, r)
    /\ \A s : Shares(f, c, s) => Shares(g, b, s)
    /\ f.phase = "Complete" => g.phase = "Complete"

LEMMA SealedStays ==
    ASSUME NEW f, NEW d, NEW g, NEW e, NEW value, Later(f, d, g, e), Sealed(f, d, value)
    PROVE  Sealed(g, e, value)
<1>1. PICK n \in 0 .. d - 1 : /\ value = Confirm(value[2], value[3], Drawn(n), value[5])
                              /\ f.mine = Drawn(n) => value[3] = f.secret
  BY DEF Sealed
<1>2. n \in 0 .. e - 1
  BY DEF Later
<1>3. g.mine = Drawn(n) => value[3] = g.secret
  BY <1>1 DEF Later
<1> QED
  BY <1>1, <1>2, <1>3 DEF Sealed

LEMMA OnAirStays ==
    ASSUME NEW f, NEW d, NEW c, NEW g, NEW e, NEW b, NEW pdu,
           Kept(f, d, c, g, e, b), OnAir(f, d, c, pdu)
    PROVE  OnAir(g, e, b, pdu)
<1>1. Later(f, d, g, e)
  BY DEF Kept
<1>2. Kind(pdu) = "PublicKey" => \E n \in 0 .. e - 1 : pdu[2] = Drawn(n)
  BY <1>1 DEF OnAir, Later
<1>3. Kind(pdu) = "Confirmation" => Sealed(g, e, pdu[2])
  BY <1>1, SealedStays DEF OnAir
<1>4. /\ Kind(pdu) = "Random" => Shown(g, b, pdu[2])
      /\ Kind(pdu) = "Complete" => g.phase = "Complete"
  BY DEF OnAir, Kept
<1> QED
  BY <1>2, <1>3, <1>4 DEF OnAir

LEMMA HeardStays ==
    ASSUME NEW f, NEW d, NEW g, NEW e, NEW h, NEW p, Later(f, d, g, e), HeardOf(f, d, h, p)
    PROVE  HeardOf(g, e, h, p)
<1>1. Exchanged(e, h, p)
  BY DEF HeardOf, Exchanged, Later
<1>2. h.confirmation = Zeros \/ Sealed(g, e, h.confirmation)
  BY SealedStays DEF HeardOf
<1> QED
  BY <1>1, <1>2 DEF HeardOf

LEMMA AllOnAirStays ==
    ASSUME NEW f, NEW d, NEW c, NEW g, NEW e, NEW b, NEW s,
           Kept(f, d, c, g, e, b), AllOnAir(f, d, c, s)
    PROVE  AllOnAir(g, e, b, s)
BY OnAirStays DEF AllOnAir

LEMMA AllOnAirAppend ==
    ASSUME NEW f, NEW d, NEW c, NEW s, NEW pdu, AllOnAir(f, d, c, s), OnAir(f, d, c, pdu)
    PROVE  AllOnAir(f, d, c, Append(s, pdu))
<1>1. IsSeq(s) /\ IsSeq(<<pdu>>)
  BY Short DEF AllOnAir
<1>2. Append(s, pdu) = s \o <<pdu>>
  BY <1>1, Appending
<1>3. \A j \in 1 .. Len(<<pdu>>) : <<pdu>>[j] = pdu
  OBVIOUS
<1> QED
  BY <1>1, <1>2, <1>3, Concatenation DEF AllOnAir

LEMMA AllOnAirTail ==
    ASSUME NEW f, NEW d, NEW c, NEW s, AllOnAir(f, d, c, s), s # <<>>
    PROVE  AllOnAir(f, d, c, Tail(s)) /\ OnAir(f, d, c, Head(s))
<1>1. IsSeq(s)
  BY DEF AllOnAir
<1>2. Head(s) = s[1]
  BY <1>1 DEF IsSeq
<1> QED
  BY <1>1, <1>2, Tailing DEF AllOnAir

LEMMA NothingOnAir == \A f, d, c : AllOnAir(f, d, c, <<>>)
BY Short DEF AllOnAir

-----------------------------------------------------------------------------
(* Steps of the device: what is on the air stays right, and sessions that  *)
(* do not move have heard what they have heard.                            *)
LEMMA DeviceMoves ==
    ASSUME SaysInv, HearsInv, Kept(fsm, draws, pc, fsm', draws', pc'),
           UNCHANGED provisioner,
           OnAir(fsm', draws', pc', fsm'.response), MineInv(fsm', draws'),
           DOMAIN fromDevice' = Provisioners,
           \A p \in Provisioners : \/ fromDevice'[p] = fromDevice[p]
                                   \/ fromDevice'[p] = Append(fromDevice[p], fsm'.response)
    PROVE  SaysInv' /\ HearsInv'
<1>1. ASSUME NEW p \in Provisioners PROVE AllOnAir(fsm', draws', pc', fromDevice'[p])
  <2>1. AllOnAir(fsm', draws', pc', fromDevice[p])
    BY AllOnAirStays DEF SaysInv
  <2>2. AllOnAir(fsm', draws', pc', Append(fromDevice[p], fsm'.response))
    BY <2>1, AllOnAirAppend
  <2> QED
    BY <2>1, <2>2
<1>2. SaysInv'
  BY <1>1 DEF SaysInv
<1>3. ASSUME NEW p \in Provisioners
      PROVE  /\ HeardOf(fsm', draws', provisioner[p], p)
             /\ KnowsSecret(fsm', pc', provisioner[p])
  <2>1. HeardOf(fsm', draws', provisioner[p], p)
    BY HeardStays DEF HearsInv, Kept
  <2>2. KnowsSecret(fsm', pc', provisioner[p])
    BY DEF HearsInv, KnowsSecret, Kept
  <2> QED
    BY <2>1, <2>2
<1>4. HearsInv'
  BY <1>3 DEF HearsInv
<1> QED
  BY <1>2, <1>4

(* Before its random is shown nothing is known of it; the same machine.    *)
LEMMA Unrevealed ==
    ASSUME NEW f, NEW d, NEW c, NEW g, NEW e, NEW b, Later(f, d, g, e),
           c # "stopped", ~Revealing(f)
    PROVE  Kept(f, d, c, g, e, b)
BY DEF Kept, Shown, Shares, Silenced, Revealing

LEMMA SameMachine ==
    ASSUME NEW f, NEW d, NEW c, NEW e, NEW b, d \in Nat, e \in Nat, d <= e,
           c # "stopped" \/ b = c
    PROVE  Kept(f, d, c, f, e, b) /\ Later(f, d, f, e)
<1>1. Later(f, d, f, e)
  BY DEF Later
<1> QED
  BY <1>1 DEF Kept, Shown, Shares, Silenced

(* Nothing is drawn twice.                                                 *)
LEMMA Draws ==
    /\ \A n \in Nat : Drawn(n) # Zeros /\ Drawn(n) # Garbage
    /\ \A n, m \in Nat : Drawn(n) = Drawn(m) => n = m
    /\ \A n \in Nat, p \in Provisioners : Drawn(n) # Own(p)
    /\ \A p, q \in Provisioners : Own(p) = Own(q) => p = q
BY DEF Drawn, Zeros, Garbage, Own

LEMMA Transmitted ==
    ASSUME NEW pdu, Transmit(pdu) \/ Silent, DOMAIN fromDevice = Provisioners
    PROVE  /\ DOMAIN fromDevice' = Provisioners
           /\ \A p \in Provisioners : \/ fromDevice'[p] = fromDevice[p]
                                      \/ fromDevice'[p] = Append(fromDevice[p], pdu)
BY DEF Transmit, Silent

(* The PDU without contents is on the air whatever happens.                *)
LEMMA NoPDUOnAir == \A f, d, c : OnAir(f, d, c, NoPDU) /\ OnAir(f, d, c, Capabilities)
BY DEF OnAir, NoPDU, Capabilities, Kind

(* Receiving does not touch what is stored.                                *)
SuccessParts == SaysInv /\ HearsInv /\ StoresInv /\ SuccessIsReal

LEMMA ReceiverMoves ==
    ASSUME SuccessInv, NEW p \in Provisioners, NEW pdu, Receives(p, pdu),
           Kept(fsm, draws, pc, fsm', draws', pc'),
           OnAir(fsm', draws', pc', fsm'.response), MineInv(fsm', draws'),
           Transmit(fsm'.response) \/ Silent,
           fsm'.phase = "Complete" => pc' = "completing"
    PROVE  SuccessParts'
<1>1. pc = "listening" /\ UNCHANGED <<provisioner, stored, interrupted>>
  BY DEF Receives
<1>2. SaysInv' /\ HearsInv'
  BY <1>1, Transmitted, DeviceMoves DEF SuccessInv, SaysInv
<1>3. StoresInv'
  BY <1>1 DEF SuccessInv, StoresInv
<1>4. SuccessIsReal'
  BY <1>1 DEF SuccessInv, SuccessIsReal
<1> QED
  BY <1>2, <1>3, <1>4 DEF SuccessParts

(* What holds of a device that listens.                                    *)
LEMMA Listening ==
    ASSUME SuccessInv, pc = "listening"
    PROVE  /\ fsm.phase # "Complete"
           /\ draws \in Nat
           /\ DOMAIN fsm = DOMAIN NewFsm
           /\ MineInv(fsm, draws)
           /\ OnAir(fsm, draws, pc, fsm.response)
BY ProvisioningAssumption DEF SuccessInv, StoresInv, SaysInv, ProvisioningInv, DeviceInv, RightFsm

(* A new machine.                                                          *)
LEMMA NewIsLater ==
    ASSUME NEW f, NEW d \in Nat
    PROVE  Later(f, d, NewFsm, d) /\ MineInv(NewFsm, d) /\ NewFsm.response = NoPDU
           /\ NewFsm.phase = "Beaconing"
<1>1. NewFsm.mine = Zeros /\ NewFsm.response = NoPDU /\ NewFsm.phase = "Beaconing"
  BY DEF NewFsm
<1>2. Later(f, d, NewFsm, d)
  BY <1>1, Draws DEF Later
<1> QED
  BY <1>1, <1>2 DEF MineInv

LEMMA BreakSucceeds ==
    ASSUME SuccessInv, NEW p \in Provisioners, NEW pdu, Receives(p, pdu), draws' = draws,
           Break \/ (Fail /\ fsm.phase # "DataDistribution")
    PROVE  SuccessParts'
<1>1. pc = "listening" /\ fsm' = NewFsm /\ Silent
  BY DEF Break, Fail, Receives
<1>2. fsm.phase # "Complete" /\ draws \in Nat
  BY <1>1, Listening
<1>3. Later(fsm, draws, fsm', draws') /\ MineInv(fsm', draws') /\ fsm'.response = NoPDU
      /\ fsm'.phase = "Beaconing"
  BY <1>1, <1>2, NewIsLater
<1>4. Kept(fsm, draws, pc, fsm', draws', pc')
  <2>1. CASE Break
    <3>1. Silenced(fsm', pc')
      BY <1>3, <2>1 DEF Silenced, Break
    <3> QED
      BY <1>2, <1>3, <3>1 DEF Kept, Shown, Shares
  <2>2. CASE Fail /\ fsm.phase # "DataDistribution"
    BY <1>1, <1>2, <1>3, <2>2, Unrevealed DEF Revealing
  <2> QED
    BY <2>1, <2>2
<1>5. OnAir(fsm', draws', pc', fsm'.response)
  BY <1>3, NoPDUOnAir
<1> QED
  BY <1>1, <1>3, <1>4, <1>5, ReceiverMoves

LEMMA RepeatedSucceeds ==
    ASSUME SuccessInv, NEW p \in Provisioners, NEW pdu \in Pending(p),
           ReceiveRepeated(p, pdu) \/ ReceiveWayward(p, pdu)
    PROVE  SuccessParts'
<1>1. Receives(p, pdu) /\ pc = "listening" /\ UNCHANGED <<pc, fsm, draws>>
  BY DEF ReceiveRepeated, ReceiveWayward, Fresh, Answer, Receives
<1>2. Transmit(fsm'.response) \/ Silent
  BY DEF ReceiveRepeated, ReceiveWayward, Answer
<1>3. /\ fsm.phase # "Complete" /\ draws \in Nat
      /\ MineInv(fsm, draws) /\ OnAir(fsm, draws, pc, fsm.response)
  BY <1>1, Listening
<1>4. Kept(fsm, draws, pc, fsm', draws', pc')
  BY <1>1, <1>3, SameMachine
<1>5. OnAir(fsm', draws', pc', fsm'.response) /\ MineInv(fsm', draws')
      /\ (fsm'.phase = "Complete" => pc' = "completing")
  BY <1>1, <1>3
<1> QED
  BY <1>1, <1>2, <1>4, <1>5, ReceiverMoves

(* An answer before a commitment is made.                                  *)
LEMMA EarlyAnswer ==
    ASSUME SuccessInv, NEW p \in Provisioners, NEW pdu, Receives(p, pdu),
           NEW next, Answer(pdu, next), draws' \in {draws, draws + 1},
           fsm.phase \in {"Beaconing", "Invitation", "KeyExchange"},
           next.mine = fsm.mine, next.phase \notin {"Complete", "DataDistribution"},
           OnAir(next, draws', pc', next.response)
    PROVE  SuccessParts'
<1>1. /\ pc = "listening" /\ fsm' = next /\ pc' = pc
      /\ Transmit(fsm'.response) \/ Silent
  BY DEF Receives, Answer
<1>2. draws \in Nat /\ MineInv(fsm, draws)
  BY <1>1, Listening
<1>3. next.mine = Zeros
  BY <1>2 DEF MineInv
<1>4. Later(fsm, draws, fsm', draws')
  BY <1>1, <1>2, <1>3, Draws DEF Later
<1>5. Kept(fsm, draws, pc, fsm', draws', pc')
  BY <1>1, <1>4, Unrevealed DEF Revealing
<1>6. MineInv(fsm', draws') /\ OnAir(fsm', draws', pc', fsm'.response)
  BY <1>1, <1>3 DEF MineInv
<1> QED
  BY <1>1, <1>5, <1>6, ReceiverMoves

LEMMA InviteSucceeds ==
    ASSUME SuccessInv, NEW p \in Provisioners, NEW pdu, ReceiveInvite(p, pdu)
    PROVE  SuccessParts'
<1> DEFINE next == [fsm EXCEPT !.phase = "Invitation",
                               !.transcript = @ \o <<pdu, Capabilities>>,
                               !.response = Capabilities]
<1>1. /\ Receives(p, pdu) /\ Answer(pdu, next) /\ draws' = draws /\ fsm.phase = "Beaconing"
      /\ pc = "listening"
  BY DEF ReceiveInvite, Fresh, Receives
<1>2. next.mine = fsm.mine /\ next.phase = "Invitation" /\ next.response = Capabilities
  BY <1>1, Listening DEF NewFsm
<1>3. OnAir(next, draws', pc', next.response)
  BY <1>2, NoPDUOnAir
<1> HIDE DEF next
<1> QED
  BY <1>1, <1>2, <1>3, EarlyAnswer

LEMMA StartSucceeds ==
    ASSUME SuccessInv, NEW p \in Provisioners, NEW pdu, ReceiveStart(p, pdu)
    PROVE  SuccessParts'
<1>1. Receives(p, pdu) /\ fsm.phase = "Invitation" /\ pc = "listening"
  BY DEF ReceiveStart, Fresh, Receives
<1>2. ASSUME NEW auth, Answer(pdu, Started(fsm, pdu, auth)), draws' \in {draws, draws + 1}
      PROVE  SuccessParts'
  <2> DEFINE next == Started(fsm, pdu, auth)
  <2>1. next.mine = fsm.mine /\ next.phase = "KeyExchange" /\ next.response = NoPDU
    BY <1>1, Listening DEF NewFsm, Started
  <2>2. OnAir(next, draws', pc', next.response)
    BY <2>1, NoPDUOnAir
  <2>3. Answer(pdu, next)
    BY <1>2
  <2> HIDE DEF next
  <2> QED
    BY <1>1, <1>2, <2>1, <2>2, <2>3, EarlyAnswer
<1>3. CASE Break /\ draws' = draws
  BY <1>1, <1>3, BreakSucceeds
<1> QED
  BY <1>2, <1>3 DEF ReceiveStart, MayDraw

LEMMA PublicKeySucceeds ==
    ASSUME SuccessInv, NEW p \in Provisioners, NEW pdu, ReceivePublicKey(p, pdu)
    PROVE  SuccessParts'
<1>1. Receives(p, pdu) /\ fsm.phase = "KeyExchange" /\ pc = "listening"
  BY DEF ReceivePublicKey, Fresh, Receives
<1>2. CASE Answer(pdu, KeyExchanged(fsm, pdu[2], Drawn(draws))) /\ MayDraw
  <2> DEFINE next == KeyExchanged(fsm, pdu[2], Drawn(draws))
  <2>1. /\ next.mine = fsm.mine /\ next.phase = "Authentication"
        /\ next.response = PublicKey(Drawn(draws))
    BY <1>1, Listening DEF NewFsm, KeyExchanged
  <2>2. draws' = draws + 1 /\ draws \in 0 .. draws' - 1
    BY <1>1, <1>2, Listening DEF MayDraw
  <2>3. OnAir(next, draws', pc', next.response)
    BY <2>1, <2>2 DEF OnAir, PublicKey, Kind
  <2>4. Answer(pdu, next)
    BY <1>2
  <2> HIDE DEF next
  <2> QED
    BY <1>1, <2>1, <2>2, <2>3, <2>4, EarlyAnswer
<1>3. CASE Fail /\ draws' = draws
  BY <1>1, <1>3, BreakSucceeds
<1> QED
  BY <1>2, <1>3 DEF ReceivePublicKey

(* A commitment is made with a random of its own, which is not yet shown.  *)
LEMMA ConfirmationSucceeds ==
    ASSUME SuccessInv, NEW p \in Provisioners, NEW pdu, ReceiveConfirmation(p, pdu)
    PROVE  SuccessParts'
<1> DEFINE next == Confirmed(fsm, pdu[2], Drawn(draws))
           value == Confirm(fsm.transcript, fsm.secret, Drawn(draws), fsm.auth)
<1>1. /\ Receives(p, pdu) /\ fsm.phase = "Authentication" /\ pc = "listening"
      /\ Answer(pdu, next) /\ draws' = draws + 1
  BY DEF ReceiveConfirmation, Fresh, Receives, MayDraw
<1>2. draws \in Nat /\ draws \in 0 .. draws' - 1
  BY <1>1, Listening
<1>3. /\ next.mine = Drawn(draws) /\ next.secret = fsm.secret
      /\ next.phase = "Authentication" /\ next.response = Confirmation(value)
  BY <1>1, Listening DEF NewFsm, Confirmed
<1>4. /\ value = Confirm(value[2], value[3], Drawn(draws), value[5])
      /\ value[3] = fsm.secret
  BY DEF Confirm
<1>5. fsm' = next /\ pc' = pc /\ (Transmit(fsm'.response) \/ Silent)
  BY <1>1 DEF Answer
<1> HIDE DEF next, value
<1>6. Sealed(fsm', draws', value)
  BY <1>2, <1>3, <1>4, <1>5 DEF Sealed
<1>7. OnAir(fsm', draws', pc', fsm'.response)
  BY <1>3, <1>5, <1>6 DEF OnAir, Confirmation, Kind
<1>8. MineInv(fsm', draws')
  BY <1>2, <1>3, <1>5 DEF MineInv
<1>9. Later(fsm, draws, fsm', draws')
  BY <1>1, <1>2, <1>3, <1>5, Draws DEF Later
<1>10. Kept(fsm, draws, pc, fsm', draws', pc')
  BY <1>1, <1>9, Unrevealed DEF Revealing
<1> QED
  BY <1>1, <1>3, <1>5, <1>7, <1>8, <1>10, ReceiverMoves

LEMMA RandomSucceeds ==
    ASSUME SuccessInv, NEW p \in Provisioners, NEW pdu, ReceiveRandom(p, pdu)
    PROVE  SuccessParts'
<1>1. Receives(p, pdu) /\ fsm.phase = "Authentication" /\ pc = "listening" /\ draws' = draws
  BY DEF ReceiveRandom, Fresh, Receives
<1>2. CASE Answer(pdu, Revealed(fsm, pdu[2]))
  <2> DEFINE next == Revealed(fsm, pdu[2])
  <2>1. /\ next.mine = fsm.mine /\ next.secret = fsm.secret
        /\ next.phase = "DataDistribution" /\ next.response = Random(fsm.mine)
    BY <1>1, Listening DEF NewFsm, Revealed
  <2>2. fsm' = next /\ pc' = pc /\ (Transmit(fsm'.response) \/ Silent)
    BY <1>2 DEF Answer
  <2> HIDE DEF next
  <2>3. Later(fsm, draws, fsm', draws')
    BY <1>1, <2>1, <2>2, Listening DEF Later
  <2>4. Kept(fsm, draws, pc, fsm', draws', pc')
    BY <1>1, <2>3, Unrevealed DEF Revealing
  <2>5. OnAir(fsm', draws', pc', fsm'.response)
    BY <2>1, <2>2 DEF OnAir, Random, Kind, Shown, Revealing
  <2>6. MineInv(fsm', draws')
    BY <1>1, <2>1, <2>2, Listening DEF MineInv
  <2> QED
    BY <1>1, <2>1, <2>2, <2>4, <2>5, <2>6, ReceiverMoves
<1>3. CASE Fail
  BY <1>1, <1>3, BreakSucceeds
<1> QED
  BY <1>2, <1>3 DEF ReceiveRandom

LEMMA DataSucceeds ==
    ASSUME SuccessInv, NEW p \in Provisioners, NEW pdu, ReceiveData(p, pdu)
    PROVE  SuccessParts'
<1>1. Receives(p, pdu) /\ fsm.phase = "DataDistribution" /\ pc = "listening" /\ draws' = draws
  BY DEF ReceiveData, Fresh, Receives
<1>2. CASE Break
  BY <1>1, <1>2, BreakSucceeds
<1>3. CASE ~Break
  <2>1. /\ fsm' = [fsm EXCEPT !.phase = "Complete", !.data = pdu[3], !.response = Complete]
        /\ pc' = "completing"
        /\ Transmit(Complete)
    BY <1>3 DEF ReceiveData
  <2>2. /\ fsm'.mine = fsm.mine /\ fsm'.secret = fsm.secret
        /\ fsm'.phase = "Complete" /\ fsm'.response = Complete
    BY <1>1, <2>1, Listening DEF NewFsm
  <2>3. Later(fsm, draws, fsm', draws')
    BY <1>1, <2>2, Listening DEF Later
  <2>4. Kept(fsm, draws, pc, fsm', draws', pc')
    BY <1>1, <2>2, <2>3 DEF Kept, Shown, Shares, Silenced, Revealing
  <2>5. OnAir(fsm', draws', pc', fsm'.response)
    BY <2>2 DEF OnAir, Complete, Kind
  <2>6. MineInv(fsm', draws')
    BY <1>1, <2>2, Listening DEF MineInv
  <2> QED
    BY <1>1, <2>1, <2>2, <2>4, <2>5, <2>6, ReceiverMoves
<1> QED
  BY <1>2, <1>3

LEMMA ReceiveSucceeds ==
    ASSUME SuccessInv, NEW p \in Provisioners, Receive(p)
    PROVE  SuccessParts'
BY RepeatedSucceeds, InviteSucceeds, StartSucceeds, PublicKeySucceeds, ConfirmationSucceeds,
   RandomSucceeds, DataSucceeds DEF Receive

-----------------------------------------------------------------------------
(* The timer, the end of the turn, and faults.                             *)
LEMMA RetransmitSucceeds ==
    ASSUME SuccessInv, Retransmit
    PROVE  SuccessParts'
<1>1. pc = "listening" /\ UNCHANGED <<draws, stored, provisioner, interrupted>>
  BY DEF Retransmit
<1>2. /\ fsm.phase # "Complete" /\ draws \in Nat
      /\ MineInv(fsm, draws) /\ OnAir(fsm, draws, pc, fsm.response)
  BY <1>1, Listening
<1>3. /\ Kept(fsm, draws, pc, fsm', draws', pc')
      /\ OnAir(fsm', draws', pc', fsm'.response) /\ MineInv(fsm', draws')
      /\ fsm'.phase # "Complete" /\ pc' # "provisioned"
      /\ Transmit(fsm'.response) \/ Silent
  <2>1. CASE Break
    <3>1. fsm' = NewFsm /\ pc' = "stopped" /\ Silent
      BY <2>1 DEF Break
    <3>2. Later(fsm, draws, fsm', draws') /\ MineInv(fsm', draws') /\ fsm'.response = NoPDU
          /\ fsm'.phase = "Beaconing"
      BY <1>1, <1>2, <3>1, NewIsLater
    <3>3. Silenced(fsm', pc')
      BY <3>1, <3>2 DEF Silenced
    <3>4. Kept(fsm, draws, pc, fsm', draws', pc')
      BY <1>2, <3>2, <3>3 DEF Kept, Shown, Shares
    <3> QED
      BY <3>1, <3>2, <3>4, NoPDUOnAir
  <2>2. CASE Transmit(fsm.response) /\ UNCHANGED <<pc, fsm, lastAnswered>>
    <3>1. Kept(fsm, draws, pc, fsm', draws', pc')
      BY <1>1, <1>2, <2>2, SameMachine
    <3> QED
      BY <1>1, <1>2, <2>2, <3>1
  <2> QED
    BY <2>1, <2>2 DEF Retransmit
<1>4. SaysInv' /\ HearsInv'
  BY <1>1, <1>3, Transmitted, DeviceMoves DEF SuccessInv, SaysInv
<1>5. StoresInv' /\ SuccessIsReal'
  BY <1>1, <1>3 DEF SuccessInv, StoresInv, SuccessIsReal
<1> QED
  BY <1>4, <1>5 DEF SuccessParts

LEMMA StoringSucceeds ==
    ASSUME SuccessInv, Finish \/ StoreFails
    PROVE  SuccessParts'
<1>1. /\ pc = "completing" /\ UNCHANGED <<fsm, draws, provisioner, fromDevice>>
      /\ pc' \in {"provisioned", "stopped"}
  BY DEF Finish, StoreFails
<1>2. /\ draws \in Nat /\ fsm.phase = "Complete"
      /\ fsm.data \in Provisioners
  BY <1>1, ProvisioningAssumption DEF SuccessInv, ProvisioningInv, DeviceInv
<1>3. Kept(fsm, draws, pc, fsm', draws', pc')
  BY <1>1, <1>2, SameMachine
<1>4. OnAir(fsm', draws', pc', fsm'.response) /\ MineInv(fsm', draws')
  <2>1. OnAir(fsm, draws, pc, fsm.response) /\ MineInv(fsm, draws)
    BY DEF SuccessInv, SaysInv
  <2> QED
    BY <1>1, <1>3, <2>1, OnAirStays
<1>5. SaysInv' /\ HearsInv'
  BY <1>1, <1>3, <1>4, DeviceMoves DEF SuccessInv, SaysInv
<1>6. stored = Nobody
  BY <1>1 DEF SuccessInv, StoresInv
<1>7. \/ stored' = fsm.data /\ interrupted' = interrupted /\ pc' = "provisioned"
      \/ stored' = stored /\ interrupted' = interrupted \cup {fsm.data} /\ pc' = "stopped"
  BY <1>1 DEF Finish, StoreFails, Interrupts, history
<1>8. StoresInv'
  BY <1>1, <1>2, <1>6, <1>7 DEF StoresInv
<1>9. SuccessIsReal'
  BY <1>1, <1>2, <1>6, <1>7, ProvisioningAssumption DEF SuccessInv, SuccessIsReal
<1> QED
  BY <1>5, <1>8, <1>9 DEF SuccessParts

LEMMA RebootSucceeds ==
    ASSUME SuccessInv, Reboot
    PROVE  SuccessParts'
<1>1. /\ pc # "provisioned" /\ pc' = "listening" /\ fsm' = NewFsm /\ draws' = draws
      /\ stored' = stored
      /\ DOMAIN fromDevice' = Provisioners
      /\ \A p \in Provisioners : fromDevice'[p] = <<>>
      /\ interrupted' = IF pc = "completing" THEN interrupted \cup {fsm.data} ELSE interrupted
  BY DEF Reboot, Interrupts
<1>2. draws \in Nat
  BY ProvisioningAssumption DEF SuccessInv, ProvisioningInv, DeviceInv
<1>3. Later(fsm, draws, fsm', draws') /\ MineInv(fsm', draws') /\ fsm'.response = NoPDU
      /\ fsm'.phase = "Beaconing"
  BY <1>1, <1>2, NewIsLater
<1>4. SaysInv'
  BY <1>1, <1>3, NothingOnAir, NoPDUOnAir DEF SaysInv
<1>5. ASSUME NEW p \in Provisioners
      PROVE  /\ HeardOf(fsm', draws', provisioner'[p], p)
             /\ KnowsSecret(fsm', pc', provisioner'[p])
             /\ provisioner'[p].phase = "Success" => provisioner[p].phase = "Success"
  <2> DEFINE f == provisioner[p]
             g == provisioner'[p]
  <2>1. DOMAIN f = DOMAIN NewProvisioner
    BY DEF SuccessInv, ProvisioningInv, SessionsInv, SessionInv
  <2>2. (g = f /\ ~Hearing(p)) \/ g = [f EXCEPT !.phase = "Gone"]
    BY DEF Reboot
  <2>3. /\ g.secret = f.secret /\ g.confirmation = f.confirmation
        /\ g.phase \notin {"Authentication", "DataDistribution"}
        /\ g.phase = "Success" => f.phase = "Success"
    BY <2>1, <2>2 DEF NewProvisioner, Hearing
  <2>4. HeardOf(fsm', draws', f, p)
    BY <1>3, HeardStays DEF SuccessInv, HearsInv
  <2>5. HeardOf(fsm', draws', g, p)
    BY <2>3, <2>4 DEF HeardOf, Exchanged
  <2>6. KnowsSecret(fsm', pc', g)
    BY <2>3 DEF KnowsSecret
  <2> QED
    BY <2>3, <2>5, <2>6
<1>6. HearsInv'
  BY <1>5 DEF HearsInv
<1>7. StoresInv'
  BY <1>1, <1>3 DEF SuccessInv, StoresInv
<1>8. SuccessIsReal'
  BY <1>1, <1>5 DEF SuccessInv, SuccessIsReal
<1> QED
  BY <1>4, <1>6, <1>7, <1>8 DEF SuccessParts

-----------------------------------------------------------------------------
(* Sessions.  One moves, and what it leaves unheard was on the air before. *)
Heard(h, p) == HeardOf(fsm, draws, h, p) /\ KnowsSecret(fsm, pc, h)

LEMMA OneMoves ==
    ASSUME SuccessInv, NEW p \in Provisioners, NEW h,
           UNCHANGED <<pc, fsm, draws, stored, interrupted>>,
           provisioner'[p] = h,
           \A q \in Provisioners : q # p => provisioner'[q] = provisioner[q],
           DOMAIN fromDevice' = Provisioners,
           AllOnAir(fsm, draws, pc, fromDevice'[p]),
           \A q \in Provisioners : q # p => fromDevice'[q] = fromDevice[q],
           Heard(h, p),
           h.phase = "Success" => \/ provisioner[p].phase = "Success"
                                  \/ fsm.phase = "Complete" /\ fsm.data = p
    PROVE  SuccessParts'
<1>1. SaysInv'
  BY DEF SuccessInv, SaysInv
<1>2. HearsInv'
  BY DEF SuccessInv, HearsInv, Heard
<1>3. StoresInv'
  BY DEF SuccessInv, StoresInv
<1>4. SuccessIsReal'
  BY DEF SuccessInv, StoresInv, SuccessIsReal
<1> QED
  BY <1>1, <1>2, <1>3, <1>4 DEF SuccessParts

(* What is known of a session.                                             *)
LEMMA SessionKnown ==
    ASSUME SuccessInv, NEW p \in Provisioners
    PROVE  /\ DOMAIN provisioner = Provisioners /\ DOMAIN fromDevice = Provisioners
           /\ DOMAIN provisioner[p] = DOMAIN NewProvisioner
           /\ Heard(provisioner[p], p)
           /\ AllOnAir(fsm, draws, pc, fromDevice[p])
BY DEF SuccessInv, SaysInv, HearsInv, Heard, ProvisioningInv, SessionsInv, SessionInv

LEMMA BeginSucceeds ==
    ASSUME SuccessInv, NEW p \in Provisioners, Begin(p)
    PROVE  SuccessParts'
<1> DEFINE h == [NewProvisioner EXCEPT !.phase = "Invitation", !.transcript = <<Invite>>,
                                       !.response = <<Invite>>]
<1>1. /\ UNCHANGED <<pc, fsm, draws, stored, interrupted, fromDevice>>
      /\ provisioner'[p] = h
      /\ \A q \in Provisioners : q # p => provisioner'[q] = provisioner[q]
  BY SessionKnown DEF Begin, Advance, device, history
<1>2. h.phase = "Invitation" /\ h.secret = {} /\ h.confirmation = Zeros
  BY DEF NewProvisioner
<1> HIDE DEF h
<1>3. Heard(h, p)
  BY <1>2 DEF Heard, HeardOf, Exchanged, KnowsSecret
<1> QED
  BY <1>1, <1>2, <1>3, SessionKnown, OneMoves

LEMMA LeaveSucceeds ==
    ASSUME SuccessInv, NEW p \in Provisioners, Leave(p)
    PROVE  SuccessParts'
<1> DEFINE f == provisioner[p]
           h == [f EXCEPT !.phase = "Gone"]
<1>1. /\ UNCHANGED <<pc, fsm, draws, stored, interrupted>>
      /\ provisioner'[p] = h
      /\ \A q \in Provisioners : q # p => provisioner'[q] = provisioner[q]
      /\ DOMAIN fromDevice' = Provisioners /\ fromDevice'[p] = <<>>
      /\ \A q \in Provisioners : q # p => fromDevice'[q] = fromDevice[q]
  BY SessionKnown DEF Leave, device, history
<1>2. h.phase = "Gone" /\ h.secret = f.secret /\ h.confirmation = f.confirmation
  BY SessionKnown DEF NewProvisioner
<1>3. Heard(f, p)
  BY SessionKnown
<1> HIDE DEF h
<1>4. Heard(h, p)
  BY <1>2, <1>3 DEF Heard, HeardOf, Exchanged, KnowsSecret
<1> QED
  BY <1>1, <1>2, <1>4, NothingOnAir, OneMoves

(* Nothing is heard: sent again, something odd sent, an answer lost.       *)
LEMMA UnheardSucceeds ==
    ASSUME SuccessInv, NEW p \in Provisioners, SendAgain(p) \/ SendOdd(p) \/ Lose(p)
    PROVE  SuccessParts'
<1>1. /\ UNCHANGED <<pc, fsm, draws, stored, interrupted>>
      /\ \A q \in Provisioners : provisioner'[q] = provisioner[q]
      /\ DOMAIN fromDevice' = Provisioners
      /\ \/ fromDevice'[p] = fromDevice[p]
         \/ fromDevice[p] # <<>> /\ fromDevice'[p] = Tail(fromDevice[p])
      /\ \A q \in Provisioners : q # p => fromDevice'[q] = fromDevice[q]
  BY SessionKnown DEF SendAgain, SendOdd, Lose, Advance, device, history
<1>2. AllOnAir(fsm, draws, pc, fromDevice'[p])
  BY <1>1, SessionKnown, AllOnAirTail
<1> QED
  BY <1>1, <1>2, SessionKnown, OneMoves

(* Provisioner::next hears what the device has sent.                       *)
LEMMA MovesSucceeds ==
    ASSUME SuccessInv, NEW p \in Provisioners, NEW pdu,
           OnAir(fsm, draws, pc, pdu), Understands(provisioner[p], pdu)
    PROVE  /\ Heard(Moves(p, provisioner[p], pdu), p)
           /\ Moves(p, provisioner[p], pdu).phase = "Success" =>
                \/ provisioner[p].phase = "Success"
                \/ fsm.phase = "Complete" /\ fsm.data = p
<1> DEFINE f == provisioner[p]
           Right(h) == /\ Heard(h, p)
                       /\ h.phase = "Success" => fsm.phase = "Complete" /\ fsm.data = p
<1>0. DOMAIN f = DOMAIN NewProvisioner /\ Heard(f, p)
  BY SessionKnown
<1>1. CASE f.phase = "Invitation" /\ Kind(pdu) = "Capabilities"
  <2> DEFINE h == Asked(f, p)
  <2>1. Moves(p, f, pdu) = h
    BY <1>1 DEF Moves
  <2>2. h.phase = "KeyExchange" /\ h.secret = f.secret /\ h.confirmation = f.confirmation
    BY <1>0 DEF Asked, NewProvisioner
  <2> HIDE DEF h
  <2>3. Right(h)
    BY <1>0, <2>2 DEF Heard, HeardOf, Exchanged, KnowsSecret
  <2> QED
    BY <2>1, <2>3
<1>2. CASE f.phase = "KeyExchange" /\ Kind(pdu) = "PublicKey"
  <2> DEFINE h == Committed(f, p, pdu[2])
  <2>1. Moves(p, f, pdu) = h
    BY <1>2 DEF Moves
  <2>2. /\ h.phase = "Authentication" /\ h.secret = {pdu[2], Own(p)}
        /\ h.confirmation = f.confirmation
    BY <1>0 DEF Committed, NewProvisioner, Secret
  <2>3. \E n \in 0 .. draws - 1 : pdu[2] = Drawn(n)
    BY <1>2 DEF OnAir
  <2> HIDE DEF h
  <2>4. Exchanged(draws, h, p) /\ h.secret # {}
    BY <2>2, <2>3 DEF Exchanged
  <2>5. Right(h)
    BY <1>0, <2>2, <2>4 DEF Heard, HeardOf, KnowsSecret
  <2> QED
    BY <2>1, <2>5
<1>3. CASE f.phase = "Authentication" /\ Kind(pdu) = "Confirmation"
  <2> DEFINE h == Opened(f, p, pdu[2])
  <2>1. Moves(p, f, pdu) = h
    BY <1>3 DEF Moves
  <2>2. h.phase = "Authentication" /\ h.secret = f.secret /\ h.confirmation = pdu[2]
    BY <1>0, <1>3 DEF Opened, NewProvisioner
  <2>3. Sealed(fsm, draws, pdu[2])
    BY <1>3 DEF OnAir
  <2> HIDE DEF h
  <2>4. Right(h)
    BY <1>0, <1>3, <2>2, <2>3 DEF Heard, HeardOf, Exchanged, KnowsSecret
  <2> QED
    BY <2>1, <2>4
<1>4. CASE f.phase = "Authentication" /\ Kind(pdu) = "Random"
  <2>1. CASE Matches(f, pdu[2])
    <3> DEFINE h == Distributed(f, p, pdu[2])
    <3>1. Moves(p, f, pdu) = h
      BY <1>4, <2>1 DEF Moves
    <3>2. /\ h.phase = "DataDistribution" /\ h.secret = f.secret
          /\ h.confirmation = f.confirmation
      BY <1>0 DEF Distributed, NewProvisioner
    <3> HIDE DEF h
    <3>3. f.confirmation # Zeros
      BY <2>1 DEF Matches, Confirm, Zeros
    <3>4. Sealed(fsm, draws, f.confirmation)
      BY <1>0, <3>3 DEF Heard, HeardOf
    <3>5. fsm.mine = pdu[2] => f.secret = fsm.secret
      BY <2>1, <3>4 DEF Sealed, Matches, Confirm
    <3>6. Shown(fsm, pc, pdu[2])
      BY <1>4 DEF OnAir
    <3>7. Shares(fsm, pc, f.secret)
      BY <3>5, <3>6 DEF Shown, Shares
    <3>8. Right(h)
      BY <1>0, <1>4, <3>2, <3>7 DEF Heard, HeardOf, Exchanged, KnowsSecret
    <3> QED
      BY <3>1, <3>8
  <2>2. CASE ~Matches(f, pdu[2])
    <3> DEFINE h == Failure(f)
    <3>1. Moves(p, f, pdu) = h
      BY <1>4, <2>2 DEF Moves
    <3>2. /\ h.phase = "Failure" /\ h.secret = f.secret /\ h.confirmation = f.confirmation
      BY <1>0 DEF Failure, NewProvisioner
    <3> HIDE DEF h
    <3>3. Right(h)
      BY <1>0, <3>2 DEF Heard, HeardOf, Exchanged, KnowsSecret
    <3> QED
      BY <3>1, <3>3
  <2> QED
    BY <2>1, <2>2
<1>5. CASE f.phase = "DataDistribution" /\ Kind(pdu) = "Complete"
  <2> DEFINE h == Success(f)
  <2>1. Moves(p, f, pdu) = h
    BY <1>5 DEF Moves
  <2>2. h.phase = "Success" /\ h.secret = f.secret /\ h.confirmation = f.confirmation
    BY <1>0 DEF Success, NewProvisioner
  <2> HIDE DEF h
  <2>3. fsm.phase = "Complete"
    BY <1>5 DEF OnAir
  <2>4. f.secret = fsm.secret /\ f.secret # {}
    BY <1>0, <1>5, <2>3 DEF Heard, KnowsSecret, Shares, Silenced
  <2>5. fsm.data \in Provisioners /\ provisioner[fsm.data].secret = fsm.secret
    BY <2>3 DEF SuccessInv, ProvisioningInv, TakenInv, Agrees, SessionKey
  <2>6. Exchanged(draws, f, p) /\ Exchanged(draws, provisioner[fsm.data], fsm.data)
    BY <1>0, <2>5, SessionKnown DEF Heard, HeardOf
  <2>7. PICK n \in Nat : f.secret = {Drawn(n), Own(p)}
    BY <2>4, <2>6 DEF Exchanged
  <2>8. PICK m \in Nat : f.secret = {Drawn(m), Own(fsm.data)}
    BY <2>4, <2>5, <2>6 DEF Exchanged
  <2>9. fsm.data = p
    BY <2>5, <2>7, <2>8, Draws
  <2>10. Right(h)
    BY <1>0, <2>2, <2>3, <2>9 DEF Heard, HeardOf, Exchanged, KnowsSecret
  <2> QED
    BY <2>1, <2>10
<1> QED
  BY <1>1, <1>2, <1>3, <1>4, <1>5 DEF Understands

LEMMA HearsSucceeds ==
    ASSUME SuccessInv, NEW p \in Provisioners, Hears(p)
    PROVE  SuccessParts'
<1> DEFINE f == provisioner[p]
           pdu == Head(fromDevice[p])
           h == IF Understands(f, pdu) THEN Moves(p, f, pdu) ELSE f
<1>1. /\ UNCHANGED <<pc, fsm, draws, stored, interrupted>>
      /\ provisioner'[p] = h
      /\ \A q \in Provisioners : q # p => provisioner'[q] = provisioner[q]
      /\ DOMAIN fromDevice' = Provisioners /\ fromDevice[p] # <<>>
      /\ fromDevice'[p] \in {<<>>, Tail(fromDevice[p])}
      /\ \A q \in Provisioners : q # p => fromDevice'[q] = fromDevice[q]
  BY SessionKnown DEF Hears, device, history
<1>2. AllOnAir(fsm, draws, pc, fromDevice'[p]) /\ OnAir(fsm, draws, pc, pdu)
  BY <1>1, SessionKnown, AllOnAirTail, NothingOnAir
<1>3. /\ Heard(h, p)
      /\ h.phase = "Success" => \/ f.phase = "Success"
                                \/ fsm.phase = "Complete" /\ fsm.data = p
  BY <1>2, MovesSucceeds, SessionKnown
<1> HIDE DEF h, pdu
<1> QED
  BY <1>1, <1>2, <1>3, OneMoves

LEMMA SessionSucceeds ==
    ASSUME SuccessInv, NEW p \in Provisioners, Session(p)
    PROVE  SuccessParts'
BY BeginSucceeds, HearsSucceeds, UnheardSucceeds, LeaveSucceeds DEF Session

-----------------------------------------------------------------------------
LEMMA InitSucceeds == Init => SuccessInv
<1> SUFFICES ASSUME Init PROVE SuccessInv
  OBVIOUS
<1>1. ProvisioningInv
  BY InitIsRight
<1>2. /\ fsm = NewFsm /\ draws = 0 /\ fsm.phase = "Beaconing" /\ stored = Nobody
      /\ MineInv(fsm, draws) /\ OnAir(fsm, draws, pc, fsm.response)
  BY NewIsLater, NoPDUOnAir DEF Init
<1>3. SaysInv
  BY <1>2, NothingOnAir DEF Init, SaysInv
<1>4. \A p \in Provisioners : /\ provisioner[p].secret = {} /\ provisioner[p].confirmation = Zeros
                              /\ provisioner[p].phase = "Idle"
  BY DEF Init, NewProvisioner
<1>5. HearsInv
  BY <1>4 DEF HearsInv, HeardOf, Exchanged, KnowsSecret
<1>6. StoresInv /\ SuccessIsReal
  BY <1>2, <1>4 DEF StoresInv, SuccessIsReal
<1> QED
  BY <1>1, <1>3, <1>5, <1>6 DEF SuccessInv

LEMMA StepSucceeds == SuccessInv /\ [Next]_vars => SuccessInv'
<1> SUFFICES ASSUME SuccessInv, [Next]_vars PROVE SuccessInv'
  OBVIOUS
<1>1. ProvisioningInv'
  BY StepIsRight DEF SuccessInv
<1>2. SuccessParts'
  <2>1. CASE Next
    BY <2>1, ReceiveSucceeds, SessionSucceeds, RetransmitSucceeds, StoringSucceeds, RebootSucceeds
       DEF Next
  <2>2. CASE UNCHANGED vars
    <3>1. UNCHANGED <<pc, fsm, draws, stored, provisioner, fromDevice, interrupted>>
      BY <2>2 DEF vars, device, history
    <3>2. SaysInv' /\ HearsInv'
      BY <3>1 DEF SuccessInv, SaysInv, HearsInv
    <3>3. StoresInv' /\ SuccessIsReal'
      BY <3>1 DEF SuccessInv, StoresInv, SuccessIsReal
    <3> QED
      BY <3>2, <3>3 DEF SuccessParts
  <2> QED
    BY <2>1, <2>2
<1> QED
  BY <1>1, <1>2 DEF SuccessInv, SuccessParts

(* A Provisioner that ends in Success has provisioned this device, and no  *)
(* other session has: the Complete it has heard was meant for it, though   *)
(* every session hears all of them, and whatever was lost or repeated.     *)
THEOREM SuccessIsNeverMistaken == Spec => []SuccessIsReal
<1>1. SuccessInv => SuccessIsReal
  BY DEF SuccessInv
<1> QED
  BY <1>1, InitSucceeds, StepSucceeds, PTL DEF Spec
=============================================================================
