---------------------------- MODULE Provisioning ----------------------------
(***************************************************************************)
(* The provisioning protocol above the bearers: the device (Provisionee in *)
(* its UnprovisionedStack, driven by run_driver) and the sessions of       *)
(* provisioners that run the Provisioner of this repository.               *)
(*                                                                         *)
(* Cryptography is symbolic: a shared secret is the pair of public keys, a *)
(* confirmation is all that went into it, Data decrypts under the key it   *)
(* was encrypted with.  The bearers deliver what provisioners send in      *)
(* order and once (see PbAdv); what the device sends can get lost.  With   *)
(* two interfaces everything the device sends goes to every session.       *)
(***************************************************************************)
EXTENDS Integers, Sequences, FiniteSets

CONSTANTS Provisioners,  \* the sessions: each one Provisioner::new
          Nobody,        \* not one of them
          Setups,        \* the circumstances considered, see setup
          MaxDraws       \* bound of the model: keys and randoms the device draws

ASSUME ProvisioningAssumption ==
    /\ Nobody \notin Provisioners
    /\ Setups \subseteq [sessions : SUBSET Provisioners, gattToo : BOOLEAN, faults : BOOLEAN,
                         repeats : BOOLEAN, odd : BOOLEAN, window : Nat]
    /\ MaxDraws \in Nat

-----------------------------------------------------------------------------
(* Keys, randoms and PDUs.                                                 *)
Zeros == <<"zeros">>
Garbage == <<"garbage">>
Drawn(n) == <<"drawn", n>>      \* by the device
Own(p) == <<"own", p>>          \* of a session: its key pair, its random

Secret(public, peer) == {public, peer}
Confirm(transcript, secret, random, auth) == <<"confirm", transcript, secret, random, auth>>
SessionKey(transcript, secret, provisioner, device) == <<transcript, secret, provisioner, device>>

NoPDU == <<"None">>
Invite == <<"Invite">>
Capabilities == <<"Capabilities">>
Start(action) == <<"Start", action>>
PublicKey(key) == <<"PublicKey", key>>
Confirmation(value) == <<"Confirmation", value>>
Random(value) == <<"Random", value>>
Data(key, p) == <<"Data", key, p>>
Complete == <<"Complete">>
Failed == <<"Failed">>
Kind(pdu) == pdu[1]

(* PDUs that parse, and that no Provisioner of this repository sends.      *)
Odd == {Start("OutputNumeric"), Start("InputAlphanumeric"), PublicKey(Garbage),
        Confirmation(Garbage), Random(Garbage), Data(Garbage, Nobody)}

VARIABLES setup,         \* which sessions there are; two interfaces or one?  may links close,
                         \* power and flash fail?  may PDUs be sent again, and those of
                         \* the device get lost?  may an odd PDU be sent, once?
                         \* bound: at most `window` PDUs are on the way when a timer fires
          pc,            \* of the driver: "listening", "completing", "provisioned", "stopped"
          fsm,           \* the Provisionee
          lastAnswered,  \* the PDU of last_transmit_hash
          draws,         \* how many keys and randoms the device has drawn
          stored,        \* whose provisioning data the flash page holds
          provisioner,   \* per session: the Provisioner
          toDevice, fromDevice,  \* per session: the PDUs on the way
          odd,           \* has an odd PDU been sent?
          committed,     \* history: the last Confirmation the device sent since its boot
          interrupted    \* history: sessions whose Complete was not followed by a store

device == <<pc, fsm, lastAnswered, draws, stored>>
history == <<committed, interrupted>>
vars == <<setup, device, provisioner, toDevice, fromDevice, odd, history>>

NewFsm == [phase |-> "Beaconing", transcript |-> <<>>, response |-> NoPDU, auth |-> Zeros,
           secret |-> {}, confirmation |-> Zeros, mine |-> Zeros, theirs |-> Zeros, data |-> Nobody]

NewProvisioner == [phase |-> "Idle", transcript |-> <<>>, response |-> <<>>, secret |-> {},
                   confirmation |-> Zeros, theirs |-> Zeros]

Hearing(p) == provisioner[p].phase \in {"Invitation", "KeyExchange", "Authentication", "DataDistribution"}
InProgress == fsm.phase \in {"Invitation", "KeyExchange", "Authentication", "DataDistribution"}

Init == /\ setup \in Setups
        /\ pc = "listening"
        /\ fsm = NewFsm
        /\ lastAnswered = NoPDU
        /\ draws = 0
        /\ stored = Nobody
        /\ provisioner = [p \in Provisioners |-> NewProvisioner]
        /\ toDevice = [p \in Provisioners |-> <<>>]
        /\ fromDevice = [p \in Provisioners |-> <<>>]
        /\ odd = FALSE
        /\ committed = NoPDU
        /\ interrupted = {}

-----------------------------------------------------------------------------
(* The driver hands a PDU to the bearers; fsm' is up to the caller.        *)
Transmit(pdu) ==
    /\ fromDevice' = [p \in Provisioners |->
                        IF Hearing(p) THEN Append(fromDevice[p], pdu) ELSE fromDevice[p]]
    /\ committed' = IF Kind(pdu) = "Confirmation" THEN pdu ELSE committed

Silent == UNCHANGED <<fromDevice, committed>>

(* What run_driver is given next; the bearers keep the order of a session. *)
Pending(p) == {toDevice[p][1] : n \in 1 .. Len(toDevice[p])}

Receives(p, pdu) ==
    /\ pc = "listening"
    /\ toDevice' = [toDevice EXCEPT ![p] = Tail(@)]
    /\ UNCHANGED <<setup, stored, provisioner, odd, interrupted>>

(* UnprovisionedStack::process with a PDU it has not answered last.        *)
Fresh(p, pdu) == Receives(p, pdu) /\ pdu # lastAnswered

(* mutants: a PDU without an answer leaves the hash of the one before; an  *)
(* Invite always starts over; keys enter the transcript in the order they  *)
(* are made; a repeated Confirmation draws, and is answered as before; any *)
(* Data is taken for decrypted.                                            *)
AnswerKeeping(pdu, next) ==
    /\ fsm' = next
    /\ UNCHANGED pc
    /\ IF next.response = NoPDU
       THEN UNCHANGED lastAnswered /\ Silent
       ELSE lastAnswered' = pdu /\ Transmit(next.response)

ReceiveInviteAnytime(p, pdu) ==
    /\ Fresh(p, pdu)
    /\ Kind(pdu) = "Invite"
    /\ fsm' = [NewFsm EXCEPT !.phase = "Invitation", !.transcript = <<pdu, Capabilities>>,
                             !.response = Capabilities]
    /\ lastAnswered' = pdu
    /\ Transmit(Capabilities)
    /\ UNCHANGED <<pc, draws>>

KeyExchangedOwnFirst(f, key, public) ==
    [f EXCEPT !.phase = "Authentication",
              !.transcript = @ \o <<PublicKey(public), PublicKey(key)>>,
              !.secret = Secret(public, key),
              !.response = PublicKey(public)]

ConfirmedOnce(f, value, random) ==
    [f EXCEPT !.confirmation = value,
              !.mine = random,
              !.response = IF Kind(@) = "Confirmation" THEN @
                           ELSE Confirmation(Confirm(f.transcript, f.secret, random, f.auth))]

DecryptsAnything(f, key) == TRUE

(* The new state answers, and the PDU is remembered; or it has no answer.  *)
Answer(pdu, next) ==
    /\ fsm' = next
    /\ UNCHANGED pc
    /\ IF next.response = NoPDU
       THEN lastAnswered' = NoPDU /\ Silent
       ELSE lastAnswered' = pdu /\ Transmit(next.response)

(* ProvisioningState::Failed: a new stack, and no Failed on the air.       *)
Fail == /\ fsm' = NewFsm
        /\ lastAnswered' = NoPDU
        /\ Silent
        /\ UNCHANGED pc

(* An error of next: the Provisionee is gone, and run_driver returns.      *)
Break == /\ pc' = "stopped"
         /\ fsm' = NewFsm
         /\ lastAnswered' = NoPDU
         /\ Silent

MayDraw == draws < MaxDraws /\ draws' = draws + 1

ReceiveRepeated(p, pdu) ==
    /\ Receives(p, pdu)
    /\ pdu = lastAnswered
    /\ Transmit(fsm.response)
    /\ UNCHANGED <<pc, fsm, lastAnswered, draws>>

ReceiveInvite(p, pdu) ==
    /\ Fresh(p, pdu)
    /\ fsm.phase = "Beaconing" /\ Kind(pdu) = "Invite"
    /\ Answer(pdu, [fsm EXCEPT !.phase = "Invitation",
                               !.transcript = @ \o <<pdu, Capabilities>>,
                               !.response = Capabilities])
    /\ UNCHANGED draws

Started(f, start, auth) ==
    [f EXCEPT !.phase = "KeyExchange", !.transcript = Append(@, start),
              !.response = NoPDU, !.auth = auth]

(* determine_auth_value: zeros without an action, else a number the device *)
(* makes up; drawing letters only ends in an error.                        *)
ReceiveStart(p, pdu) ==
    /\ Fresh(p, pdu)
    /\ fsm.phase = "Invitation" /\ Kind(pdu) = "Start"
    /\ \/ pdu[2] = "None" /\ Answer(pdu, Started(fsm, pdu, Zeros)) /\ UNCHANGED draws
       \/ pdu[2] = "OutputNumeric" /\ Answer(pdu, Started(fsm, pdu, Drawn(draws))) /\ MayDraw
       \/ pdu[2] = "InputAlphanumeric" /\ Break /\ UNCHANGED draws

(* calculate_ecdh: the transcript has the provisioner's key first.         *)
KeyExchanged(f, key, public) ==
    [f EXCEPT !.phase = "Authentication",
              !.transcript = @ \o <<PublicKey(key), PublicKey(public)>>,
              !.secret = Secret(public, key),
              !.response = PublicKey(public)]

ReceivePublicKey(p, pdu) ==
    /\ Fresh(p, pdu)
    /\ fsm.phase = "KeyExchange" /\ Kind(pdu) = "PublicKey"
    /\ \/ pdu[2] # Garbage /\ Answer(pdu, KeyExchanged(fsm, pdu[2], Drawn(draws))) /\ MayDraw
       \/ pdu[2] = Garbage /\ Fail /\ UNCHANGED draws

(* Phase<Authentication>::confirmation draws whenever it is called.        *)
Confirmed(f, value, random) ==
    [f EXCEPT !.confirmation = value,
              !.mine = random,
              !.response = Confirmation(Confirm(f.transcript, f.secret, random, f.auth))]

ReceiveConfirmation(p, pdu) ==
    /\ Fresh(p, pdu)
    /\ fsm.phase = "Authentication" /\ Kind(pdu) = "Confirmation"
    /\ Answer(pdu, Confirmed(fsm, pdu[2], Drawn(draws)))
    /\ MayDraw

(* Phase<Authentication>::check.                                           *)
Checks(f, random) == f.confirmation = Confirm(f.transcript, f.secret, random, f.auth)

Revealed(f, random) ==
    [f EXCEPT !.phase = "DataDistribution", !.theirs = random, !.response = Random(f.mine)]

ReceiveRandom(p, pdu) ==
    /\ Fresh(p, pdu)
    /\ fsm.phase = "Authentication" /\ Kind(pdu) = "Random"
    /\ \/ Checks(fsm, pdu[2]) /\ Answer(pdu, Revealed(fsm, pdu[2]))
       \/ ~Checks(fsm, pdu[2]) /\ Fail
    /\ UNCHANGED draws

(* Phase<DataDistribution>::decrypt; on a wrong key it is an error.        *)
Decrypts(f, key) == key = SessionKey(f.transcript, f.secret, f.theirs, f.mine)

(* Five transmissions of Complete, of which any number is heard.           *)
ReceiveData(p, pdu) ==
    /\ Fresh(p, pdu)
    /\ fsm.phase = "DataDistribution" /\ Kind(pdu) = "Data"
    /\ \/ /\ Decrypts(fsm, pdu[2])
          /\ fsm' = [fsm EXCEPT !.phase = "Complete", !.data = pdu[3], !.response = Complete]
          /\ pc' = "completing"
          /\ Transmit(Complete)
          /\ UNCHANGED lastAnswered
       \/ ~Decrypts(fsm, pdu[2]) /\ Break
    /\ UNCHANGED draws

Expected == CASE fsm.phase = "Beaconing" -> {"Invite"}
              [] fsm.phase = "Invitation" -> {"Start"}
              [] fsm.phase = "KeyExchange" -> {"PublicKey"}
              [] fsm.phase = "Authentication" -> {"Confirmation", "Random"}
              [] fsm.phase = "DataDistribution" -> {"Data"}

(* A wayward PDU leaves the state; what it answered last is answered again.*)
ReceiveWayward(p, pdu) ==
    /\ Fresh(p, pdu)
    /\ Kind(pdu) \notin Expected
    /\ Answer(pdu, fsm)
    /\ UNCHANGED draws

Receive(p) ==
    \E pdu \in Pending(p) :
        \/ ReceiveRepeated(p, pdu) \/ ReceiveInvite(p, pdu) \/ ReceiveStart(p, pdu)
        \/ ReceivePublicKey(p, pdu) \/ ReceiveConfirmation(p, pdu) \/ ReceiveRandom(p, pdu)
        \/ ReceiveData(p, pdu) \/ ReceiveWayward(p, pdu)

-----------------------------------------------------------------------------
(* The bound on timers: a PDU takes far less than their second.            *)
Room == \A p \in Provisioners : Len(toDevice[p]) < setup.window /\ Len(fromDevice[p]) < setup.window

(* The rest of run_driver.                                                 *)

(* The one-second timer.  The advertising interface alone fails when there *)
(* is no link (any more).                                                  *)
Retransmit ==
    /\ setup.repeats
    /\ pc = "listening" /\ InProgress
    /\ Room
    /\ \/ /\ setup.gattToo \/ \E p \in Provisioners : Hearing(p)
          /\ fsm.response # NoPDU
          /\ Transmit(fsm.response)
          /\ UNCHANGED <<pc, fsm, lastAnswered>>
       \/ /\ ~setup.gattToo /\ ~\E p \in Provisioners : Hearing(p)
          /\ fsm.response # NoPDU
          /\ Break
    /\ UNCHANGED <<setup, draws, stored, provisioner, toDevice, odd, interrupted>>

(* The stack is replaced, and the turn ends with the put.                  *)
Finish ==
    /\ pc = "completing"
    /\ pc' = "provisioned"
    /\ stored' = fsm.data
    /\ UNCHANGED <<setup, fsm, lastAnswered, draws, provisioner, toDevice, fromDevice, odd, history>>

Interrupts == interrupted' = IF pc = "completing" THEN interrupted \cup {fsm.data} ELSE interrupted

StoreFails ==
    /\ setup.faults
    /\ pc = "completing"
    /\ pc' = "stopped"
    /\ Interrupts
    /\ UNCHANGED <<setup, fsm, lastAnswered, draws, stored, provisioner, toDevice, fromDevice, odd, committed>>

(* A power cut, or the reset of a stopped driver; all links are lost.      *)
Reboot ==
    /\ setup.faults
    /\ pc # "provisioned"
    /\ pc' = "listening"
    /\ fsm' = NewFsm
    /\ lastAnswered' = NoPDU
    /\ Interrupts
    /\ provisioner' = [p \in Provisioners |->
                          IF Hearing(p) THEN [provisioner[p] EXCEPT !.phase = "Gone"] ELSE provisioner[p]]
    /\ toDevice' = [p \in Provisioners |-> <<>>]
    /\ fromDevice' = [p \in Provisioners |-> <<>>]
    /\ committed' = NoPDU
    /\ UNCHANGED <<setup, draws, stored, odd>>

-----------------------------------------------------------------------------
(* The sessions.  Whoever drives a Provisioner sends its response when it  *)
(* has moved on, and may send it again while it waits.                     *)

Advance(p, next) ==
    /\ provisioner' = [provisioner EXCEPT ![p] = next]
    /\ toDevice' = [toDevice EXCEPT ![p] = @ \o next.response]

Begin(p) ==
    /\ p \in setup.sessions /\ provisioner[p].phase = "Idle"
    /\ setup.gattToo \/ ~\E q \in Provisioners : Hearing(q)
    /\ Advance(p, [NewProvisioner EXCEPT !.phase = "Invitation", !.transcript = <<Invite>>,
                                         !.response = <<Invite>>])
    /\ UNCHANGED <<setup, device, fromDevice, odd, history>>

Asked(f, p) ==
    [f EXCEPT !.phase = "KeyExchange",
              !.transcript = @ \o <<Capabilities, Start("None")>>,
              !.response = <<Start("None"), PublicKey(Own(p))>>]

Committed(f, p, key) ==
    LET transcript == f.transcript \o <<PublicKey(Own(p)), PublicKey(key)>>
        secret == Secret(key, Own(p))
    IN [f EXCEPT !.phase = "Authentication", !.transcript = transcript, !.secret = secret,
                 !.response = <<Confirmation(Confirm(transcript, secret, Own(p), Zeros))>>]

Opened(f, p, value) == [f EXCEPT !.confirmation = value, !.response = <<Random(Own(p))>>]

Matches(f, random) == f.confirmation = Confirm(f.transcript, f.secret, random, Zeros)

Distributed(f, p, random) ==
    [f EXCEPT !.phase = "DataDistribution", !.theirs = random,
              !.response = <<Data(SessionKey(f.transcript, f.secret, Own(p), random), p)>>]

Failure(f) == [f EXCEPT !.phase = "Failure", !.response = <<Failed>>]
Success(f) == [f EXCEPT !.phase = "Success", !.response = <<>>]

(* mutant: Complete is understood in any state.                            *)
UnderstandsComplete(f, pdu) == \/ f.phase = "Invitation" /\ Kind(pdu) = "Capabilities"
                               \/ f.phase = "KeyExchange" /\ Kind(pdu) = "PublicKey"
                               \/ f.phase = "Authentication" /\ Kind(pdu) \in {"Confirmation", "Random"}
                               \/ Kind(pdu) = "Complete"

Understands(f, pdu) == \/ f.phase = "Invitation" /\ Kind(pdu) = "Capabilities"
                       \/ f.phase = "KeyExchange" /\ Kind(pdu) = "PublicKey"
                       \/ f.phase = "Authentication" /\ Kind(pdu) \in {"Confirmation", "Random"}
                       \/ f.phase = "DataDistribution" /\ Kind(pdu) = "Complete"

(* Provisioner::next.                                                      *)
Moves(p, f, pdu) ==
    CASE Kind(pdu) = "Capabilities" -> Asked(f, p)
      [] Kind(pdu) = "PublicKey"    -> Committed(f, p, pdu[2])
      [] Kind(pdu) = "Confirmation" -> Opened(f, p, pdu[2])
      [] Kind(pdu) = "Random"       -> IF Matches(f, pdu[2]) THEN Distributed(f, p, pdu[2]) ELSE Failure(f)
      [] Kind(pdu) = "Complete"     -> Success(f)

Hears(p) ==
    /\ Hearing(p) /\ fromDevice[p] # <<>>
    /\ LET pdu == Head(fromDevice[p])
           next == IF Understands(provisioner[p], pdu)
                   THEN Moves(p, provisioner[p], pdu)
                   ELSE [provisioner[p] EXCEPT !.response = <<>>]
       IN /\ provisioner' = [provisioner EXCEPT ![p] = IF Understands(@, pdu) THEN next ELSE @]
          /\ toDevice' = [toDevice EXCEPT ![p] = @ \o next.response]
          /\ fromDevice' = [fromDevice EXCEPT ![p] =
                               IF next.phase \in {"Failure", "Success"} THEN <<>> ELSE Tail(@)]
    /\ UNCHANGED <<setup, device, odd, history>>

SendAgain(p) ==
    /\ setup.repeats
    /\ Hearing(p) /\ Room
    /\ Advance(p, provisioner[p])
    /\ UNCHANGED <<setup, device, fromDevice, odd, history>>

SendOdd(p) ==
    /\ setup.odd /\ ~odd
    /\ Hearing(p)
    /\ \E pdu \in Odd : toDevice' = [toDevice EXCEPT ![p] = Append(@, pdu)]
    /\ odd' = TRUE
    /\ UNCHANGED <<setup, device, provisioner, fromDevice, history>>

Lose(p) ==
    /\ setup.repeats
    /\ fromDevice[p] # <<>>
    /\ fromDevice' = [fromDevice EXCEPT ![p] = Tail(@)]
    /\ UNCHANGED <<setup, device, provisioner, toDevice, odd, history>>

(* The link closes, at either end.                                         *)
Leave(p) ==
    /\ setup.faults
    /\ Hearing(p)
    /\ provisioner' = [provisioner EXCEPT ![p].phase = "Gone"]
    /\ toDevice' = [toDevice EXCEPT ![p] = <<>>]
    /\ fromDevice' = [fromDevice EXCEPT ![p] = <<>>]
    /\ UNCHANGED <<setup, device, odd, history>>

Session(p) == \/ Begin(p) \/ Hears(p) \/ SendAgain(p) \/ SendOdd(p) \/ Lose(p) \/ Leave(p)

Next == \/ \E p \in Provisioners : Receive(p) \/ Session(p)
        \/ Retransmit \/ Finish \/ StoreFails \/ Reboot

Spec == Init /\ [][Next]_vars

FairSpec == /\ Spec
            /\ \A p \in Provisioners : WF_vars(Begin(p)) /\ WF_vars(Receive(p)) /\ SF_vars(Hears(p))
            /\ WF_vars(Retransmit)
            /\ WF_vars(Finish)

-----------------------------------------------------------------------------
Phases == {"Beaconing", "Invitation", "KeyExchange", "Authentication", "DataDistribution", "Complete"}
Outcomes == {"Idle", "Invitation", "KeyExchange", "Authentication", "DataDistribution",
             "Success", "Failure", "Gone"}

(* A repeated PDU always has an answer: InvalidState is never returned.    *)
TypeOK == /\ pc \in {"listening", "completing", "provisioned", "stopped"}
          /\ fsm.phase \in Phases
          /\ fsm.data \in Provisioners \cup {Nobody}
          /\ lastAnswered # NoPDU => fsm.response # NoPDU
          /\ draws \in 0 .. MaxDraws
          /\ stored \in Provisioners \cup {Nobody}
          /\ \A p \in Provisioners : provisioner[p].phase \in Outcomes
          /\ interrupted \subseteq Provisioners

Agrees(p) == LET peer == provisioner[p] IN
    SessionKey(fsm.transcript, fsm.secret, fsm.theirs, fsm.mine)
        = SessionKey(peer.transcript, peer.secret, Own(p), peer.theirs)

(***************************************************************************)
(* The device takes the data of a session only with its session key, which *)
(* both have computed from the same transcript, secret and randoms.        *)
(***************************************************************************)
Agreement == fsm.phase = "Complete" => fsm.data \in Provisioners /\ Agrees(fsm.data)

(***************************************************************************)
(* A session that ends in Success has provisioned this device: its data is *)
(* stored, or about to be, unless power or flash failed before it was.     *)
(***************************************************************************)
SuccessIsReal ==
    \A p \in Provisioners : provisioner[p].phase = "Success" =>
        \/ stored = p
        \/ pc = "completing" /\ fsm.data = p
        \/ p \in interrupted

(***************************************************************************)
(* What the device reveals in its Random is what its last Confirmation has *)
(* committed it to, also when that was repeated or computed anew.          *)
(***************************************************************************)
RevealOpensCommitment ==
    fsm.phase = "DataDistribution" =>
        /\ fsm.response = Random(fsm.mine)
        /\ committed = Confirmation(Confirm(fsm.transcript, fsm.secret, fsm.mine, fsm.auth))

(***************************************************************************)
(* A session whose random the device has accepted is not displaced: until  *)
(* the driver ends or the power fails, no PDU of another session, repeated *)
(* or wayward, takes the device out of it.                                 *)
(***************************************************************************)
NotDisplaced ==
    [][fsm.phase = "DataDistribution" =>
          \/ fsm'.phase = "Complete"
          \/ fsm' = fsm
          \/ pc' = "stopped" \/ committed' = NoPDU]_vars

Undisturbed == ~setup.faults /\ ~setup.odd /\ \E p \in Provisioners : setup.sessions = {p}

(***************************************************************************)
(* One session, undisturbed, provisions the device, whatever is repeated   *)
(* by either side and however often an answer is lost.                     *)
(***************************************************************************)
ProvisioningCompletes == Undisturbed => <>(pc = "provisioned")
=============================================================================
