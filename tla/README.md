# btmesh: a TLA+ verification project

The repository is a Bluetooth Mesh node in Rust for embedded devices: a driver
that provisions the device, then encrypts, segments, sends, receives, reassembles
and dispatches mesh messages, on one embassy executor task.  This directory holds
TLA+ modules for its stateful parts, TLC configurations that check them on small
instances, and theorems checked by TLAPS for all values of the constants.
`PROJECT.json` maps every definition to the lines it models and lists runs,
mutants, findings, hazards and theorems.

## 1. Inventory

| Component | State | Operations | What makes it correct |
|---|---|---|---|
| `InnerDriver` (`btmesh-driver/src/lib.rs`) | `stack`, `storage`, `dispatcher` | one loop: read the configuration, reconcile the stack, `select4` of receive / outbound payload / beacon / retransmit, handle one event, put the configuration | stack and storage agree; nothing is used before it is durable; one event at a time |
| `Storage`, `FlashBackingStore` (`storage/`) | RAM copy of the configuration, `latest_load`, one flash page | `init`, `get`, `put`, `load`, `store`, `should_writeback` | no sequence number twice under one set of keys, or as few as the reserve allows; the page never goes back |
| `Sequence` | a `u32` counter | `next`, `current` | each number drawn once |
| PB-ADV interface (`interface/advertising/`) | link, inbound and acknowledged transaction, segments, outbound PDU, outbound number | `receive_pb_adv`, `transmit_provisioning_pdu`, `retransmit` | each PDU handed over whole, in order, once; an acknowledgement means delivery; retransmission stops only when heard |
| Unprovisioned stack, `Provisionee` (`stack/unprovisioned/mod.rs`, `provisionee.rs`) | state machine with transcript, hash of the last answered PDU, beacon deadline | `process`, `response`, `retransmit` | a repeated PDU gets the same answer; data is taken only from who holds the session key; a commitment binds |
| `Provisioner` (`stack/unprovisioned/provisioner.rs`, the other end) | state machine with transcript | `next`, `response` | Success means provisioned |
| Network layer (`stack/provisioned/network/`) | replay cache (LRU of 100), device info, network keys | `encrypt_network_pdu`, `try_decrypt_network_pdu`, `check`, `local_element_index` | accepted PDUs of a source ascend; a message goes to the elements it is addressed to |
| Lower transport (`stack/provisioned/lower/`) | map of five reassemblies in flight | `process_inbound_cleartext`, outbound `process` | whole, unmixed messages; both ends agree on the format |
| Upper transport (`stack/provisioned/upper/`) | secrets, labels | `encrypt_access`, `decrypt_access` | nonce of the sender = nonce of the receiver; a PDU nobody here can read harms nobody |
| Dispatch, device tasks (`dispatch.rs`, `device/`, `btmesh-macro`) | a channel of capacity one to each device, element and model, one back | `dispatch`, the fan-outs, `send`, `receive` | every message once, in order, to those it is for; nobody waits on everybody |
| Foundation (`models/configuration/`) | none of its own: a copy of the configuration | `BeaconGet`, `CompositionGet` | an answer for each request, to who asked |
| Message models (`btmesh-models`) | none | `opcode`, `emit_parameters`, `parse` of configuration, on-off, battery and sensor messages | what is read is what was sent |
| PDU formats (`btmesh-pdu`), opcodes, addresses, nonces (`btmesh-common`) | none | `emit`, `parse` of provisioning, generic provisioning, advertising, proxy, network and transport PDUs | the same |
| Secrets and keys (`stack/provisioned/secrets/`) | network, application and device keys | look-up by NID and AID | the key that was used is among those tried |
| GATT bearer, nRF driver | hardware | send and receive | - |

How they interact.  Everything runs in one task: components call each other
directly, and interleave only at `await` points.  `select4` polls four futures and
*drops* the three that lose, so `receive()` can be cut short at any of its awaits.
Errors (`?`) travel from any layer up to `run_driver`, which returns: the node stands
still until the next reset.  Configuration flows from flash to `Storage` to the stack
at boot, and from the stack to `Storage` to flash at the end of each turn.  The devices,
the foundation and the application, run beside the driver: `dispatch`, awaited within the
turn, gives a message to one channel after the other; a fan-out per device and per element
passes it on, to every model of every addressed element; models put their answers into
`OUTBOUND`, which the driver polls in `select4`.

Hard behaviours: power cuts between transmitting and storing; torn page writes; lossy,
repeating, reordering radio; dropped futures; timers racing acknowledgements; caches,
maps and channels at their limit; tasks that wait for each other; wrapping counters;
octets that two fields share.  They are listed at their lines under
"hazards" in `PROJECT.json`.

## 2. Modules

| Module | Models | Kind |
|---|---|---|
| `FlashStore` | `should_writeback`, the two hashes, the boot-time advance | operators |
| `DriverStorage` | run loop, storage, stack, sequence, power cuts | state machine |
| `DriverStorageProofs` | its theorems | proofs |
| `ReplayProtection` | IV index choice, replay check, LRU cache | state machine |
| `ReplayProtectionProofs` | its theorems | proofs |
| `LowerSegments` | what peers send: segmented messages, `seq_zero` | operators |
| `Reassembly` | what reassembly promises | abstract specification |
| `InboundSegmentation` | `InboundSegmentation::process` and what becomes of its result | state machine, refines `Reassembly` |
| `InboundSegmentationProofs` | its theorems, the refinement included | proofs |
| `OutboundSegmentation` | cutting, numbering, header packing | state machine, checked against `LowerSegments` |
| `PbAdv` | PB-ADV device side, the unprovisioned stack as far as it answers, a provisioner, a lossy hop | state machine with fairness |
| `PbAdvProofs` | its theorems | proofs |
| `Provisioning` | `Provisionee`, its stack and driver, and sessions of `Provisioner` | state machine with fairness |
| `ProvisioningProofs` | its theorems | proofs |
| `Mailboxes` | what the tasks between driver and models promise | abstract specification |
| `Dispatch` | driver, fan-outs, elements and models over channels of capacity one | state machine with fairness, refines `Mailboxes` |
| `DispatchProofs` | its theorems | proofs |
| `ProvisioningPdus` | PDUs of provisioning, PB-ADV and PB-GATT, octet by octet | operators |
| `NetworkPdus` | network PDU to access message and back: keys, nonces, addresses, metadata | operators |
| `OctetStrings` | octets, slices and bits, as arithmetic | operators |
| `AccessMessages`, `SensorMessages` | the messages of the models, octet by octet | operators |
| `Codecs` | the four modules of PDUs and messages together: what there is to encode, who reads it, and what is read as it was sent | operators |
| `PduProofs` | theorems about every PDU and every message | proofs |
| `Stack` | the composition of `Codecs` with `OutboundSegmentation`: a device from its provisioning on | state machine |
| `StackProofs` | theorems of `OutboundSegmentation` and of `Stack`, over those of `PduProofs` | proofs |
| `MC*` | instances for TLC | |

### FlashStore and DriverStorage

`pc` is where `run_driver` is suspended: `boot` (in `Storage::init`, before the load),
`initPut`, `loop` (top of the loop), `select`, `sending` (PDUs of one payload),
`completing` (the five Complete PDUs), `put`, `stopped`.  `flash`, `latest` and
`config` are the page, `latest_load` and `Storage.config`; `stack` and `sequence` are
the stack with its counter.  A configuration is `[kind, id, seq]`: `id` stands for
everything that is hashed, and is the number of the provisioning (epoch), because keys
and address change only there.  `highWater` is history: per epoch, one more than the
largest number on the air.  `Crash` is possible at every place and drops everything
volatile; a write that is cut short leaves the old page, the new one, or a page that
does not deserialize.  Drawing the numbers of a payload and transmitting its PDUs are
separate steps, as a power cut may fall between any two PDUs.

### ReplayProtection

`order` and `entry` are the LRU cache, most recent first; `Replayed`, `Advanced` and
`FirstHeard` are the three ways through `check`.  PDUs of any source, of both IV
indexes that decrypt, and with any number arrive in any order and any number of times.
`last` and `since` are history: the last PDU let through per source, and who else was
heard since.  The cache stores the index masked to 16 bits; `IvModulus` is that width.

### LowerSegments, Reassembly, InboundSegmentation

A message is `[src, seq, n, tag]`, its segments are `[msg, seg_o]`; what travels of
`seq` is `seq_zero`.  `current` is the map of reassemblies, with the segment stored at
each place, so that bytes of two messages in one reassembly would be visible.
`Refuse`, `Seen`, `Collect`, `Complete` are the outcomes of `process`; `Complete`
includes the metadata taken from the completing segment and the decryption that follows.
`Reassembly` says only: per source a part of one message is collected, and what is
handed up is all of it.

### OutboundSegmentation

Pure packing around one counter: `Emit` and `Parse` are the three header bytes as
arithmetic, `ProcessSegmented` and `ProcessUnsegmented` draw the numbers.  The
reference definition is `LowerSegments`: what a receiver parses must be the segments
the inbound side assumes.

### PbAdv

Device variables carry the names of the code (`link`, `inbound`, `acked`, `segments`,
`outbound`, `outTxn`); `phase` is how many PDUs the stack has accepted, which
determines its `response()`.  One action per outcome of `receive_pb_adv`; `Receive*`
include assembling, acknowledging, `UnprovisionedStack::process` and the transmission
of the answer, which run without another event in between.  `ReceiveCancelled` is
`select4` dropping `receive()` while the acknowledgement is being transmitted.
The provisioner (external) repeats its current frames until acknowledged and answered.
The air: one hop; each kind of device frame is heard any number of times or never
until the next of its kind or a loss; frames of the provisioner arrive in any order,
old ones too, but none after the LinkClose of its link.  `setup` fixes the
circumstances: a second link, cancellations, a second interface, a neighbouring session.
A neighbour's frames carry the same transaction numbers on another link.

### Provisioning

The protocol above the bearers.  `fsm` is the `Provisionee` (`phase` is the variant, the
other fields what its phases carry), `lastAnswered` the PDU whose hash the stack keeps;
`pc` is `run_driver` between two turns, with `completing` for the turn in which
`Provisioned` was returned and the configuration is not yet put.  A `Receive*` action is
a whole turn: `next`, the hash, the replacement of a failed stack and the transmission of
the answer.  `provisioner[p]` is a `Provisioner`; `Moves` is its `next`, by PDU.  Two
sessions draw from one device: after each other over PB-ADV, or at the same time over
PB-ADV and GATT, where every answer goes to both.

Cryptography is symbolic: a shared secret is the unordered pair of public keys, a
confirmation is the tuple of its inputs, `Data` decrypts under the key it was made with;
two different PDUs have different hashes.  What draws from a random generator takes
the next of a numbered stock.  A provisioner's PDUs arrive in order and once, which is
what `PbAdv` shows of its transactions; the device's may get lost, as the five `Complete`s,
merged into one, may.  With one interface two sessions may overlap more than links allow:
a superset of what can happen.  The range of a number for output is left out.

### Mailboxes, Dispatch

`chan` is what each channel towards the models holds, `hand` what each task has received
and whom it has yet to give it to, `model` where each model is, `outbound` the channel
back.  The driver in `dispatch`, the fan-out of a device and the fan-out of an element do
the same, take a message and `Give` it to channels one by one, waiting for room, so they
are one action over `Tasks`; what differs, the list of channels, is `DriverGives`,
`DeviceGives` and `ElementGives`.  `ModelReturns` is the select over an element's models,
which ends with the first that returns and takes its siblings along, while the fan-out,
joined to it, goes on.  A deaf model never calls `receive`, as the button of the example.
`Waiting` is the refinement mapping: what is in the channels and hands on the way to a
model, next first, is its mailbox.

### Stack, Codecs and the four modules of operators

`Stack` follows one device.  `node` is what `Stack::Provisioned` holds, `running` says that
`run_driver` has not returned (and nothing has panicked), `last` what went through a
conversion last and what came of it.  `Provision` sends a provisioning PDU from one side to
the other; `Join` makes the device a node, out of the octets of the provisioning data;
`Hear` is `receive_pdu` of a network PDU, through the network, lower and upper layers, with
an error ending the driver; `Answer` and `FoundationAnswers` are `process_outbound_payload`,
which draws its numbers and cuts its PDUs by the actions of `OutboundSegmentation`; `Ask`
gives a request to the model that parses it; `SaySomething` moves the counter on between
them.  The properties are round trips across the whole way: from a message of a model
through opcode, parameters, upper, lower and network layer to what a peer running the same
code makes of it.

A parse returns `<<m>>` or `<<>>`: the models' loop drops what is not parsed, error or not.
A slice past the end is a panic and is told apart.  Encryption is symbolic, with nonces
field by field, so that a PDU is opened exactly under the key and nonce it was sealed with.
The hash of a label, the NID and AID of a key and the logarithm of a period are CONSTANTS:
any function will do.

`Codecs` says what the types of the code admit (`IsPdu`, `IsMessage`, `IsRequest`) and, by
predicates on the fields, what comes through: `Readable` for a PDU of provisioning, `Survives`
and `Kept` for a message.  The properties of `Stack` are equivalences with these predicates, not
implications: each names exactly the values that are lost.

## 3. Runs

| Run | Question | Bounds and why they are enough |
|---|---|---|
| `storage_real` | with the literals of the code, what does a power cut in mid-turn cost, and is a node used before it is durable? | threshold 100 (as in the example application); payloads of one PDU, of two, of the eight that the largest status has, and of the 32 that the `Vec` holds; counter up to 1650: eight write cycles and several boots from 800 |
| `storage_scaled` | what holds if the reserve is too small, reads fail, and the node is provisioned again? | everything divided by twenty; payloads up to four of a threshold of five, so that multiples are jumped over and the overlap really occurs; two epochs |
| `replay` | do accepted PDUs ascend? | four sources for a cache of three, so that eviction happens; both IV indexes; three numbers; sources are symmetric |
| `reassembly` | are messages whole and unmixed; when does a reassembly stop? | three sources for two places, messages of one to four segments, two messages of one source |
| `already_seen` | does "already seen" mean seen? (violated) | one message of three segments |
| `outbound` | does a peer get what was meant, from provisioning PDU to answer? | lengths at each boundary (15/16, 24/25, 96/97, 380), counters around 2^13 and 2^16; every kind of PDU and message, with a value or two on either side of each boundary of its fields; three provisionings (IV index 5; 1, where nothing can be subtracted; and one of several octets, with a primary address that leaves the second element none); frames under the own key, one with the same NID and one with another, of four IV indexes, to every kind of address; five declared elements for a composition of four |
| `outbound_long` | does a message of nine segments arrive? (violated) | 97 and 108 bytes |
| `pbadv` | whole PDUs, in order, once; do acknowledgements mean delivery; what of a second link? | four transactions of one, one, three and two segments (the shapes of Invite, Start, PublicKey, Data); a timer retransmission before and after each answer |
| `pbadv_live` | does provisioning complete? | the same transactions, transaction numbers wrapping within six, the timer unbounded |
| `provisioning` | who may provision the device, and does it end? | two sessions; five circumstances: one session repeating and losing PDUs, the same with faults and an odd PDU, two after each other, two at once with repeats, two at once with faults; four draws: two keys and two randoms, or a redrawn one; a timer fires when fewer than one to three PDUs are on the way |
| `dispatch` | does every message reach its models, and does the driver ever get out? | foundation with one element, application with an empty element and one of two models; a message to the second element and one to all; no bound on the number of messages, except that one to all is on its way at a time (`Marked`), enough to follow one message and to fill every channel; the button deaf or not, the lamp returning at any time |
| `pbadv_neighbour` | does a TransactionAck mean they heard us? (violated) | one neighbouring session |

`CHECK_DEADLOCK FALSE` where the system may stop: the driver ends on an error
(storage, PB-ADV), is provisioned, its tasks all wait (dispatch), or the bound on the
counter is reached (outbound).

What the runs show, beyond "no error":

* A power cut while a payload is on its way does lead to numbers sent twice, with the
  literals of the code.  `CutsAreCovered` says how many: the next start, computed from the
  page, lies above everything that was on the air before the turn, and above the interrupted
  payload but for what it has on the air beyond two PDUs.  Of an answer of eight segments that
  is six numbers, of the 32 a payload can have it is thirty; payloads of one and two PDUs
  repeat nothing.  The reason is the rounding: of the reserve of 200 only 101 are certain, so
  nothing is repeated exactly if `Threshold + payload + Align <= Reserve + 2`; the largest
  payload would need a reserve of 230.  The bound is tight: it fails with one number less.
* `ReuseBounded` is the same seen from the boot that follows, whatever the literals, with
  failing reads and a second provisioning.  When the first read of the page fails and the
  second succeeds, the advance is skipped; the overlap is then below threshold plus payload
  (`RetryOverlapBounded`).
* `OnlySingleSegmentAccess`: an access message of several segments is never decrypted,
  because its metadata carries the number of the segment that completed it; the failure
  ends the driver.
* `LastSegmentFreezes`: once the last segment is in, an incomplete reassembly never
  changes again and keeps its place in the map.
* `SecondLinkStuck`: the acknowledged transaction number survives a LinkClose, so a
  second attempt never gets past its first transaction without a reset.
* `provisioning`: sessions at once spoil each other, but never make the device take data
  under a key both sides have not computed (`Agreement`), and never take it out of a
  session whose random it has accepted (`NotDisplaced`).  `Success` is real unless power
  or flash fails between `Complete` and the put (`SuccessIsReal`): there is no
  acknowledgement of the store.  A wayward PDU takes the place of the last hash, so a
  repeated Confirmation after it is answered with a new random; the commitment follows
  (`RevealOpensCommitment`).  A session the device has failed is not told, and a Start
  asking for letters, or Data that does not decrypt, ends the driver.

* `dispatch`: the channels do implement mailboxes (`Delivers`), but the driver waits in
  `dispatch` for models, and models wait in `send` for the driver.  `StuckHasCause` says
  when that closes: never before four messages wait for one model that does not receive,
  because it is deaf, gone, or has an answer while `OUTBOUND` is full.  The example's button
  is deaf: the node stops at the sixth message.  Answers leave only when no PDU waits, so
  `QuietDrains` needs a radio that falls silent.
* `outbound`, what is heard (`Understood`): a message on the own network that no own key
  opens, a neighbour's for instance, is an error that ends the driver; a message to an
  element 256 addresses on is taken for one to the node; what the node said is dispatched to
  it when it is relayed back, as nobody reads the replay verdict.
* `outbound`, what is said (`AnswerReachesAsker`, `ReadsBack`): an answer is opened by a
  peer if it fits one PDU and its element has a unicast address, which nothing ensures; sensor statuses, with opcodes above 0x3f, arrive as other
  messages; an element beyond the fourth ends the driver with its first answer.  Statuses
  are written by nodes and read by no model here, so `StatusTellsApart` asks whether their
  octets determine what they are about: tolerances share bits.
* `outbound`, what is asked (`RequestsAreRead`): the configuration server reads every request
  about keys, publications and subscriptions that has the format of the mesh, except the one
  that adds a subscription to an address: its model is looked for nine octets in, past the
  end, and the device halts.  It then does nothing with what it has read: it answers beacon
  and composition requests only (`models/configuration/mod.rs:36-47`).
* `outbound`, provisioning (`ProvisioningReadsBack`): a Start with an out-of-band action, a
  size of eight digits (which the comment at `btmesh-pdu/src/provisioning/mod.rs:637`
  allows), LinkOpen and LinkClose of this code are not read back.

Findings (three): `already_seen` is asked about `seg_n`; `emit` shifts `seg_o` by two
instead of three, so a ninth segment is announced as another; a TransactionAck is
matched without its `link_id`.

### Fairness

`pbadv_live`, `provisioning` and `dispatch` assume some.  In `pbadv_live`, weak fairness: the provisioner opens its link, repeats
LinkOpen and every frame of its current transaction, and goes on when it has what it
waits for; the device's one-second timer fires (it is created anew in each turn, and on a
quiet air turns come only from the timer itself and from whole PDUs).  Strong fairness:
of what the device transmits again and again, some is heard.  Nothing is assumed of a
frame that is transmitted once, and none of cancellation, which is switched off: a PDU
lost to a cancellation after its acknowledgement was heard is never sent again.

In `provisioning`, weak fairness of `Begin` (a provisioner that starts), `Receive` (the
loop awaits the bearers in every turn), `Retransmit` (the one-second timer) and `Finish`
(the turn goes on); strong fairness of `Hears`, as of what is transmitted again and again
some is heard.  `ProvisioningCompletes` says this is enough for one undisturbed session.

In `dispatch`, weak fairness of every step of a fan-out, of `Give`, of `ModelReceives` and
`ModelSends`, and of `DriverTransmits`: one executor polls the futures of the driver and of
the devices whenever their wakers fire, and a channel wakes who waits for it.  Weak fairness
of `DriverTransmits` means an outbound payload is taken if the driver stays at `select4`;
`select4` polls `receive` first, so nothing stronger can be assumed while PDUs keep coming.
Nothing is assumed of the radio, and nobody has to return.

## 4. Proofs

TLAPS checks, for all values of the constants that satisfy the named assumptions:

* `DriverStorageProofs`: `IndInv` is inductive.  It has one conjunct per place of
  `run_driver`; the heart is `Follows`: in a running epoch the next number lies between
  the page and the page plus a lag, and, after an advance, at most `MaxOverlap` below
  the high-water mark; `PageInv` bounds the mark by the page plus `Slack`.  Neither
  bound is inductive without the other, nor without knowing what `latest` mirrors.  `CoverInv`,
  over it, adds that until the put `Storage` still holds the number the turn began with.
  From it: `TypeCorrect`, `OverlapIsBounded`, `CutsAlwaysCovered` (if
  `MaxOverlap + Align <= Reserve + 1`, as with the literals of the code: 30 + 100 <= 201),
  `SequenceNeverReused` (if `Threshold + MaxPerTurn + Align <= Reserve + 2`, which the code's
  `MaxPerTurn` of 32 does not meet: it says what a reserve would have to be), `RetryOverlapIsBounded`,
  `InUseAlwaysDurable`, `StorageAlwaysMirrors`, `PageNeverGoesBack`.
* `ReplayProtectionProofs`: `ReplayInv` (no source twice, everyone ahead of an entry was
  heard since, hence who is not cached was followed by `CacheSize` others);
  `AcceptedPdusAscend` under `IvIndex % IvModulus # 0`: at a wrap of the mask the
  previous index compares as newer, which the run leaves out as well.
* `InboundSegmentationProofs`: `SegmentationInv` (an entry is a part of exactly one
  message) under `SeqZeroTellsApart`; from it the refinement of `Reassembly`, and the
  two properties of the last segment.
* `ProvisioningProofs`: `ProvisioningInv`, from which `Agreement`, `RevealOpensCommitment`
  and `NotDisplaced` follow for any number of sessions and draws.  `Agreement` is not
  inductive: it needs that every `Data` on its way, or kept by a session to be sent
  again, was made with the key the session still has (`Genuine`), and that a session
  which has sent `Data` does not change what its key is made of (`Stays`).  For the
  commitment: in `Authentication` the remembered confirmation is zeros, which opens
  nothing, or it was answered with the commitment that still stands (`Committing`).
  `SuccessIsReal` needs a second invariant, `SuccessInv`, as every session hears every
  answer of the device: a commitment on the air is about a random the device has drawn
  and, if it still has it, the secret it still has (`Sealed`); a random is on the air only
  from a device that shows it, or has stopped; so a session that has opened a commitment
  shares the secret of the device, a secret holds the session's own key, and `Agreement`
  says whose data the device has taken.

* `DispatchProofs`: for every composition in which each model has one place.  `TypeOK` is
  inductive as it stands: what a task has left to do is the rest of its list of channels,
  none of them named twice.  `StuckHasCause` follows from it without induction on the
  steps: a driver that cannot send and a model that is not served leave a way of full
  channels and full hands between them.  `AlwaysDelivers` is the refinement of
  `Mailboxes`: the mailbox of a model is a line of six places, of which the driver fills
  the last, the model empties the first, and every other step moves one message to the
  next place, which is free, or touches none.

* `PbAdvProofs`: `TypeOK` for any window, number space and set of setups, links of
  neighbours included, and three invariants over it.  `OrderInv` ties the stack to the
  link: what came before the phase of the stack is acknowledged and nothing else, the
  transaction number last seen is none or that of the phase, and a provisioner is at most
  one PDU ahead, in which case the device is still collecting.  The exception is a link
  that replaced one the stack had accepted something on (`Stuck`), which never gets
  anywhere.  `InTurn`, `AckedIsDelivered` and `SecondLinkStuck` follow.  `SegmentsInv`
  (the reassembly holds segments of the transaction of the phase) gives
  `WholeTransactions` if the Invite has one segment, as it has.  `NumbersInv` (the numbers
  drawn are bounded by the phase, and an acknowledgement of the number in use says the
  provisioner has heard that transaction) gives `HeardUs` as long as no number is drawn
  twice (`NoNumberTwice`).

* `PduProofs`, the network: all layers of one PDU, for every node, key, address, number and
  IV index, and whatever `Nid` and `AidOf` are.  `ReadByItsNetwork`: who has the key of a PDU,
  and accepts its IV index, reads it, keys of the same NID or not, and nobody else does; one
  bit is enough for the two IV indices that are accepted.  `DispatchedAsSealed`: what a node
  dispatches was sealed for the source, destination and number with which it came.
  `AnswerReturns`: the metadata that comes with a message leads its answer back to the element
  that has asked.  The ciphers are symbolic: what is sealed opens under the same key and
  nonce, and under no other.

* `PduProofs`, the codecs: for every value of every field.  `PdusReadBack`: every PDU of
  provisioning, and of the link under it, is read as it was sent exactly if it is `Readable`.
  `MessagesReadBack`: the same of the messages of all models, with `Survives` and `Kept`, for
  all the sensors a device may have.  `TolerancesTold` and `HeadersTold`: in what ranges two
  sensors cannot be mistaken for each other.  The argument is the same for each codec: what
  is emitted is a string of known length whose octets are known (`IsString`, `Joined`), what
  is parsed is a slice of it, an octet pair is the number it was made of, and two messages
  differ where a field is not kept.  That no *other* model reads a message is read off the
  numbers of the opcodes (`Code`): every reader answers to codes of its own, and what is left
  of a sensor's one-octet opcode when its seventh bit is lost is nobody's.

* `StackProofs`: the header of segments 0 to 7 comes back, that of a ninth does not, so
  `EightIsTheLimit` holds for every length and every start of the counter.  For the device as
  a whole, `StackCoherent` is the inductive invariant: none of the properties is inductive, as
  each speaks of `last`, of `node` and of `wire` together, and they change at different
  times.  `Coherent` says the node is one that some provisioning made (`IsJoined`); the wire
  holds the last message as it was cut (`Cut`), and if something was said, in one PDU or in
  all of its segments (`SaidSo`, `Sent`); what is remembered of a PDU, a frame or a request
  is what the code makes of it at that node (`Presented`, `HeardSo`, `AskedSo`); an answer
  goes by the metadata of a frame that came, from an address of an element the device has
  (`SaidSo`), or the driver has ended (`UnsentSo`).  TLC checked it as an invariant of
  `outbound` before it was proved.  From it and `PduProofs` follow all the invariants of the
  run: `ProvisioningIsRead`, `FramesAreUnderstood`, `AnswersReachAskers`, `MessagesAreRead`,
  `CompositionsFit`, `StatusesTellApart`, `RequestsRead` and `DeviceParsesUpToEight`, for
  every set of PDUs, frames, requests and messages.

What the theorems of `Stack` assume is `StackAssumption`, which says what can be on the air and
in the program: PDUs, frames and messages have the types of the code (a key has sixteen octets,
an address sixteen bits, a source is below 0x8000 and may be zero, as in `UnicastAddress`); the
device declares at least one element, and its models are of elements it declares; a message fits
the buffer of 380 octets; requests are in the format of the mesh.  Of the primary address it
says only what `ProvisioningData::parse` requires: it may be zero, and it may leave no room for
the elements, in which case `AnswersReachAskers` says which answers are lost.

Only model-checked: the four liveness properties, `ProvisioningCompletes` of `pbadv_live` and of
`provisioning`, `DispatchEnds` and `QuietDrains`, as liveness under fairness is out of the
prover's reach; and that the findings occur.  Of the properties of passing runs nothing else is.

## 5. Not modelled, and the plan

What would come next:

1. What the proofs of `PbAdv` and `Provisioning` assume of each other: that transactions in
   order and once are what the provisioning protocol sees, as a refinement between the two.
2. Composition of `DriverStorage`, `Stack` and `Dispatch`: a power cut between an answer and
   the put, seen from a model.
3. What the code does not do yet, when it does: block acknowledgements of the lower
   transport, relaying, publication, a configuration server that changes anything.

Left out, and why:

* Cryptography is symbolic: a PDU opens under the key and nonce it was sealed with; hashes
  of labels and keys are unknown functions.
* The nRF radio and flash drivers and the GATT bearer are hardware access.  The only effect
  of the bearer on the driver, that its `transmit` loses errors, is a setup of `PbAdv`.
* Code nothing reaches: `Storage::modify`, which would wait for a lock it holds; encryption
  under an application key; `NetworkTransmit::parse`; the relay messages, behind a feature
  no crate declares; opcodes of AppKey Delete and Update and of PublicationGet, which no
  `parse` knows; `transmit_queue`, which stores nothing.
* `publish` and the `emit_parameters` that are `todo!()`: such messages are only parsed.
* A page is written over the one before without an erase (`storage/flash.rs:73`), and has no
  checksum.  The model takes a completed write to leave what was written, and one that is cut
  short to leave the old page, the new one or one that does not deserialize: not a mixture
  that does, nor the conjunction of the two that flash memory would hold if `write` does not
  erase.
* The sequence number beyond 24 bits, and a last segment number of 31, which indexes past
  the buffer of 380 bytes: hazards without a property, as nothing in the code handles them.
* The foundation's configuration is rebuilt with defaults at the end of each turn; as the
  server only reads, nothing shows.
* `send_beacon` and its timer; expansion of the device macros; the sample application,
  apart from its two models.
