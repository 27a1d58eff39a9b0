# A verification of the Dragon Q6A device software

TLA+ specifications of the programs that the `dragon_q6a` device tree contributes
itself, the TLC runs that check them on small instances, and the theorems about
them that TLAPS proves for all instances. All paths are relative to
`src/device/glodroid/dragon_q6a/` unless they start with `src/`.

## The system

Most of the tree is build data (make files, kernel modules, firmware, overlays).
Its own programs are:

| Component | Code | State | Operations | Hard behaviour |
|---|---|---|---|---|
| QRTR name server | `qrtr/src/ns.c` | registry node/port -> server, list of lookups, control socket | eight control commands, greeting at start, exit and restart | FIFO of packets from many senders; sockets closing with packets queued; ports re-used; links lost; restart with empty maps |
| Hash map | `qrtr/src/map.c`, `hash.c` | slots with items, tombstones, counter | put, re-put, get, remove, rehash, clear, iterate | long sequences of puts and removals; wrap-around; who frees what |
| Event loop | `qrtr/src/waiter.c`, `list.h` | list of tickets, count, poll set | add, set, delete, clear, synchronize, wait, wait with timeout | poll set growth; timeouts racing descriptors; starvation |
| libqrtr | `qrtr/lib/qrtr.c` | a socket | publish, bye, lookups, decode | which fields of a packet are filled in |
| QMI codec | `qrtr/lib/qmi.c` | the position in a packet, a carried length | encode, decode, minimal length | nested and variable-length elements, optional elements one side does not know, the end of the buffer, lengths of one and two bytes |
| qrtr-lookup | `qrtr/src/lookup.c` | socket, lines printed | ask, read, time out | packets for an earlier run on the same port; the name server exiting with the request unread |
| qrtr-cfg, qrtr.py | `qrtr/src/cfg.c`, `addr.c`, `qrtr.py` | none | one request each | none |
| Wi-Fi adapter notifier | `apps/WifiAdapterNotifier` | handler queue, `mPresent`, `mRevertPending`, notifications, `wifi.interface` | poll, activate, revert, service start | polls that throw; hot-plug at any moment; the process dying; taps racing polls |
| ScreenRotate | `apps/ScreenRotate` | none (the framework's rotation) | read, set, cycle | two calls that are not atomic |
| Health HAL | `health/main.cpp` | none | fills in a report | none |
| init scripts, image scripts | `*.rc`, `gensdimg-uefi.sh`, `src/scripts` | none | straight-line commands | module order, a wait with a timeout |

Interactions. A socket publishes a service by a NEW_SERVER packet to the name
server's control socket (`lib/qrtr.c`); the name server enters it in its map of
maps, broadcasts it to the name servers of other nodes and notifies the local
sockets that asked for it, `qrtr-lookup` among them. The kernel reports closed sockets
(DEL_CLIENT) and lost nodes (BYE) on the same socket. Clients and servers exchange QMI
messages, which `qmi.c` makes from C structures and back. `waiter.c` calls `ctrl_port_fn` whenever a
packet waits. The Wi-Fi notifier is independent of all this: its poll, running on
one handler thread, compares `/sys/class/net` with what it saw before; the button
of a notification posts a switch to the same thread.

What makes each correct: the map is a dictionary that leaks and dangles nothing;
the registry follows what the owners of addresses last asked for; observers and
remote name servers are told exactly what is registered; a listing is a snapshot of
the registry and always ends; what a QMI receiver decodes is what was sent, in every
element it knows; the poll set is large enough and due timers are served; there is one poll loop, offers follow the
adapters and Wi-Fi ends on an interface that exists.

## Modules

- `Dictionary` is the abstract specification of a map with heap-allocated values.
- `ServerMap` is `map.c` as `ns.c` drives it. A table is `[size, count, item]`, one
  operator per function (`HashStep` = `map_hash`, `Store` = the store of
  `map_reput`, `Rehash`, `FindStep` = `map_find`, `MapRemove`, `MapClear`); `heap`
  is what has been allocated and not freed. Actions are `server_add`,
  `server_del`, the deleting loop of `ctrl_cmd_bye` and `map_clear`. `renewed`
  are the keys a program puts also while they are present: `server_add` re-puts any
  port, `node_get` puts only absent nodes. For a program that re-puts only keys with a
  slot of their own (`Careful`) it is shown to implement `Dictionary`
  (`AsDictionary`), with `dict[k]` mapped to `MapGet(table, k)`.
- `NameServer` is `ns.c` and its world. `servers`, `lookups` and `inbox` are the
  program's state; `open`, `up`, `want`, `owes` are the sockets, links, the wish
  of each address's owner and the announcements that a greeting still brings;
  `told`, `announced`, `sessions` are what readers make of the packets it sends.
  One action per control command (`Hello` ... `DelLookup`, `Ignored`), `Restart`,
  and one per event of the environment.
- `LookupClient` composes `NameServer` with runs of `qrtr-lookup`. What `NameServer` keeps
  as knowledge (`told`) becomes here a queue of packets, `mail`: `Answer` is the reply to
  NEW_LOOKUP up to its end marker, `News` and `Departures` are the notifications,
  delivered in the same step as the handler that sends them. The program's own steps
  are `Begin`, `Ask`, `AskFails`, `ReadPacket`, `Timeout`, `Exit`.
- `NameServerNet` puts nodes that each run `ns.c` next to one another, where `NameServer`
  takes the remote side from what `ns.c` needs of it. `registry[n]`, `lookups[n]` and
  `inbox[n]` are the state of node `n`; the packets, the tests and the notifications
  come from an instance of `NameServer` per node (`NS(n)`), whose invariants are checked again in
  this company. Besides the handlers there are `Start` and `Stop` of a name server and the
  kernel's direct report of a closed socket to all nodes. `forgot` are the servers a
  restart lost at their own node: if they are withdrawn then, no other node hears of
  it, so `PeersAgree` speaks of the others.
- `QmiCodec` is `qmi.c`: operators over descriptors (`struct qmi_elem_info` arrays) for
  `qmi_encode`, `qmi_decode`, their helpers and `qmi_calc_min_msg_len`. One turn of a loop is an
  operator (`EncodeElem`, `DecodeTurn`, `CountElem`), the loop a recursive function of the
  number of turns (`EncodeLoop`, `DecodeLoop`, `CountLoop`). Where `qmi.c` calls itself for a
  nested structure the operator has a parameter `nested`, a function; `Encoder[level]`,
  `Decoder[level]` and `MinLen[level]` are these functions, each made of the one a level deeper.
- `QmiExchange` sends one packet at a time with it: `qmi_encode_message` with or
  without a structure, `qrtr_decode` of data and control packets,
  `qmi_decode_header`, `qmi_decode_message` by a receiver that may know fewer
  optional elements. The control packets are those of `qrtr_publish`.
- `NameServerProofs` proves type correctness, `OnlyOwnerWrites` and
  `RegistryFollows` of `NameServer`, and from them what observers, remote nodes and local
  servers are told.
- `ServerMapProofs` proves the invariants of `ServerMap` and its refinement of `Dictionary`;
  `NameServerNetProofs` the invariants of the network of name servers; `LookupClientProofs`
  those of `qrtr-lookup`, and that next to it all of `NameServer`'s results hold;
  `QmiExchangeProofs` that what `qmi.c` decodes is what it encoded.
- `ListLemmas` holds the facts about numbers and lists that the proofs share.
- `Waiter` is `waiter.c`: `tickets` is the list, `ticket` the fields of each one,
  times are kept as ages, `waiting` says that the temporary ticket of
  `waiter_wait_timeout` is listed. `Wait` is a whole `waiter_wait`; `Unlinked` is
  `list_remove` of `list.h`.
- `WaiterProofs` proves that the list of tickets and its counter agree, that the poll
  set never overflows and that `waiter_synchronize` does what it is for.
- `AdapterMonitor` is the service of the Wi-Fi notifier: `queue` and `delayed` are
  the handler's messages, `pc` is where a task is between the calls that other
  parties can see (scan, notify, revert, switch, the gap of `cycleWifi`), `present` and
  `pending` are `mPresent` and `mRevertPending`. While `troubled`, calls of the system
  may fail: a scan misses adapters (`findDongleIfaces` returns what it could read),
  either loop over the notifications throws part of the way (`PollFails`), reading or
  writing `wifi.interface` throws (`RevertFails`), there is no `WifiManager` or
  one of its calls throws (`CycleFails`). The poll catches all of this; a switch
  catches nothing, so what throws there is a `Crash`. `StartMonitor` needs a service that does
  not exist: boot is announced once and a sticky restart follows a death, so no
  start meets a running loop.
- `AdapterMonitorProofs` proves the invariants of `AdapterMonitor`, that only the
  death of the process ends the poll loop and that only a failing call parts
  `mPresent` from what is displayed.
- `MC*` modules hold the constants of the runs.

Operators that no action uses (`MapRemoveNoTombstone`, `GenuineAny`, `RepostTwice`
and the like, each just before the operator it resembles) are plausible mistakes:
replacing the original by one of them makes the property it belongs to fail,
which shows that the property says something of the code.

## Abstractions

- Map keys are small naturals; only `key % size` matters, and `hash_u32` is
  injective. The map grows by 3 slots instead of 256.
- `LookupClient`: the runs follow one another on one port (the kernel hands out free
  ports in order), used by nothing else. The name server waits while the client has
  `MaxMail` packets to read; a run that has left its loop reads nothing more. `printed`
  is a set: printing a line twice is not told apart.
- `QmiCodec`: a byte holds 4 values, so that one-byte counts end at 3 and 16-bit lengths
  wrap at 16 bytes. Integers are their bytes; arrays hold only the elements in use.
  Descriptors are those the interface documents (`LegalMessage`, `LegalNested`): a flag opens an
  optional TLV, a length is followed by its array and can count it, nested strings are not of the
  one length (256) at which encoder and `elem_len` differ about the prefix. `Levels` bounds the
  nesting, which in C is finite because descriptors are static data; `Descriptors[level]` and
  `Structures[level]` are what occurs nested at a level, any sets of legal descriptors and of
  structures that fit them (`DescriptorsLegal`).
  `qmi_encode` compares a nested string with room from which the header of its TLV is
  not yet taken; senders of such strings get plenty of room. Receivers zero the
  structure first. No descriptor has an array of 256 elements before a length of one byte:
  `qmi_decode` (`qmi.c:686`) copies that byte into a `data_len_value` whose upper bytes still hold
  the earlier length (`LegalElem` asks for just that of arrays before a length). Packets come from `qmi.c` itself: rejecting malformed ones
  is not modelled, nor are control packets shorter than their structure.
- `NameServer` uses a function for the registry. `ServerMap` says when that is
  right: as long as `IsDictionary` holds. `map_ghost` shows how it can fail, so
  the results about `NameServer` are about a registry without that defect.
- Lookups are a set. The answer to NEW_LOOKUP is a snapshot up to the end marker;
  a client replaces by it what it knew of the services it asked for.
- The control queue is FIFO and reliable (a local datagram queue); a send fails
  only towards a closed port, where nobody misses it. A remote name server
  answers a greeting by its announcements. Two `ns.c`, which answer each other's
  HELLO for ever, are `NameServerNet`.
- `NameServerNet`: links stay up and observers withdraw by closing (`NameServer` has links and
  DEL_LOOKUP), so a BYE does not occur. A sent packet is queued at the receiver at once: only the order
  per sender matters to an entry. Requests fail while the own name server is down.
- `Waiter`: allocations succeed, callbacks read one packet and clear their ticket
  as `ctrl_port_fn` does, the clock does not go back, and intervals are positive.
- `QmiExchange`: version and instance of a control packet are put together as numbers, with
  `|` where a version is longer than its byte. `TakeLen` stores a length as one value,
  where the code writes four bytes whatever the size of the field.
- `AdapterMonitor`: an adapter is a `wlan` interface with a known driver. Which
  drivers are known and what notifications say is left out. Failures are over at some
  moment (`Settles`) and may be any before. Both ids of a
  notification are assumed distinct for distinct interfaces.

## Runs

| Run | Shows | Instance |
|---|---|---|
| `map` | the counter is exact, every item can be found, nothing dangles; when keys that collide are put only while absent, `map.c` implements a dictionary (`IsDictionary`) | 3 keys, two collide and one probe sequence wraps; 4 objects; sizes 0, 3, 6; every key re-put, or only the one with its own slot |
| `map_ghost` | **violation**: after a re-put past a tombstone `server_del` leaves a server | as above |
| `ns_system` | the registry follows the owners; lookups belong to open sockets; observers are told all (`ToldComplete`) and only (`ToldCurrent`) what is registered; linked nodes hold our servers exactly; no session outlives its client; only owners write | 2 nodes, 2 ports, one service per server, three kinds of lookup, seven misaddressed packets, two packets queued |
| `ns_replace` | **violation**: replacing a server is not announced to observers of the old one | 1 node, one socket with two services |
| `ns_net` | two nodes with `ns.c`, started and stopped in any order: registries agree up to what is queued (`PeersAgree`); greetings do not multiply: at most one to each other node for each start (`GreetingsBounded`); lookups belong to open sockets and observers miss nothing (`ObserversServed`); what one node keeps registered the observers at the other are told (`EventuallyTold`) | 2 nodes, a socket with two services at one, an observer at the other; 4 starts, stops at any moment; sockets send while no queue holds two |
| `ns_restart` | the same of the registry when the name server may exit and restart at any moment; servers that stay published become known to observers that stay (`EventuallyTold`), unless the restart forgot either | the same without strays and clients, two kinds of lookup |
| `lookup` | what `qrtr-lookup` prints was registered while it ran, also when packets of the run before arrive (`ListedWasRegistered`); a run that starts clean and is answered prints one moment's registry (`ExactWhenFresh`); every run ends (`LookupEnds`) | a remote server that changes between two services, any number of runs with two kinds of request, four misaddressed packets, restarts of the name server, two packets queued each way |
| `qmi` | every message that can be encoded arrives as it was sent, in what the receiver knows (`ReceivedIsSent`); the bounds checks are exact, except for strings in nested structures, which are only sent with plenty of room (`RoomExact`); a missing structure passes where everything is optional (`NullIsOptional`); version and instance survive the control packet (`PublishedIsSeen`) | seven descriptors with all their structures, sixteen buffer sizes, three sets of unknown elements |
| `monitor` | one poll at a time; an adapter that `mPresent` does not hold is offered (`OffersAppear`), one that it holds is withdrawn when it goes (`OffersWithdrawn`), also when polls fail in between; once failures are over, a revert not blocked happens (`GuardedRevert`) | 2 adapters, failures of every call for a time, crashes; a tap is delivered to an empty queue |
| `monitor_stranded` | **violation**: an adapter activated while `mRevertPending` is set is never given up | 2 adapters |
| `monitor_loop_lost` | **violation**: after a crash a tap revives the service without its poll | 1 adapter |
| `waiter` | poll set fits, synchronized timers stay together, due timers are served, a wait with a timeout returns | 3 tickets, growth at every second one, one descriptor, one interval |

The bounds are enough for the interesting cases: two colliding keys with a third
one in their way are what tombstones are about, and a second rehash only repeats
the first; two ports and two nodes make every pair of (local, remote) and (server,
client) roles, and two queued packets about one address are what the ordering
properties tell apart (the proof covers any number); four starts let two name servers
greet each other in any order and each of them lose its registry; one port for all runs of
`qrtr-lookup` is the worst case for stale packets, and two packets of mail hold an answer
with its end marker; the descriptors cover each kind of element and array, nesting of three, the
optional ones first, last and alone, and the buffer sizes every boundary up to their
longest messages; two adapters let one be
activated while the other is being given up, and a tap that waits for an empty queue runs when
it would have run behind the task there; three tickets put one between two
alike, and with a step of two make the poll set grow twice.

The `map` and `map_ghost` runs switch deadlock checking off: when every object is allocated and
every key deleted the driver may have nothing to do. Nothing else may stop.

Fairness. `NameServer!FairSpec`: the loop of `main` handles a queued packet (weak), and a
greeted node announces its servers (strong: its packet needs room in the queue, whose
bound in the model may make it wait while others send). `NameServerNet!FairSpec`: every name
server's event loop handles a queued packet (weak). `LookupClient!FairClientSpec`: the
name server handles packets, the client sends its request or fails to, and reads or times out (weak); its
end, whose packet needs room in the queue, happens (strong). `AdapterMonitor!FairSpec`: the system starts
the service, the looper runs its tasks, delays run out, broadcasts arrive (weak), and
calls do not fail for ever (weak, `Settles`), which the code
itself takes for transient (`AdapterMonitorService.java:126`). `Waiter!FairSpec`: the program
calls `waiter_wait` again, and time passes.

## What the violations show

- `map_hash` (`map.c:77`) stops at the first tombstone, so a key can be stored
  twice; `server_del` removes one copy, the other one becomes visible again.
  `ns.c:414` says "Remove the server belonging to this port".
- `server_add` (`ns.c:277`) frees a replaced server silently, unlike
  `server_del`, which does "Announce the service's disappearance to observers".
- `mRevertPending` (`AdapterMonitorService.java:157`) is cleared only by a poll that finds
  `wifi.interface` in order. A tap on a stale notification served before that poll
  leaves Wi-Fi on a missing interface; `src/README.md:67` promises the onboard radio.
- `onStartCommand` (`AdapterMonitorService.java:66`) trusts that the poll loop is
  "already running" (`:71`), which is not so when the tap re-created the process.

Failures of single calls lose more, and the properties of the `monitor` run are worded around it:

- The `catch` of the poll (`AdapterMonitorService.java:125`) skips the update of `mPresent`. When the
  cancelling loop (`:119-121`) throws, an adapter whose notification was cancelled stays
  in `mPresent`, and plugged in again before the next poll it is never offered, although
  the service "re-notifies on re-insertion" (`:29`). `OffersAppear` is therefore about adapters that
  `mPresent` does not hold, and `PresentAreNotified` is proved for calls that do not fail. When the
  showing loop throws, an adapter that goes before the next poll keeps its notification.
- `mRevertPending` is set (`:158`) before `wifi.interface` is written (`:97`). When that throws,
  the interface stays stale and nothing retries. `GuardedRevert` starts when failures are over.
- `setWifiEnabled(true)` (`:108`) that throws in a revert leaves Wi-Fi off in a process
  that lives on, as does a death in the gap. Nothing in the code brings it back.

## Proofs

`NameServerProofs` assumes `NameServerConstants` only: any nodes, ports, offers,
lookups, queue bound, with or without restarts, and any misaddressed packets that
do not forge the node they come from.

- `TypeCorrect`: `Spec => []TypeOK`. `TypeOK` includes that announcements are owed
  only by linked nodes for servers they want.
- `OnlyOwner`: `Spec => OnlyOwnerWrites`, from `TypeOK` and the guards of each
  handler.
- `RegistryAgrees`: `Spec => []RegistryFollows`. `RegistryFollows` alone is not
  inductive: the inductive invariant adds `TypeOK` and facts about the world
  (`World`: what is wanted is wanted by an open socket of a linked node). For every
  address either the last queued packet that affects it leaves what its owner wants
  (`LastWord`), or none is queued and the entry is settled (`Quiet`, `Settled`).
  Lemmas on taking the head packet (`Pop`) and on queueing a packet that is about
  the address (`PushAbout`) or is not (`PushOther`) carry it through every action,
  `HandleEffect` says what each handler leaves in the registry.

The second half of the module starts from the same assumptions and that invariant.

- `LookupsBelong`: `Spec => []LookupsOwned`. A lookup can be queued when its socket closes,
  so the invariant (`Forsaken`) also speaks of the queue: behind every request of a closed
  socket, and for every lookup it already has, stands a report of the close. A
  re-opened socket's own requests come behind that report.
- `ToldOfAll`: `Spec => []ToldComplete`, by `Forsaken`: a lookup found in the list is of the
  socket that is open now or is going to be removed.
- `ToldOfEnds`: `OneOffer` implies `Spec => []ToldCurrent`. `OneOffer` says that no socket
  changes the service it registers, which is just what the `ns_replace` run
  violates: nothing else loses the news of a disappearance. `Offered` keeps what is
  wanted, queued and registered within the offers.
- `NodesHoldServers`: without restarts, `Spec => []AnnouncedExact`. `Mirror` says that what a
  node holds is never wrong, only incomplete as long as its greeting is queued.
- `SessionsEnd`: without restarts, `Spec => []NoSessionLeak`. A server may itself be queued
  for registration when its client goes, so `Leaving` needs the order in the queue: some
  news of the client is handled at a moment when the server is registered (`Served`,
  `Noticed`), and `RegistryFollows` says that its registration will last.

`NodesHoldServers` and `SessionsEnd` exclude restarts because a restarted name server knows no links and
servers until they greet or register again, so what others held before is not withdrawn.

`AdapterMonitorProofs` assumes `MonitorConstants`. The inductive invariant `IInv` adds to
`TypeOK` that at most one of the places where a poll can be
holds one (`OneLoop`), that a service that does not exist has no tasks (`AtRest`) and that
calls fail only where they may (`Untroubled`).
`OnePollAtATime` counts the queued polls with `OneLoop`; `LoopLives` proves
`MonitoringNeverStops` when the process does not die, so the crash in the
`monitor_loop_lost` run is the only way to lose the loop; `PresentNotified` proves
`PresentAreNotified` when no call fails, so a loop that throws is the only way to lose an offer.

`WaiterProofs` assumes `WaiterConstants`: any tickets, intervals and growth step.

- `TypeCorrect`: `Spec => []TypeOK`. `count` is the length of the list, no ticket is listed
  twice, and the temporary ticket is in the list exactly during `waiter_wait_timeout`.
- `PollsetNeverOverflows`: `PollsetFits` is not inductive. `IInv` adds that the poll set was
  made for a multiple of `Chunk` and one more, and that the tickets do not exceed that
  multiple, so the counter cannot pass it without hitting it, where a new poll set is made.
- `SynchronizedAreDueTogether`: `Spec => []DueTogether`, along the loop of
  `waiter_synchronize`. After i tickets (`Handed`) a timeout has the age of every earlier one of its
  interval, unless one not yet visited stands before it; other tickets between do not matter.

`ServerMapProofs` assumes `MapConstants` and `OwnSlotConstants`: any keys, objects and growth step. `Sound(t)` says
that a table has its shape, that its counter is the number of live slots, and that a walk
over slots in use leads from the home slot of each item's key to the item. Every operator
of `map.c` keeps it (`StoreSound`, `RemoveFields`, `RehashCopies`, `ByeLoopLeaves`), which
needs that probing visits every slot (`ProbeVisitsAll`, by division with remainder). The loops of
`map_rehash` and `ctrl_cmd_bye` are recursive functions over the slots: their defining
equations are shown to have a solution, and a claim about each iteration (`Copied`, `Left`)
is carried along with `ListLemmas!IntervalInduction`.

- `TypeCorrect`, `CountIsExact`, `StoredIsReachable`, `FreedIsGone`: the four invariants, from
  `IInv` (`Sound`, no object in two slots, all stored objects allocated). They hold for
  every program, one that puts present keys again included: a duplicate key does not
  break the map, only what its user takes it for.
- `ImplementsDictionary`: `Spec => IsDictionary`, for programs that put a key only while it is absent, as
  `node_get` does, or that put again only keys with a slot of their own (`Careful`). `CInv` adds that no key is
  in two slots, every allocated object in one, and that such keys are at home (`Apart`); then each
  operation has the dictionary's effect on what is stored and what is freed. What a slot of one's own means
  is `OwnSlotConstants`: however far the other keys displace one another they stay clear of it. That they
  can be displaced no further than their number is `StaysClear`, by the pigeonhole principle.

`NameServerNetProofs` assumes `NetConstants`: any finite set of nodes, any offers, lookups and
number of starts. The steps are first described once each (`HelloStep`, `NewServerStep` ...).

- `TypeCorrect`, from `Shape`: what a packet may say at a node (`Fits`) keeps foreign senders to
  what their name server may send, and a name server that does not run has nothing queued.
- `RegistriesAgree`: `Agree` speaks of registry and queue together: what is left when everything queued about
  an address is handled (`Will`) is what its own node holds now; or a close is on its way, or
  the announcements are still owed (their greeting is queued), and then it is nothing.
- `GreetingsStayFew`: the greetings under way, as pairs of a node and a place in its queue, are mapped
  into those before the step, with one taken away where one is answered; a start adds one
  for each other node.
- `EveryNodeServes`: `ObserversServed` is `LookupsOwned` and `ToldComplete` at each node.
  `Forsaken` says that requests and lookups of a closed socket are followed by the report of its close, so
  a lookup that survives is of the socket open now; `Informed` that such a socket was told of every
  registered server it asked for.

`LookupClientProofs` builds on `NameServerProofs` and assumes `ClientConstants` as well.

- `ClientsAreOrdinary`: `ClientSpec => Spec`. The composition implements the specification of the name
  server, so every theorem about `NameServer` holds next to `qrtr-lookup`.
- `ClientTypeCorrect` and `PrintedWasRegistered`: `Witnessed` says that what is printed, or waits at the socket to
  be printed, was registered while this run existed. A packet for an earlier run cannot be in
  the queue of a later one: closing the socket drops it, and what arrives later is true then.
- `ListIsExact`: a fresh run has its request queued once, nothing to read and no lookup left by an earlier one
  (`Waiting`); or it was answered in one piece, and what is printed together with the
  answer up to its end marker is the snapshot (`Answered`). Notifications come after the marker.

`QmiExchangeProofs` assumes `CodecConstants` (a byte has at least two values), `DescriptorsLegal`
and `ExchangeConstants`: any byte size, nesting, legal descriptors and structures, buffer sizes and sets of
optional elements a receiver does not know. What libqrtr's interface asks of its users is in the
assumptions; what `qmi.c` makes of it is proved.

- `ExchangeInvariant`: the inductive invariant `ExchangeInv` says for each phase what was sent, that
  the packet is what the encoder makes of it and that what was read is what the decoder makes of the
  packet. The five invariants of the run follow from it and from the theorems about the codec.
- `MessageArrives`: what a message is encoded to, below the 16-bit limit, is decoded to the elements its
  receiver knows, with every byte read. The encoder's turns are followed one by one: after each of them
  the decoder `Reaches`, in any packet that starts with what has been put out, the end of that with the
  elements so far read (`GoodAt`). In a message a turn of the decoder takes a whole TLV, so the
  flag, length and value of it are one step there and up to three of the encoder's; unknown TLVs are
  skipped, and a receiver's descriptor stands to the sender's by an order-preserving map of places (`Reader`).
- `Contract` is the same for nested structures: at each level the decoder undoes the encoder wherever in a packet
  the bytes stand and whatever follows them (`Carries`). It goes from the deepest level outwards
  (`LevelInduction`, the induction over finitely many levels from `ListLemmas!IntervalInduction`).
- `RoomIsExact`: `Exactness` and `MessageFits` compare two runs of the encoder on the same structure, one with plenty
  of room: the other one is with it until the first check that fails, and the sum that check makes
  is never more than what the finished message needs, since a nested check asks for a TLV header that an
  enclosing TLV has yet to be given.
- `NullPassesForOptional`: `MinMsgLenOptional`, the loop of `qmi_calc_min_msg_len` counts something for every element
  outside optional TLVs.
- `PublishedServerIsSeen`: division with remainder.

As with `map_rehash`, each loop is a recursive function of which the proofs first show that its defining equation has a
solution (`CountingRun` and the like) and then carry a claim along its turns.

Only model-checked: all liveness (`EventuallyTold`, `LookupEnds` and the properties under fairness of
`AdapterMonitor` and `Waiter`), which the prover does not do.

## Not modelled

`addr.c`, `cfg.c`, `qrtr.py` and logging (no state); ScreenRotate and the Health HAL
(calls and assignments without state of their own); build files, scripts, firmware,
kernel modules, overlays and patches. Losing packets by a full queue, transient send
failures and failed allocations are listed as hazards with the reason they are not
covered.

## Plan

1. Done: `Dictionary`, `ServerMap`, `NameServer`, `Waiter`, `AdapterMonitor`, `LookupClient`,
   `NameServerNet`, `QmiCodec`, `QmiExchange`, and the proofs above.
2. Open: lossy sends in `NameServerNet`, to treat announcements that stop half way, and links
   that go down and come back between two `ns.c`, for which the sources do not say who
   greets whom.
3. Open: packets that do not come from `qmi.c`, so that `qmi_decode`'s refusals are modelled with
   what it reads before it refuses.
