# TLA+ models of the mix cascade

`proxytest` is the mix of AN.ON / JonDonym. A *cascade* is a chain of processes:

    browser -> local proxy (or JAP) -> first mix -> middle mix(es) -> last mix -> proxy server

The user's end multiplexes the browser's connections as *channels* over one
connection. A channel is opened by a packet with CHANNEL_OPEN, carries packets
of a fixed size with CHANNEL_DATA in both directions, and is ended by
CHANNEL_CLOSE from either end. Each mix gives the channel a new id, adds or takes
off one layer of encryption and forwards its packets. The last mix connects each
channel to a proxy server. File names below are relative to `src/`.

This directory holds TLA+ modules for the parts of the program in which the
order of steps matters, configurations to check them with TLC, and proofs for
TLAPS. `PROJECT.json` has the machine-readable list of components, runs,
hazards, theorems, and the source lines behind every definition.

Contents: [1 Inventory](#1-inventory) - [2 Modules](#2-modules-and-code) -
[3 Runs](#3-runs-and-bounds) - [4 Fairness](#4-fairness) - [5 Proofs](#5-proofs) -
[6 Findings](#6-findings) - [7 Not modelled](#7-what-is-not-modelled) -
[8 Plan](#8-plan)

## 1 Inventory

**M** modelled, **P** partly, **-** not. The complete list, with sources, is
`components` in PROJECT.json.

### Threads and shared data

| component | | state | operations | with whom | what is hard | what makes it correct |
|---|---|---|---|---|---|---|
| `CAQueue`, `CAConditionVariable` | M | list of chunks, byte count, closed flag, condition variable | add, close, get, getOrWait (with and without timeout), peek, remove, clean | between every two threads of a mix | unlocked tests of `m_Queue` and `m_bClosed`; wake-ups; chunks read in part | a FIFO of bytes; no NULL is followed; who waits for data or the end gets up |
| `CAThreadPool` | M | bounded queue, flags closed and shutdown, three condition variables | addRequest, worker loop, destroy | first mix: logins | broadcasts only at the edges empty/full; destroy while callers wait | what is accepted is run, before destroy(true) returns; no wake-up is lost |
| `CALockAble` | M | reference count | lock, unlock, waitForDestroy | ciphers of the middle mix | the destructor races the last unlock | the object outlives its users |
| `CADatabase` (replay) | P | three tables, time of the last rotation | insert, maintenance thread | every mix with replay detection | unlocked clock; duplicates that were half entered | no packet is accepted twice; recent packets are accepted |
| `CAAccountingDBInterface` pool | P | connections, wait numbers | getConnection, releaseConnection | login, settlement, accounting | numbers called while others take the connection | nobody sleeps on while a connection is free (violated, section 6) |
| `CAMutex`, `CAThread`, `CASemaphore`, `CAReadWriteLock` | - | | | all | thin wrappers | taken as given |

### The mixes

| component | | state | operations | with whom | what is hard | what makes it correct |
|---|---|---|---|---|---|---|
| `CAMix::start`, `init()` and key exchange of the mixes | P | connections, key infos, symmetric keys, session keys | init, processKeyExchange, addMixInfo, checkCompatibility, clean | neighbours, users | every mix may break in any step of the others; old answers on their way | users are accepted for whole cascades only; keys belong together; users' layers fit; the cascade comes up again |
| keep-alive | P | intervals offered and computed | negotiation in the key exchange, dummies, receive timeout | neighbours | unsigned arithmetic of intervals | an idle connection is kept |
| `CAMiddleMixChannelList` and the readers of `CAMiddleMix` | P | two hash tables (in id, out id), a cipher per channel | add, getInToOut, getOutToIn, remove; the two reader loops | both neighbours | both sides close the same channel at once; ciphers are used outside the lock | one bijection; no cipher dies in use; both sides agree on the channels, but for those whose opening packet was dropped |
| threads of the middle mix | P | `m_bRun`, two queues, two sockets | loop, clean; 2 readers, 2 senders | previous and next mix | any thread may fail first | all threads end before anything is closed or deleted; the mix comes back |
| threads of the first mix | P | `m_bRestart`, login pool, lists, queues | accept, login, read, send, loop, clean | users, next mix | clean() while users log in | as above, and nobody is left open |
| threads of the last mix | P | `m_bRestart`, queues | lm_loopReadFromMix, lm_loopSendToMix, loop, clean (twice) | previous mix | only one of them tells the others | as above |
| accept loop, IP lists | P | `m_newConnections`, `m_nUser`, counts per address, block list | accept, checks, login, close | users, login pool | many ways out, four counters under four mutexes | the counters are exact |
| login and kickout | P | connection list, accounts in use, login mutex, prepaid bytes | login thread, forceKickout, checkUserConnections, closeConnection, clean | user, data base, main loop | two logins of one account; close between kick and wait | an account is used by one connection; prepaid bytes are stored; accounts are not left locked |
| timeout list (`CAFirstMixChannelList`) | P | doubly linked list, `timoutSecs`, `bRecoverTimeout`, retries | push, pop, remove, forceKickout, checkUserConnections | main loop, login threads | list surgery; flags read and written in separate calls | the list is a list; kickouts happen |
| packet loop (`CAFirstMixA`, `CAFirstMixChannelList`) | P | channels, two queues per user, the packet being sent | packets of users, packets of the next mix, sendToUsers, closeConnection | users, next mix | partial sends, priorities, closes that cross, kickouts | both neighbours agree on the channels; users get all packets in order |
| accounting and settlement | P | cost confirmations, status, settle wait numbers, flags of a login | packet counting, confirmations, settlement transactions | payment instance, data base, login | settled in another thread while the user transfers, confirms, leaves, returns | answers are applied in order; no verdict is lost; only what was seen is settled; bounded credit |
| control channels | P | counters of both ends, fragments | send, reassemble, decrypt | all ends | order of encryption and of sending | whole messages, decrypted with their counter |
| `CALastMixA` loop, `CALastMixChannelList` | P | an entry per channel: socket, queue, two flow-control counters | open, data, close; write to proxies; read from proxies | previous mix, proxy servers | windows, partial writes, closes that cross | both ends agree; streams arrive complete; no stall |
| `CALocalProxy` | P | list of connections, counter of packets per channel | accept, browser data, browser close, packet of the mix | browser, first mix | close crosses data; acknowledgements | as for the last mix |
| type B last mix (`TypeB/`) | P | chains of channels, chain table, deadlines | packets up, writes, packets down | previous mix, proxy servers | a chain outlives its channels | every channel gets its CLOSE |
| status (`CAStatusManager`) | P | three state machines | events of all threads | operator | events in any order, ignored if unexpected | the status says what the mix does |
| `CAPool`, `CACacheLoadBalancing` | - | dummy pool; ring of servers | | | | |
| InfoService, configuration, cryptography, logging, XML | - | | | | input, output and byte transformations | |

The hazards found in these parts, each at its line and with the properties that
would notice it going wrong, are `hazards` in PROJECT.json. The two without a
property say why.

## 2 Modules and code

A module per component with its model and its properties; the theorems about several
components that belong together are in one module (section 5). The `MC` modules put several models that share no state into one
instance for TLC: their variable `subject` says which of them a behaviour is
about, and the variables of the others do not change. A few properties of the MC
modules join those of the parts under one name: `MixesCleanUp`
(`LastMixCleansUp`, `FirstMixCleansUp`), `MixesRestart` (`OneStopsAll`,
`LinkLossRestarts`, `FirstMixRestarts`), `CascadesHeal` (`CascadeHeals`) and
`NeighboursFit` (`KeysAgree`). Definitions marked "Variant" in a comment are not
used by the specification: they are what a slip in the code would look like, and
PROJECT.json (`mutants`) says which property notices it.

A section of code under a mutex that waits for nothing is one action. What the
code reads or writes outside the mutex is an action of its own. Payload,
cryptography, logging and XML are left out; a packet is its channel and flags, a
byte its number.

### Cascade, KeyExchange (CAMix::start, init() and processKeyExchange() of the mixes)

`Cascade` has for each of `N` mixes where it is (`at`: off, sleep, accept, connect,
info, offer, answer, online), and for each link its two ends (`near`, `far`: none,
live or dead), a key info and a symmetric key on their way. A mix learns of a
broken connection only by reading from it, so an end may be dead without the
mix knowing. Faults are crashes of a mix, broken connections and answers that
come too late. `OnlineFromTheEnd` is the promise to the users.

`KeyExchange` refines these steps with what is sent: lists of key infos that
grow from the last mix to the first (`AddMixInfo`), the answers with the nonce and the
two halves of the keys, versions and compile flags (`CheckCompatibility`),
certificates of neighbours that may be out of date, and a user who takes over the
list. Everything a mix generates in one `init()` is its *session*. As in the code, the first
mix sends its keys before it returns the compatibility error, a middle mix only
after the answer of its previous mix; and a mix built from an older version
accepts a newer one, while the newer refuses it if it is older than `Compatible`.

### KeepAlive

Both mixes compute their intervals from the two offers (`SendInterval`,
`RecvInterval`), modulo `Word`; then a sender that sends a dummy after its
interval, a channel with a delay and a receiver that gives up. The defaults (55 and 65
seconds) are safe; `IdleLinkSurvives` fails for send offers below the margin (section 6).

### MiddleMixChannels (CAMiddleMixChannelList, CALockAble, the readers of CAMiddleMix)

`table` is both hash tables (the set of entries `[in, out, cipher]`), `mutex`
the list's mutex, `live` and `refs` the ciphers and their reference counts. The
two readers, `"up"` (`mm_loopReadFromMixBefore`) and `"down"`
(`mm_loopReadFromMixAfter`), have a program counter each: receive, look up (and
lock the cipher), crypt, unlock, signal, remove if the packet closes, enqueue.
`remove()` (`RemoveChannel`) holds `mutex` while the destructor of the cipher waits for the
other reader (`DestroyWait`, `Destroy`). The decrement and the signal are two steps
(`Unlock`, `Signal`), as in `CALockAble::unlock()`.

What the neighbours believe is in ghost variables: `prevOpen` and `nextOpen`
are the channels they hold open. The previous mix is the same program: it has a
channel from its first packet (OPEN, with or without CLOSE) until it sends, or is
handed, a CLOSE for it (`PrevSends`, `DownEnqueue`). The next mix is told to open a
channel when the packet is queued for it, and has it until it sends, or is
handed, a CLOSE. `ViewsAgree` compares both with the table, up to the packets the
readers hold, with one exception. An opening packet that cannot be decrypted, or
is found in the replay database, is dropped without an answer (`UpReject`,
CAMiddleMix.cpp:1174-1190; the last mix does the same, TypeA/CALastMixA.cpp:181). The
previous mix, which has opened the channel, keeps it until its user closes it:
there is no timeout for channels. `rejected` remembers these ids, and the property names
them: they are the only channels the previous mix is left alone with. If it was the
next mix that dropped the packet, then it never had the channel, and the entry
here stays until the previous mix closes it.

`IdReuse` says whether a random id may be drawn again; with it a late CLOSE can
close the new channel of the same id (32 random bits make that improbable), and
the views are not claimed to agree.

The default build is modelled. The variants of the readers for
REPLAY_DETECTION and USE_POOL name variables that do not exist (`m_pMuxOut` in a
static function, `pQueue`) and do not compile.

### MiddleMixThreads, LastMixThreads, FirstMixThreads

The threads of the three kinds of mixes with their program counters, the flags
that end them, the queues between them and the main thread from `init` to `clean`
and back, any number of times.

* Middle mix: readers and senders in both directions. A reader tests the length
  of the queue before it reads a packet, not when it adds it; a reader that leaves
  adds bytes to both queues to wake the senders. `TimedWait` distinguishes builds in
  which the wait of a sender has a timeout from those in which it has not.
* Last mix: only the reader sets `m_bRestart`; a sender that fails just ends. `loop()` ends with
  `clean()`, and `start()` calls `clean()` once more (`CleanAgain`).
* First mix: the accept thread, the login pool, the reader from and the sender to the
  next mix. `clean()` closes the accept thread, deletes the pool (which waits
  for the logins), closes the connection, joins and wakes in the order of the code;
  `parts` is what still exists. Users may log in until the pool is gone; they are closed
  with the list.

`send()` may block as long as the neighbour does not read and then returns; that
it returns is an assumption on the neighbours.

### CAQueue, ByteFifo

`CAQueue` has the chunks with `buff`, `index` and `size`, the separate byte count,
the lock of the condition variable (`cv`), and a program counter per producer and
consumer, because `get`, `remove`, `add` and `close` look at `m_Queue` or
`m_bClosed` before they take the mutex. The walk over the chunks in get() and
remove() is `After`. `ByteFifo` is the abstract specification: a sequence of
bytes to which pieces of data are appended and from which prefixes are taken;
`ImplementsFifo` is the refinement, with the content of the chunks as the
abstract sequence. The class comment calls the queue thread safe; with two consumers
it follows a NULL pointer, since `get()` tests `m_Queue` before it takes the mutex (CAQueue.cpp:154). The
mixes use one consumer per queue, and so does the instance.

### CADatabase, CAThreadPool, DBConnections

`insert()` is one action (it runs under `m_pMutex`). The maintenance thread
sleeps, looks at the clock and at `m_lastSwitch` without the mutex (`Check`), and
then rotates (`nextClock`). Hash tables are sets of keys. A duplicate found in
the second table leaves the key it entered in the first one. Time is discrete;
the thread is at most `Slack` late, and
`TimingAssumption` is `Sleep + Slack + Tolerance <= Interval` (in the code 10 + Slack
+ 5 <= 30 seconds, so the thread may be up to 15 seconds late).

`CAThreadPool` has the queue, the flags, and where each adder, worker and the owner (who calls
`destroy()`) are. A wait ends by a broadcast or without a reason
(`SpuriousPoolWakeup`). `Uses` are the ways a pool is used: blocking or not when
full, waiting for the queue to drain or not. Callers of `addRequest()` go on while the pool is
destroyed, and find it closed. `destroy()` deletes the mutex at its end without a look at
them: what happens to a caller that still holds on to it is undefined (`TouchFreed`, which
is taken to accept nothing), and the pool does nothing to prevent it. It is the first mix that
does, by ending the accept thread before it deletes the pool; `MixesCleanUp` of
FirstMixThreads checks that order.

`DBConnections` is the pool of data base connections with its two counters of
wait numbers: `waitNr` (`ms_threadWaitNr`) is the last number given to a waiter, `nextNr`
(`ms_nextThreadNr`) the one that is called. `TurnComes` says that a waiter gets its turn; it
fails as soon as two threads wait (section 6).

### AcceptUsers (fm_loopAcceptUsers, CAIPList, CATempIPBlockList)

The accept thread step by step (`acc`), the login of each connection (`thread`),
the main loop's closing, and the counters. In builds with PAYMENT the IP list does nothing.
Addresses with too many connections, and those of some failed logins, enter the block list; when it
has more than `MaxBlocked` entries the accept thread creates its sockets anew, and
ends for good if it cannot. Otherwise that list refuses nobody: `checkIP()` is called in a branch an
earlier condition has dealt with (CAFirstMix.cpp:1439). The limit of users is
tested when a connection is accepted and may be exceeded by the logins under way.

### FirstMixTimeouts, FirstMixA (CAFirstMixChannelList, CAFirstMixA)

`FirstMixTimeouts` is the timeout list pointer by pointer, with its users: the
main loop's pass, which pops, judges and pushes entry by entry, packets that renew
a timeout, and login threads that enter connections and force others out.

`FirstMixA` is the packet loop: packets of users (`OpenPacket`, `DataPacket`,
`ClosePacket`, refusals by the accounting), packets of the next mix
(`FromMix`), sending to users from two queues with priorities (`SendToUser`),
closing and kickouts. `atMix` and `view` are what the next mix and the users
believe. An OPEN beyond CHANNELS_PER_CLIENT is dropped without an answer; a
packet of which nothing could be sent waits until something else is queued for
the user, as in the code. `shutDown()` from another thread is left out.

### ControlChannel

Threads that take a counter and encrypt (`Encrypt`), and queue the fragments in
a second step (`Queue`); the receiver with `m_MsgBytesLeft`. Two threads
that alternate may send undecipherable messages; `DecryptedInStep` says that
everything else is decrypted as it should be.

### AccountLogin (login in CAFirstMix, CAAccountingInstance, CAFirstMixChannelList)

A login thread per connection, from `add()` to the connection being in the main
loop's hands or gone; the main loop's checks (`StartCheck` to `EndCheck` under
the login mutex), its closing of dead connections (without it), and the end of
the first mix (`Restart`, `DeletePool`, `RemoveLeft`). A *slot* is a socket number,
the index of an entry of the connection list; slots are used again. `login` is
the hash table of accounts in use: who created the entry, the slot of its owner
and `loginOngoing`. `stored` remembers whose prepaid bytes were written back last;
`sessions` are the connections which have read them and not yet written back.

The model ends (`crashed`) where the code uses an object it has deleted; that
this can happen shows at three places: a takeover deletes the login entry it had
found before it slept (CAAccountingInstance.cpp:1893), a login registers the
socket of a connection that may have been kicked and closed meanwhile
(CAFirstMix.cpp:2445), and forceKickout() follows `pAccountingInfo`, which is NULL
until initTableEntry() (CAFirstMixChannelList.cpp:421). The properties say what
holds until then. `wait()` is
assumed to return only when signalled: the code has no loop around it. A
connection may time out only when it is online. That at most ten logins run at
a time is not modelled.

### Settlement, AccountTraffic (CAAccountingInstance, CAAccountingSettleThread)

`Settlement` is `newSettlementTransaction()` as the settlement thread and every
login thread call it: the two mutexes, the dialogue with the payment instance
(`Answer`, with every kind of answer), what goes to the data base, the wait
number, and what is applied to the login table. `AccountTraffic` adds the
connection of the account: login, packets with the hard and the soft limit,
cost confirmations, kickout, and storing of the prepaid bytes at the end.

Some things the code does show in the model as they are: AUTH_TIMEOUT_STARTED is
never reset, so the shortcut of PACKETS_BEFORE_NEXT_CHECK (line 396) is not taken
once it is set; finishing a login ORs a status code into the flags (1373); the
chain of tests looks at one flag per packet, so a status that comes back all the
time hides the others; a login that finds nothing to settle does not wait for the
answers of other threads (CAFirstMix.cpp:2327); a status that is cleared late, in
the order of the numbers, can clear one that was stored after it; a negative
balance is stored but counts as 0. AUTH_SETTLED_ONCE and AUTH_DELETE_ENTRY are the
same bit (typedefs.hpp:280-287).

### LocalProxy, LastMixA, ChannelFlow, Tunnel

`LocalProxy` is the loop of CALocalProxy; `LastMixA` the loop of CALastMixA with
its three steps (`pc`: packets of the previous mix, writes to the proxies, reads
from the proxies), the set of sockets the last select() reported (`ready`), and
the proxy servers with the socket between; `ChannelFlow` composes both, with the
mixes between them as two FIFO queues. The flow-control counters are those of the
code: the last mix counts what it has read of a server
(`sendmeCounterDownstream`) and stops at the hard limit; the local proxy counts
what it receives and sends a SENDME per soft limit; the last mix does the same for
the other direction, although nobody there stops sending. SENDMEs themselves are
counted as packets by both ends, as in the code.

`Tunnel` is what the cascade promises to a browser's connection: two ordered
streams without loss, the end of which is seen only after all that came before.
`ImplementsTunnel` maps the state of both ends to it.

Simplifications: channel ids are not used again; OPEN packets decrypt; the mixes
between the two ends keep the order and lose nothing (they forward over TCP and
FIFO queues); the test of the length of the send queue may see any part of the
packets on their way; the build has no integrity check and no delay buckets; the
connections between the mixes last.

### LastMixB (TypeB/CALastMixB, CAChain, CAChainTable)

A user's stream is a *chain* of short channels. `chain` is the chain table,
`due` the channel table with the deadlines of the packets still to be sent;
the loop takes packets, writes, and asks every chain for a packet. Two things
it shows are kept out of the claims: a chain that a failed write has closed while it had
no channel goes on waiting, and channels added later are deleted with it
without a CLOSE (`InUse` excludes it; CAChain.cpp:160, 485); and chains in the
last line of the chain table are never looked at (CAChainTable.cpp:316; `LineOf`
keeps the instance out of it). In builds with DELAY_CHANNELS removeFromDelayBucketInternal()
adds where it should subtract (CAChain.cpp:647); those builds are not modelled.

Type B is built with NEW_MIX_TYPE, which is commented out (StdAfx.h:93), and at this commit
that build does not compile: CALastMixB.cpp:164 makes a `CASymCipher`, while
CALastMixBChannelList.hpp:65 takes a `CASymChannelCipher`, and CAFirstMixB.cpp:256 has the same
outdated calls. The module models what the code says, as it would run once its ciphers
are those of type A; nothing of it depends on them.

### MixStatus (CAStatusManager, monitoringDefs.h)

The tables of the three state machines, and the threads of a first, middle or
last mix reduced to the places where they fire events. `StatusTells` compares
the status with what the mix does. It claims little about the payment status,
because `newSettlementTransaction()` never reports a success nor resets the
count of errors (CAAccountingInstance.cpp:2826-2835; only `settlementTransaction()`
does, which nobody calls), although
`documentation/Server_Monitoring_Zustaende.txt` describes a state that a
successful settlement leads to and one for *subsequent* failures. After a failure of the data base
in init() (CAFirstMix.cpp:263) the network status still says "connected to next".

## 3 Runs and bounds

| run | checks | instance | states |
|---|---|---|---|
| `mix_threads` | NothingUsedAfterClean, WakeupNeverSent, MixesCleanUp, MixesRestart; OnlineFromTheEnd, CascadesHeal; NeighboursFit, LayersFit; IdleLinkSurvives; StatusTells | see below | 288,000 |
| `containers` | TableConsistent, HeldCipherLives, ViewsAgree, CloseCompletes; ImplementsFifo, NeverNull, WaitersWake; AcceptedOnce; NoLostWakeUp, AcceptedIsRun, FinishesAccepted | see below | 178,000 |
| `accounting` | OneSession, AccountNotLocked, BalanceStored; UnpaidBounded, AppliedInOrder, SettledIsSeen, NoVerdictLost | see below | 2,070,000 |
| `first_mix` | CountersExact; TimeoutListWhole, ForcedStays, KickoutEnds; NextMixAgrees, UserAgrees; DecryptedInStep | see below | 767,000 |
| `channel_flow` | BothEndsAgree, ImplementsTunnel, StreamsArrive; ChannelsKnown, EveryChannelCloses | see below | 182,000 |
| `middle_mix_freed_cipher` | NoUseOfFreedCipher (violated) | 2 ids, 2 ciphers | |
| `account_login_signal` | NoLostSignal (violated) | 2 connections | |
| `settlement` | EverySettlementEnds (violated) | 3 settlers, every answer "ok", numbers up to 4 | |
| `silent_timeout` | SilentTimeOut (violated) | 2 connections, one silent | |
| `login_kept` | LoginKeepsConnection (violated) | 2 connections, PAYMENT | |
| `db_connections` | TurnComes (violated) | 5 threads, 3 connections | |
| `keep_alive` | IdleLinkSurvives (violated) | one pair of offers | |

The instances and why they are enough:

* **Middle mix channels** (`containers`). There are exactly two readers, so the interesting cases
  are about two packets of one channel, and a second channel to get mixed up with: two ids, which
  both sides use once each, and which may be the same on both sides or not. Two ciphers, so that
  both channels can be open, or the second one has the memory of the first one's cipher. The
  three invariants are theorems for any number of ids and ciphers (section 5), and hold in TLC
  with three ids (494,000 states) too; `CloseCompletes` alone rests on the instance, and is about one
  channel and two readers. A packet has no flag, OPEN or CLOSE: the first mixes let a
  packet open a channel only if OPEN is its one flag (TypeA/CAFirstMixA.cpp:412, 1635,
  TypeB/CAFirstMixB.cpp:252), and the theorems are about packets with any flags.
* **Threads** (`mix_threads`). A queue limit of one packet already lets both readers of a
  middle mix overshoot it; one packet in each other queue tells empty from not empty.
  In the first mix two login threads, two requests and four open connections:
  one that logs in, one that waits, one that comes while clean() runs. The
  number of restarts is not bounded.
* **Cascade.** Four mixes (two middle mixes, so that one has middle mixes as neighbours)
  with two faults, that is, one breakdown during the recovery from another. With key
  infos one fault and four sessions per mix, in 19 configurations: all mixes alike,
  one with an older version (just compatible, or too old), one with another compile
  flag, one certificate out of date at either end of a link.
* **Keep-alive.** A word of 64 with a margin of 3, all pairs of four offers
  around and above the margin, packets up to two ticks on their way.
* **Status.** Each kind of mix, any failure of any thread, signals, five failed
  settlements.
* **Queue.** 2 producers, 1 consumer, calls of size 1 and 2: chunks of one and two
  bytes, and reads of one and two, give all the
  ways a read can end: inside a chunk, at its end, behind it, past the end of the
  list. Two producers race each other at add and close.
* **Replay.** Interval 4, tolerance 1, sleep 1, lateness 2 is the limit the assumption
  allows; a clock to 14 passes three rotations. Two packets
  with arbitrary timestamps are enough for one to be the duplicate and the other
  to be half entered.
* **Pool.** Two adders with two requests each, two workers and a queue of two separate signal from
  broadcast, the edge from the level, and let adders wait while workers are busy.
* **Data base connections.** The three connections of the code (`MAX_DB_CONNECTIONS`) and five
  threads, so that two wait; the ten threads that may log in are more.
* **Login** (`accounting`). Three connections in two slots: one online, one that takes over, and
  one that either competes or gets the slot of a closed one. One of them can log
  in to one account only, the others to two.
* **Settlement and traffic.** The settlement thread and a login thread; confirmations
  up to 3 packets with a prepaid interval of one, so that a user passes the soft and
  the hard limit and is served again; answers of the payment instance: accepted, blocked, empty, outdated
  with an older or newer document, no answer, internal error; wait numbers up to 2;
  a word of 10, so that the differences wrap.
* **Accept loop** (`first_mix`). Five attempts: three from one address, which is one more than
  allowed, one from another and one that passes the restrictions; one user and one new
  connection at a time before the limits bite.
* **Timeout list.** Three entries are a head, a middle and a foot; every order of entering,
  leaving and popping.
* **Packet loop.** Two users with one channel each (one with control messages and
  partial sends), or one user alone with two channel ids and two packets back in
  each; a queue to the next mix of one packet.
* **Control channel.** Two threads, three messages with lengths below, at and above what
  the first packet holds.
* **Channel flow.** The window is two, so that three packets down need a
  SENDME to go on, and three packets up leave two in the queue of the last mix,
  of which a write may take one. The counters are per channel, so it is enough
  that one channel has so much; beside it the second is accepted and closed without
  data. When both carry data it is one item in either direction each (`OneEach`):
  they share the queues, the rounds of the loop and the limit of the send queue.
* **Type B.** Two chains, three channels of two packets each: a third channel is
  one more than a chain keeps. The liveness property watches one channel; all are alike.

`CHECK_DEADLOCK FALSE` is given where the model may rightly stop: a mix has ended; all
messages are sent. In `containers` the readers of the channel table may not stop, while the
others may (`MayEnd`): all requests are made and the pool destroyed, or the clock is at its
horizon. `MaxTime`, `MaxRequests`, `MaxBytes`, `MaxNr`, `MaxUp`, `MaxDown`,
`MaxControl`, `MaxFromMix`, `MaxMessages`, `MaxFaults`, `MaxSession`, `MaxOpen`,
`MaxToNext` and `MaxDelay` are bounds of the models, not of the code.

## 4 Fairness

* Threads are scheduled by the operating system: a thread that can go on does (WF).
  Where a thread competes for a mutex with another that takes it again and again, it
  gets it at last (SF): removal of a channel in the middle mix, the consumer's
  steps in `CAQueue`.
* A select() in a reader has a timeout, so a reader always comes back to its
  loop; a send() returns if the neighbour reads (the modules of threads). No timed wait
  has to time out, since not every build has timed waits.
* Every receive during a login or a key exchange has a timeout, so a login thread or
  an `init()` goes on; a mix that sleeps tries again (`StartMix`). The faults of a
  cascade are not fair, and they are finitely many (`MaxFaults`): a cascade that
  breaks all the time does not come up.
* The main loop of the first mix goes through the timeout list in each of its
  turns, and time passes (`PassStep`, `Tick`).
* Once a settlement has its answer it goes on, unless it waits for its turn.
* A proxy server that keeps its connection reads from it (`ProxyDrains`). The sender of a
  type B mix empties its queue again and again, so that the test of its
  length lets the loop pass again and again (SF on `StartDown`).
* Nobody outside is assumed to do anything else: no user has to connect, send or close,
  no packet has to arrive, nobody has to destroy a pool or restart a mix, and no
  wake-up has to be spurious.

## 5 Proofs

For every value of the constants that satisfies the module's assumptions:

| module | about | theorems | the inductive invariant, and why it is needed |
|---|---|---|---|
| ChannelTableProofs | MiddleMixChannels | TypeCorrect, TableIsConsistent, HeldCiphersLive, ViewsStayTogether | A cipher is freed when its count is one, which says something about the readers only if the count is exactly one plus the readers that hold it (`RefsExact`); the destructor's cipher is that of the entry it is about to unlink (`DyingInTable`), and nobody looks up meanwhile (`MutexHeld`). A channel that was looked up and not found is still unknown at `add()`, because only the upstream reader adds (`FreshChannel`). ViewsStayTogether assumes that ids do not come back (`~ IdReuse`); the others do not. It needs to know which ids have been used at all (`IdsUsed`), so that one that has just been drawn belongs to no entry and to no packet of the other reader (`DrawnIsNew`), and that who has sent a CLOSE no longer has the channel (`ClosersKnow`). |
| | LastMixB | ChainTableStaysWhole | A chain is in one list of the table at most, and where it says it is (`ListedOnce`); one that does not wait for a channel has one (`ChainsTyped`), and those the loop has yet to visit in this pass are still in the table. |
| MixThreadsProofs | MiddleMixThreads | TypeCorrect, CleanIsLast, WakeupsStayInside, QueuesBounded | What the main thread may conclude from where it is (`MainKnows`); bytes of a reader are in a queue only when `m_bRun` is down (`WakeupMeansStopped`), and it goes up only with empty queues; a reader that has tested the length has room for one packet (`RoomLeft`). |
| | LastMixThreads | LastMixEndsInOrder | `LastMainKnows`, and that bytes which wake a thread are in the sender's queue, or its hands, only while the main thread joins it (`BytesWhileJoining`). |
| | FirstMixThreads | FirstMixEndsInOrder | clean() joins one kind of thread after the other (`FirstMainKnows`); every open connection is in exactly one hand (`OpenedAccounted`), so none is left when all hands are gone. |
| | MixStatus | OperatorIsTold | Until a thread has reported the end of a connection all threads run, or a reader is about to report it (`WorkersFit`); a report takes the status back whatever it was and whoever reports again (`ReportsEnd`). A failed key exchange leaves the status of a middle mix, and a missing data base that of a first mix, at what it was, also through the next init() (`NetFits`). |
| | MCMixThreads | MixesEndInOrder, NeighboursAlwaysFit | The invariants above, for the two properties that join those of several components: a step of one leaves the others alone. |
| ContainersProofs | CAQueue | QueueTypeCorrect, QueueIsFifo | The queue is a sequence of good chunks (none empty, each within its buffer), and the byte count is the length of what they hold (`StreamInv`); a producer about to append has a piece in its hands (`AddsNext`). See below for the loop over the chunks. |
| | | SoleConsumerSafe | With a single consumer, what its unlocked test has seen is still there under the mutex: producers only append (`FollowsChunks`). Assumes `Consumers = {k}`; with two it is false. |
| | CADatabase | DbTypeCorrect, StoresOnlyAccepted, WindowHoldsRecent, NoReplayAccepted | `NotBehind`: the rotation is never more than one interval behind the clock; so an accepted timestamp is less than two intervals ahead of `m_lastSwitch`, and `Remembered`: an accepted packet is in the table its timestamp selects as long as it is valid. |
| | CAThreadPool | PoolTypeCorrect, SleepersWake, AllRunBeforeReturn | `NoLostWakeUp` with the flags tied to the progress of destroy() (`FlagsFollowOwner`); accepted requests are queued, being run or finished (`Conserved`). |
| CascadeProofs | Cascade | CascadeTypeCorrect, NeighboursAgree, WholeCascadesOnly | Each link agrees on how far its key exchange has come, whatever has been left of an earlier connection (`LinkAgrees`). To conclude from neighbours to the whole cascade would take an induction along it; `NoGap` says it of any two mixes with live connections between them, and each step can disturb it at one mix only. |
| | KeyExchange | NeighboursUseTheSameKeys, UsersEncryptForTheMixes | A list of key infos, wherever it is, has one entry for every mix after its owner, and the entries of those that live links join to the owner are of their present sessions (`ListsFit`; of the users, `UserFits`). Like `NoGap` it holds of any two mixes, so that no step has to look along the cascade. `KeysFit` follows the answer over its link. |
| | KeepAlive | SilentUsersKeepLink | The receiver has waited no longer than the sender's interval plus the age of some packet on its way. Assumes `NothingWraps`: the offers are such that none of the 32-bit sums and differences wraps; the run `keep_alive` shows what happens otherwise. |
| FirstMixProofs | FirstMixTimeouts | TimeoutListStaysWhole, KickoutStaysForced | Some sequence runs through the list in both directions, and whatever is not in it is linked nowhere (`Chain`); each operation names the sequence it makes of the old one (`UnlinkElement`, `AppendStranger`). What a pass has in its hands is an open connection (`HoldsOpen`), so that it is pushed at most once. |
| | AcceptUsers | CountersStayExact | Where a connection can be in the three kinds of threads (`Placed`), and that the counters are the cardinalities of sets of connections (`FourCounts`): each step moves one connection, and so changes each set by at most one element. |
| | FirstMixA | MixesAgreeOnChannels, UsersGetAllInOrder | The channels the next mix will have open once it has handled all that is on its way to it are those of the table, less those whose CLOSE is on its way back (`ChannelsAgree`). To see that such a CLOSE takes away nothing else, a channel is opened at most once on the link and not while it is open behind it (`OpenedOnce`). Of what a user has yet to get of a channel, the user's own queues bring the packets up to some number, and the queue from the next mix goes on from there to what the next mix has sent (`WayFits`, of every user and channel alone): so a packet moves from the second to the first, or from there to the user, and only that number changes. No CLOSE of a channel in the table is under way to the next mix (`TableNotClosed`), so what it has sent there is not forgotten before the user has it. |
| | ControlChannel | MessagesDecryptInStep | The messages in the queue can be counted from the one the receiver is at, and all that were given a number are completed, in the queue or with a thread (`Numbers`); so who is alone with the latest number (`AloneIsLatest`) is the next to be counted. That the count of missing bytes comes out at exactly 0 needs that the buffer is the beginning of the message whose rest is first in the queue (`BufferFits`), and then no packet is ever cut off (`ReceiveFills`). |
| ChannelFlowProofs | ChannelFlow | FlowTypes, BothEndsKeepAgreeing, FlowImplementsTunnel | What both ends know of a channel is told by the packets between them, so the invariant is about those (below). |
| AccountLoginProofs | AccountLogin | TypeCorrect, AccountsAreExclusive, SessionsOwnTheirEntry, PrepaidBytesAreStored, NobodyIsLockedOut | Who uses an account is in the slot that owns its login entry (`SessionOwns`); a thread that takes over knows the owner's slot as long as the entry is the one it found (`TakeKnowsOwner`), and when it is about to replace that entry nobody uses the account (`ReplaceIsAlone`). |
| SettlementProofs | Settlement | AnswersAppliedInOrder, OnlySeenIsSettled | The numbers of the transactions that have an answer are consecutive and in the order of the answers, and the one that is applied has the number that is next; that a cost confirmation is settled only if its bytes are those sent. |
| | AccountTraffic | UsedAccountsSettleInOrder, VerdictsAreKept, UnpaidStaysBounded | The first is the same two of an account in use: its traffic changes the cost confirmation and the stored balance at most (`TrafficSettles`). Who is taken for empty while online is so in the login table too (`FlagsFit`), so a packet that takes another verdict back has been checked by the rule for errors. A login goes online with a balance that is not negative, and a packet that takes it to the prepaid interval or below is the last one (`Owes`); results move both counters alike, modulo `Word`. UnpaidStaysBounded assumes `CreditFits`: the bytes transferred have not been set back below zero by half a word. Outdated answers do set them back, by what the user has confirmed beyond the answer, and CAAccountingInstance compares unsigned sums. |

The invariant of ChannelFlow says, of every channel alone, so that no step has to look
at more than one: before a connection has sent anything, nobody knows the channel
(`BeforeOpen`); an OPEN comes before all other packets of its channel, brings data, and
until it is taken nothing comes back (`OpenFirst`); the CLOSE of the user is its last
packet, and when it is taken the queue of the entry is closed (`CloseLast`); the CLOSE of
the last mix is the last one down, and is under way exactly until the user has seen that
the mix has given the channel up (`EndLast`); the items in the queue `up` are those
after what the last mix has got and up to what the user has sent, each once and in order,
and those the last mix has got but not written follow those it has (`UpOrdered`); the
same downwards (`DownOrdered`). With it ChannelsAgree is a matter of cases. For
WindowsReturn the packets that carry data, and those that carry a SENDME, are counted
(`Held`), and every step moves a counter as far as it moves a packet. In the
refinement the users' and the servers' ends are `Users` and `Servers`; a step of the
model is a step of the Tunnel, or leaves both alone: that an item arrives in
order is `DownOrdered` and `UpOrdered`, that the end of a stream comes after all that was
sent is that nothing of a channel is behind its CLOSE.

For ImplementsFifo, the content of a list of chunks is a function over its prefixes
(`Contents`), whose recursion is unfolded by an induction of the module's own
(`SetInduction`, from the well-founded induction of the library on a set instead of on an
operator). Every chunk adds at least one byte (`MoreChunksMoreBytes`), so the loop of
get() and remove() stops at exactly one chunk (`UsedUpExactly`); what it leaves has the
old content without the bytes taken (`AfterDropsFront`), and a chunk more has its own
bytes more (`AppendAddsBytes`). So append is `Add`, get() and remove() are `Take`, and
everything else stutters.

Of the properties the runs check, only the model checker vouches for: all
liveness properties (TLAPS proves neither ENABLED nor fairness arguments).

## 6 Findings

Seven runs end with a violation of what a comment of the program says.

* **CALockAble::unlock()** (`middle_mix_freed_cipher`): it gives the lock back and
  then signals. The destructor in the other thread may see the count at one
  without being signalled and free the object first; the signal then works on a
  destroyed condition variable.
* **Takeover of an account** (`account_login_signal`): the comment at
  CAAccountingInstance.cpp:1868 says the signal of the cleanup cannot be lost. It can,
  if the older connection is removed by code that does not hold the login mutex:
  a failing login, or the main loop's closeConnection() for a dead socket. The
  login thread then sleeps until the same socket number is used and closed again,
  and a restart of the first mix waits for it.
* **Settlement** (`settlement`): "indicate that the next thread may proceed"
  (CAAccountingInstance.cpp:2965). The signal may go to a thread with another
  number, which goes back to sleep; the one whose turn it is, and everyone after it,
  sleeps on. It takes two waiting threads.
* **Timeout of users** (`silent_timeout`): the pass that looks for connections that have timed
  out takes every entry out and pushes it again, which sets its timeout anew. A silent user is
  never timed out as long as passes are more frequent than the timeout.
* **Login and main loop** (`login_kept`): "while checking if there are connections to close: synch
  with login threads" (TypeA/CAFirstMixA.cpp:214). Only the main loop ever locks that
  mutex; a connection that is kicked out right after its login thread has entered it
  in the timeout list is deleted under that thread.
* **Data base connections** (`db_connections`): "if the ms_nextThreadNr equals the thread's waitNumber
  it's his turn to obtain the next free connection" (CAAccountingDBInterface.hpp:205). Two
  threads wait, and two connections are given back before the first of them has the lock: its
  number is stepped over. The second one is taken for the last that waits, takes one
  connection and sets both counters back; the first one sleeps on with a connection free, and is
  called only if its number comes up again among later waiters.
* **Keep-alive** (`keep_alive`): the send interval is to be made "a little bit smaller than the
  related receive interval" (CAFirstMix.cpp:707). With a send interval below ten seconds
  the subtraction wraps, no dummy is sent for weeks, and the neighbour breaks the
  idle connection.

## 7 What is not modelled

* Input and output, XML, configuration, InfoService, logging, statistics: no state others
  depend on. Of CAInfoService, that stop() sets its flag without the lock the
  thread waits with, so that the thread may sleep on for a minute (or, in builds without
  timed waits, for ever) while stop() joins it, has been seen and is not modelled.
* Options and start of the program (CACmdLnOptions.cpp, proxytest.cpp): sequential
  parsing. Vendored libraries (trio, tre, wepoll, gcm, mxml), tests and tools.
  Together with cryptography, payment documents and terms and conditions they are most
  of the repository's lines, and have no behaviour in time to check.
* Cryptography: only the life time of the channel ciphers and what belongs to which
  key matters here.
* The kernel's and libraries' behaviour (select, send, pthread) is modelled from how the
  code uses it.
* Builds: REPLAY_DETECTION in the mixes and USE_POOL (do not compile for the middle
  mix), delay buckets, the multi-threaded packet loop of the first mix, UDP, Flash and SGX
  variants. The first mix of type B (CAFirstMixB), which is CAFirstMixA with another
  treatment of channels.
* Reuse of a channel id across the whole cascade, and the limits of the send
  queues in free mixes, where a constant larger than 32 bits makes the test void.
* Start and stop of the replay data base; deletion of a queue in use; shutDown()
  of the first mix from another thread; what signal handlers do with locks the
  interrupted thread holds (proxytest.cpp:235 fires an event from a handler).
* In the settlement, more than one account: batches of MAX_SETTLED_CCS and what one
  failing document does to the others.
* In the key exchange: extensions, terms and conditions, replay parameters, and how
  certificates are verified against a root.

## 8 Plan

Done, in this order: the middle mix (table, threads), CAQueue with ByteFifo,
CADatabase, CAThreadPool, AccountLogin, LocalProxy + LastMixA + ChannelFlow with
Tunnel; Settlement and AccountTraffic; FirstMixTimeouts, FirstMixA and ControlChannel;
AcceptUsers; LastMixThreads and FirstMixThreads; Cascade, KeyExchange and KeepAlive;
DBConnections, LastMixB, MixStatus.

What could follow:

1. **Composition** of FirstMixA, MiddleMixChannels and LastMixA with ids used again, against
   Tunnel.
2. **CAInfoService**: its thread, stop() and the reconnects of the first mix.
3. **CAFirstMixB**, as a variant of FirstMixA composed with LastMixB.
4. An excess of the hard limit of the flow control by the drift of the counters
   (ChannelFlow with longer streams).
