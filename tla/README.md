# ESP-TNC in TLA+

ESP-TNC is the firmware of an ESP32 that is a packet-radio node: an AX.25
router between a serial TNC, KISS/TCP and AGWPE/TCP clients and a mailbox (BBS)
that one station at a time uses over the air.  This directory has TLA+ modules
of its own code, `src/main/`, the TLC configurations that check them and the
proofs, checked by TLAPS, of what holds for every value of the constants.

`src/main` has about 3600 lines of C.  The AX.25 link, the router, the TCP and
UART drivers and the configuration shell are in the component `esp-ax25`, which
is not in the repository; they appear only as what the callbacks and calls in
`src/main` take them to do, and are marked external in `PROJECT.json`.

## The system

### Parts

| part | code | state | operations |
|---|---|---|---|
| message store | `bbs_storage.c` | index in RAM, `next_id`; on flash `index.dat`, one body file per message | init (mount, load), store, read, delete; every change rewrites the index |
| SYSOP authentication | `sysop_auth.c` | mode, challenge and its expiry, failed attempts, lockout, last activity, deferred flags | issue, submit, note activity, expire when idle, lockout, reset |
| challenges and answers | `sysop_auth.c`, `tools/sysop_challenge_response.py` | the positions asked for | draw positions, match an answer; the script makes one |
| BBS session | `bbs.c` | connected, remote call, `is_sysop`, input mode, message being written, UART tap | on_connect, on_disconnect, on_data; the commands |
| mailbox | `bbs.c` | last-read marks in NVS, over the store's records | S, SP, SB, L, LL, LM, R, K, banner, unread check |
| call signs | `bbs.c` | -- | base call, validity |
| composer | `bbs.c` | `line_buf`, `suppress_lf_after_cr`, `pending_subject`, `pending_body` | bytes to lines, body limit, Ctrl-Z, /EX |
| transmit path | `bbs.c`, `main.c` | output buffer | append, flush in chunks, bounded retries against the link's window or the UART |
| BBS application | `main.c` | event queue | link callbacks, worker task |
| heard list | `bbs_heard.c` | stations heard, dirty, last write; `heard.dat` | on frame, load, filter, persist |
| AGWPE slots | `main.c` | pool of slots, cleanup queue, `user_data` of connections | connect, disconnect, frames in and out, walk for UI frames, cleanup task |
| KISS slots | `main.c` | pool of slots, router ports | connect, disconnect |
| boot | `main.c` | how far `app_main` got, router ports | the steps of `app_main`, returns and restarts |
| LEDs, housekeeping | `main.c` | LED modes | led_tick, the loop of `app_main` |

### Who calls whom, and from which task

* The **router's task** takes frames from a queue and calls the ports: the heard
  list (`heard_on_frame`) and the application's port, from which the AX.25 link
  calls `conn_on_connect`, `conn_on_data`, `conn_on_disconnect`.  These only put
  an event into `evt_queue`, without waiting: a full queue drops it.
* The **worker task** takes the events out and calls the session, which calls
  the authentication engine and the store, and sends through the link, waiting
  for its window.  It is the only task that writes the store.
* The **main task** runs `app_main` (boot), then the housekeeping loop: LEDs once
  a second, `bbs_heard_persist` every 30 s.
* The UART's receive callback sends to the link in terminal mode; TCP client
  tasks call back into the AGWPE and KISS slots, and a **cleanup task** frees
  AGWPE clients later.

### What is hard here

* *Resets.*  The store writes its index in place and its bodies one by one, and
  recomputes `next_id` from the index at boot.  The heard list is written by
  rename.  The power may go between any two file operations.
* *Failing calls.*  Mount, `fopen`, `fwrite` and `fread` failures are looked at,
  `fclose` failures never.
* *Lost events.*  A dropped CONNECT or DISCONNECT makes the session go from one
  station to another without the steps in between.
* *Two copies of one fact.*  `is_sysop` and `input_mode` in the session, `mode`
  and the deferred flags in the engine.
* *Time.*  Challenges, lockouts and idle sessions are deadlines on a 32-bit
  millisecond clock, compared in two different ways.
* *Several tasks.*  The heard list holds its mutex for some of its state; the
  AGWPE slots are shared by the broadcast, the client tasks and the cleanup task.

`PROJECT.json` lists each hazard at its line, with the properties that are about
it, or the reason why none is yet.

### What makes each part correct

* Store: acknowledged messages survive; no header with another's body; the
  oldest goes first; flash is not leaked; it implements a simple board.
* Engine and session: rights only with a timely answer, to the connection that
  gave it; both copies agree; an answer leads where the challenge came from; a
  timely one is accepted; attempts bounded; posts are under their author's call.
* Challenges: an answer is right if and only if it has the characters asked for,
  each as often as asked; the script's answers are right.
* Application: lines are handled in their sender's session, the session follows
  the link, the LED tells the truth.
* Mailbox: unread means posted since last read; only those concerned read and
  delete; LL shows the last n; the LED settles on what is so.
* Composer: what is typed is what is stored, up to the limit; no buffer is
  overrun; nothing is run as a command that was meant as text, nor the other way.
* Transmit path: text arrives whole and in order in as few packets as it takes,
  and the worker comes back from sending it.
* Heard list: stations in the order heard, none missing before the list is full;
  its file always whole, and never far behind.
* Slots and ports: each slot in one hand, none freed while in use, none
  forgotten, none shared; frames go home; there is a port for everyone.

## Modules

| module | extends | models |
|---|---|---|
| `MessageBoard` | -- | abstract: what the store promises |
| `MessageStore` | -- | `bbs_storage.c`, one step per file operation |
| `SysopAuth` | -- | `sysop_auth.c`, as operators on its state |
| `Challenge` | -- | `sysop_auth.c`: challenges and the matching of answers; the script |
| `BbsSession` | `SysopAuth` | `bbs.c`: link events, lines, modes, rights |
| `BbsApp` | `BbsSession` | `main.c`: callbacks, queue, worker |
| `Callsign` | -- | `bbs.c`: call signs |
| `Mailbox` | `Callsign` | `bbs.c`: the commands on messages, marks; `main.c`: the LED |
| `Compose` | -- | `bbs.c`: bytes to lines, lines to a message |
| `TxPath` | -- | `bbs.c`: buffer, chunks, retries; `main.c`: frames to the UART |
| `HeardList` | -- | `bbs_heard.c` and its use in `app_main` |
| `AgwpeSlots` | -- | `main.c`: AGWPE clients, cleanup task, walk |
| `KissPorts` | -- | `main.c`: KISS clients; router ports, the one of `bbs_heard.c` among them |
| `Boot` | `AgwpeSlots`, `KissPorts` | `main.c`: `app_main`, with clients that come meanwhile |
| `MC*` | the module named | instances for TLC |
| `*Proofs` | the module named | theorems |

Each command is modelled where its state is.  A session's *line* is one step in
`BbsSession`, which is about who may do what; the bytes it is made of are
`Compose`'s, the message it posts or deletes `Mailbox`'s, the file operations of
that `MessageStore`'s, and the text it answers `TxPath`'s.  `Mailbox` keeps the part
of the index it needs and treats the store's call as one step, which
`MessageStore` shows it is for all but resets and failures.

Names are the code's where TLA+ allows.  History variables, which no action
reads, are declared apart and say what happened, for properties to relate to.
Definitions marked *Mutant* are changed forms of a definition, each the shape of
a plausible bug; `PROJECT.json` names for every property one that breaks it.

### MessageStore

`records`, `next_id` are the index in RAM; `index`, `hasIndex`, `files` are flash.
A call is several steps, `pc` being the next and `op` the call: a store is
`StoreOpen`, `BodyWrite`, `Add` or `Evict`, `SaveOpen`, `SaveWrite`, with
`BodyShort`, `BodyLost`, `SaveOpenFail`, `SaveShort` where a call fails.  `Crash`
may come before any step.  Opening a file "wb" empties it on flash at once, its
content is there when it is closed, and unlink is atomic.  `Faults` is the set
of calls that may fail.  A message is header and body together, posted at most
once, so that a body can be told from all others.  Ids are natural numbers: the
wrap at 2^32 is left out (hazard `bbs_storage.c:100`).

`PromiseKept` is not "what was acknowledged is never lost", which is false of
this code: the index is emptied before it is rewritten.  `Crash` and
`LoadMissing` take back exactly the promises that this loses, and the property
says that nothing else is lost.

`MessageBoard` is a set of messages.  While it is `up` it changes by posts and
removals only; a `Crash` may lose messages and bring back removed ones, but never
one that was not posted, and more may be lost until the `Restart`.  The refinement
maps `up` to `Running`, and `board` to the index in RAM while the store runs and to
the one on flash otherwise.  So all losses are tied to resets: which of them the
code may cause is what `PromiseKept` says.

### SysopAuth and BbsSession

The engine is a record and its functions operators on it, with arithmetic modulo
`Wrap`.  An answer is right or wrong; which characters it has is left out.  A
line is one action: `process_command` in COMMAND mode (`OtherCommand`,
`SendCommand`, `EnterCommand`, `EnterAsks`, `EnterLocked`, `SysopBypass`,
`SysopCommand`), and one or two for each other mode.  Each contains all the code
does to session and engine for that line, the expiry of an idle session first.
`secret` is empty (no challenge), short (a challenge cannot be made) or good.

### BbsApp

`link` is the external AX.25 link: up with at most one station, and its events in
order.  `Send` is `xQueueSend` without waiting.  `Worker` is one turn of the worker
task, which may be arbitrarily slow, so that the queue fills whatever slows it
down (waiting for the link's window is one reason).  An event has its sender's
call, which the code's has not, only for `HandledAsSender` to look at.

### HeardList

The router's task is `Frame` (what is read before the mutex is taken: the filter
and the time) and `Heard` (the update under the mutex); the router queues frames
(`main.c:408`), so there is at most one at a time.  The main task is the steps of
init, load and filter, then rounds of `bbs_heard_persist`; `pc` "written" is when it
holds the mutex between the file and the rename.  Time is counted in rounds of
the loop (30 s).  `BucketOf` is `compute_bucket`.

### Challenge

A secret is a sequence of letters, a challenge an injective choice of positions,
an answer any sequence; `Used` is the array `used` of `sysop_verify_response`,
built up character by character.  `BuildResponse` is the script's
`_build_response`: the characters asked for, in any order, among others.
`RightAnswers` compares `Verify` with counting.

### Callsign and Mailbox

A character is a record of its class and letter, so that capitals, the cut at
"-" and the cut to 6 are what `bbs_base_callsign` does to it.  `records` is the
index in the order of its array: an eviction puts the newest record into the
oldest one's place, `Removed` closes the gap of a deletion.  Marks only rise
(`MarkRead`), are in NVS and survive `Reset`, which reads the index back and
computes `next_id` from it.  The main task's `led_tick` is two steps, what it
finds and what it sets.  The history numbers posts and resets, since ids are
given again.

### Compose

One action per byte that `bbs_on_data` tells apart: `CarriageReturn`, `LineFeed`,
`SecondLineFeed`, `ControlZ`, `Character`; a line that is complete goes to the mode
it is typed in.  Characters are `Sends` (a line of it is S), `Ends` (/EX) and
`Other`; lines that are S or /EX are single characters here, which changes
lengths but not what happens at the limits.  Packets are any run of bytes, so
that CR and LF may be in two.  Each byte in a buffer carries who typed it and in
which mode; `flaws` says which limit was met.

### TxPath

`text` is what the worker has still to append, `part` the rest of the string
`bbs_txbuf_append` is copying, `tx` the buffer, `data` what `bbs_send_bytes` has
still to send for each sender.  One step is one attempt.  The link and the UART
hold `Window` chunks, pass them on or not, fail, and the link goes and comes.
Bytes are numbered, so that a gap or a repetition shows.

### AgwpeSlots, KissPorts and Boot

A callback is cut where another task can see or change what it shares: claim
under the mutex, client added, user data set, and the way back.  `pc` and `mine`
are where each connection's callback is and its local `slot`.  `live` is the set of
clients the AGWPE server has, which is external; `leaked`, a history variable,
the slots whose cleanup was given up.  The walk of `uart_port_frame_cb` holds the
mutex from `WalkStarts` to `WalkEnds`; the cleanup task removes and clears without
it, which is the interleaving that matters.  A KISS slot is claimed and given
back under a mutex, each in one step, and so is the router's table changed.

`Boot` is the table `Steps` of what `app_main` does in order, each of which may
succeed, return from `app_main` (and leave everything as far as it got) or restart
the device.  Only steps that open something to others or that may fail are in
it.  Three of them register a router port (`UartPort`, `HeardPort`, `AppPort`).
`FrameOut` and `ConnectIn` are the frames that come before what they need
exists, which stops the device.

## Runs

All bounds are constants in the `.cfg` files.

| run | shows | states |
|---|---|---|
| `store_reset` | resets between any two steps, and mount, open and write failing: `PromiseKept`, `NoForeignBody`, `NoOrphans` | 16 000 |
| `store_board` | all faults: `ImplementsBoard`, `EvictsOldest` | 72 000 |
| `session` | `ViewsAgree`, `RightsProved`, `AuthorPosts`, `TerminalTapped`, `IdleCommandsDenied`, `AttemptsBounded`, `LeadsWhereAsked`, `TimelyAccepted` in every order of link events, lines and ticks | 42 000 |
| `challenge` | `RightAnswers` for all secrets, challenges and answers of a size | 48 000 |
| `app` | `HandledAsSender`, `SessionFollows` (liveness) over the lossy queue | 572 000 |
| `app_led` | **violated** `LedTruthful` | |
| `mailbox` | `HiddenOnlyAfterReset`, `Addressed`, `StaysRead`, `RemovedByRight`, `LedSettles` (liveness) through evictions, deletions and a reset | 607 000 |
| `mailbox_newest` | **violated** `NewestListed` | |
| `compose` | `TypeOK` (no overrun), `LinesOfOneMode`, `OneAuthor`, `StoredAsTyped` for every sequence of bytes | 625 000 |
| `txpath` | `Whole`, `FewPackets`, `ReplyEnds` (liveness) with a link that refuses, fails, goes and comes | 135 000 |
| `heard` | `Recency`, `AgesAscend`, `SavedInTime`, `WholeOnFlash` with resets and all faults but of `fclose` | 867 000 |
| `ports` | `Served`, `FramesHome`, `OneHolder`, `LossBounded`, `GoneOnlyInCleanup`, `PortsOwned`, `RoomForAll`, `CleanedUp` (liveness), over boots, early returns and restarts | 526 000 |

Three runs switch deadlock checking off.  `compose`: when the bounds on sessions
and bytes are reached there is nothing left to type.  `challenge`: to a secret
that is empty there is no challenge.  `ports`: `app_main` may return before it
has let anything run.  In all others the system never stops.

### Why the bounds are enough

* Store: 2 records and 4 messages.  Four posts fill the store, evict twice and
  leave one message for after a reset, with which ids are given again.  Messages
  are interchangeable (symmetry).
* Session: timeouts of 1 or 2 ticks, 5 ticks and up to 5 wrong answers, which is
  a lockout (2 attempts), its end, and a second one.  Two interchangeable
  stations.  `Wrap` is 100, more than any deadline.
* Challenge: secrets of up to 4 characters out of two, so that characters repeat;
  3 positions, answers of 4, so that one character is free and the script's
  answer goes around; too short, too long and foreign answers.
* Application: a queue of 2, so that a third event is dropped; two stations; one
  tick and no wrong answer, as those are the business of `session`.  Without
  symmetry, which liveness does not allow.
* Mailbox: a store of 2 and 3 posts, so that one evicts; a reset, after which ids
  of deleted messages are given again; two stations, one with an SSID, and
  arguments in lower case with another SSID, and one that is no call.
* Compose: lines of 3 and bodies of 6 bytes with up to 8 typed: both limits are
  met exactly, exceeded, and missed by one.  Two sessions, so that one inherits.
* Transmit path: packets of 2 and texts of up to 5 bytes, which is up to three
  packets with a short last one; 2 attempts; destinations that hold one chunk.
* Heard list: a list of 2 and four stations, the BBS one of them, so that the
  list overflows; buckets of 2 rounds, a limit of 3, 5 rounds: the limit is
  reached without dirty, and missed with it.
* Ports: two AGWPE and two KISS slots, three connections for each, so that all
  are taken and one is refused; a cleanup queue of 1, so that one is given up; a
  router with as many places as are needed (two clients, UART, heard list and BBS)
  and one fewer.  From one boot to
  the next clients of only one kind come (`OneKind`), since AGWPE and KISS clients
  share nothing but the boot.

### Fairness

* `BbsApp` and `TxPath`: weak fairness of `Worker`.  The worker blocks on nothing
  but the queue and on the link's window, the latter for a bounded time
  (`bbs.c:163`, which `ReplyEnds` is about), and FreeRTOS schedules a task that is
  ready again.  Link, stations and clock are not fair.
* `Mailbox`: weak fairness of `Led`, which the main task does once a second.
* `Boot`: weak fairness of the walk and of the cleanup task, which wait for
  nothing, and strong fairness of `FreeSlot`, which waits for the mutex: between
  two UI frames it is free, and the walk, which itself waits for the UART, does
  not take it again at once.  Under weak fairness the task could starve.

### What the violated runs are about

1. `mailbox_newest` (`bbs.c:504`).  "LL n" starts at the n-th record from the end and
   shows those that are readable.  It shows fewer than n when one is not, and
   others than the newest once the newest record has taken the place of the
   oldest (`bbs_storage.c:239`).  The help (`bbs.c:771`) says "newest n readable".
2. `app_led` (`main.c:858`).  A dropped event is not made up for: the session and
   the LED stay wrong when all is quiet.

### Seen in the models, without a run of their own

* README.md:145 says that the BBS LED blinks when nobody is connected "but unread
  messages exist in the BBS", and CONFIG_PARAMETERS.md:60 "when unread messages
  exist".  The code looks at what the last caller may read and has not read
  (`bbs.c:1176`), and keeps that call until a reset: the LED is off while there is
  something for others only, and after a reset whatever there is, until somebody
  calls.  `LedSettles` demands nothing in that case; with `<>[](~connected /\ \E c \in
  Calls : UnreadFor(c)) => <>[](bbs_mode = "BLINK")` in its place TLC finds a
  message that nobody has read, a reset, and the LED off for good.
* `fclose` (`bbs_storage.c:216`, `bbs_heard.c:255`): data that `fwrite` took may be lost
  there, and the result is ignored.  With "close" in `Faults`, `PromiseKept` and
  `WholeOnFlash` do not hold.
* A lockout ends by reconnecting (`bbs.c:1282` resets the engine), while
  README.md:188 says that it lasts for its interval.
* The idle timeout is only looked at by commands (`bbs.c:805`): a line in CONFIG or
  TERMINAL mode is carried out however late it comes.
* An expiry that wraps is taken to be past (`sysop_auth.c:368`): with `Wrap` = 4
  `TimelyAccepted` is violated, in the last moments before 2^32 ms.
* `dirty` is cleared after the mutex is given back (`bbs_heard.c:221`), so that a
  station heard meanwhile is not marked for saving, only saved later.
* The limit of 30 minutes (`bbs_heard.c:238`) does not limit anything: it is when a
  clean list is written as well.
* Before `SetFilter` the BBS can list itself (`main.c:1100`).
* README.md:132 describes the frame that ends KISS mode as C0 F0 C0; the code
  sends C0 FF C0 (`bbs.c:1093-1096`).
* Ports are registered before what their callbacks need exists (`main.c:1016` and
  1039, 1112 and 1158): a frame in between stops the device (`FrameOut`,
  `ConnectIn`), and after an early return (`main.c:1155`) any does.
* What is sent goes to whoever the link is up with (`bbs.c:149`): answers to the
  lines of a station that is gone go to the one that came.

## Proofs

For all values of the constants that satisfy the named assumptions.

**MessageStoreProofs.**  `TypeCorrect`.  `BodiesOwn`: if "read" is not in
`Faults`, no header is ever shown with another's body.  Not inductive as it
stands, because ids are given again after a reset.  `BodyInv` adds that the ids of
both indexes are below `next_id` whenever ids are given (`IdsFresh`), that a
message being stored has an id that neither index has and a file of its own
(`StoringOwn`), and which call is in progress (`CallOK`).  With "read" the load may
end early and `next_id` be too low: then it is false.

The other theorems rest on `OrderInv`, which holds under every fault: in both
indexes the messages differ and their ids are in the order of posting, a record
being stored is newer than all of RAM and not yet on flash, and a load in progress
has a prefix of the index.  `OldestGoes` follows, although ids are given again.
`StoreIsBoard` is the refinement: `Shown` and `Undead` are what the board is, each
lemma `Board...` one of its steps, those of a running store under `Running`, and `BoardNext` names for each step of the store
the board's step or none; it counts a full board by `Counted`, that there are as many
messages as records.  `NoneLeftBehind`: by `FilesInv`, which records the files belong
to at each step of a call.  `PromisesKept`: by `PromiseInv`, that both indexes read
back what is promised of them, that the one in RAM has all of it, and that they agree
on the message of an id, so that a body unlinked for the one is not another message's
in the other.  It assumes that neither `fread` nor `fclose` fails; a load that ends
early forgets messages that were promised, and a lost `fclose` a body.

**BbsProofs**, of `BbsSession` and `BbsApp`.  `TypeCorrect` needs `AuthOK`: fewer failed attempts than
the limit unless locked out.  `Agreement` is inductive with it.  On these rest
`AuthorsPost` and `TerminalsTapped`; `AnswersLead`, by `FlagsAsked`, which says
which deferred flag is set for which challenge (CONFIG, TERM and SYSOP clear
different ones, and with a secret that is too short they may stay set for good);
and `RightsAreProved` and `TimelyAnswersAccepted`, by `RightsInv`, which ties the
engine's expiry to when the challenge was sent.  The last two assume that the
clock does not wrap (`MaxTime < Wrap`, and `MaxTime + ChallengeTimeout < Wrap`), as
they must: with `Wrap` = 4 TLC finds a timely answer that is refused.  So do
`IdleDenied`, by `IdleInv`: what the engine takes for the last activity is never
later than the session's own; and `AttemptsLimited` (`MaxTime + LockoutTime < Wrap`),
by `CountInv`: the engine counts at least the wrong answers of the connection on
record, and when a lockout ends, none of those before it are left on record.

`LinesOfTheirSender`, of the application, for any length of the queue.  `AppInv` says
whose session it will be when the worker comes to a place of the queue (`SessionOf`):
that of the last CONNECT before it, if only lines follow.  A callback that drops its
event leaves that as it was; one that queues a CONNECT makes it true of what comes
after (`Announced`); the worker brings every place one nearer (`SessionNearer`).
`SessionBehindQueue`: every step of the application is one of the session or none
(`WorkerSteps`; that an event names a station is part of `AppInv`), so that all
theorems about the session hold of the one behind the queue.

**ChallengeProofs.**  For any secrets, challenges and answers.  `VerdictsAreRight`
says that the greedy matching of `sysop_verify_response` decides what counting
decides.  `Counted` is what holds after each character: it has taken as many places
of each kind as were asked for so far, or some kind has fewer in the whole answer
than are asked for; one more character keeps it (`CountedNext`).  `ScriptCounts`: the
script's answer has each character where the challenge has it.  The invariant of the
device, `Settled`, ties the verdict to the answer and the challenge that are there.

**HeardListProofs.**  `TypeCorrect`.  `LatestFirst`: `Recency` is inductive with
`FlashDistinct`, that no list on flash names a station twice; the step of a frame
rests on `Moved`, which says where each entry was before.  `LatestTimesFirst`: the
times read before the mutex is taken still ascend, since `PastTimes` bounds those
in the list by the one that waits.  `FileWhole` (if `fclose` does not fail): by
`WrittenWhole`, that heard.tmp has the list as it is until the rename, which is
what the mutex is for.  `NeverFarBehind`: by `LagInv`, which bounds the lag by the
age of the last write, at each step of the main task.

**ComposeProofs.**  For any lengths of line and body.  `BuffersKept`: `TypeOK`, whose
bounds are what keeps line and body from being overrun (`AppendedWithin` is the
arithmetic of the limits).  `LinesWhole`: `LinesOfOneMode`; `MessagesWhole`:
`OneAuthor`.  The three are inductive together with `Order`: only a COMMAND line can
be left over from a message, and there is no body before there is a subject.
`MessagesAsTyped` is `StoredAsTyped`, with `EndsKnown`: `suppress_lf_after_cr` is set
just when the last byte of the message was a CR.  What bytes say is a recursive
function of how many there are: that it exists (`ConvertsExists`), that more bytes do
not change what the first ones say (`ConvertsUnique`), and what one more says
(`TextNext`), is proved by induction.

**PortsProofs.**  For any number of slots, connections and ports, and any length of
the cleanup queue, and for `BootSpec`, in which clients of both kinds come at once
(the run `ports` lets them come in turns).  `AgwpeInv` says what is in the slot that
each callback, request, cleanup and walk has in hand (`ConnOK`, `RequestOK`,
`CleanerOK`, `LeakedOK`, `WalkOK`), that no slot is in two hands (`OneEach`) and that
one in use is in some (`SlotOK`).  Each step changes one slot, which only its actor
has in hand; `ConnKept` and its like say what that leaves to the others.  It gives
`AllServed`, `AllFramesHome`, `AlwaysOneHolder` and `GoneOnlyThere`.  `LossesBounded`
is the pigeonhole principle: when a cleanup is given up, each request in the full
queue has another slot that is not lost.  `KissInv` ties slot, port and connection
in the same way for `AlwaysPortsOwned`; `AlwaysRoomForAll` counts: a slot is free
while the server lets a connection in (`SlotForEach`), and there is room for a port
that is not registered (`EnoughIsRoom`) if the router has a place for each client and
for the three ports the firmware takes itself (`OwnPorts`): UART, heard list and BBS.
One place fewer is too few: with all clients connected the heard list or the BBS
finds none, and `app_main` returns or restarts, or a client stays unserved after it.

**MailboxProofs.**  For any stations, any arguments and any size of the store.
`MailInv` says that ids and posts of the records ascend together, that all ids are
below `next_id`, and that a mark set since the last reset of the index is below it
too.  `HiddenByOldMarks` is part of it, `NeverNewAgain` follows from it.
`OnlyByRight` needs besides that a post to a store with room moves no record, and
that in a full one the oldest, which `SlotFor` chooses, exists and is the earliest
post (`PostTakesEarliest`); that there is a least id, and a highest for the reset of
the index, is by well-foundedness.  `ForWhoWasNamed`: that of two calls whose part
before the dash fits, `BaseCall` makes the same if and only if that part has the same
letters (`BaseCalls`).  It assumes `CallsAssumption`: calls are sequences of
characters, two of them have one capital if and only if they are one letter or digit,
and a station's call fits before its dash, as every AX.25 address does.
`MailboxIsBoard` is a second refinement of `MessageBoard`: the board is the posts that
are there, always up, so that nothing deleted comes back and no reset loses any.  It needs that no message is there twice
(`Distinct`), so that the board is full when the array is (`NumbersCount`).
`MessageStore` refines the same board with its faults, which is what lets `Mailbox`
treat the store's calls as single steps.

**TxPathProofs.**  For any packet length, text, window and number of retries.
`TypeCorrect`: the buffer is never overrun.  `PacketsAreFew` is not inductive: a short
chunk is only right if nothing comes after it.  `TxInv` adds that what is sent while
there is more in the buffer is a full packet (`FullData`), that all chunks so far are
full while anything is left (`ChunksOK`), and that the last of what is left is the
text's last byte, wherever it is now (`BufferEnds`, `DataEnds`).  `TextsAreWhole`:
that neighbours among the taken bytes follow each other is not inductive either, for
a byte between two others may be lost.  `WholeInv` orders any two bytes of what was
taken, is being sent, buffered and still to come, and says that they are all, unless
something was lost.  `Flattened` and the lemmas before it are what joining the chunks
is, by induction on how many there are.

**Induction** over data is done in the modules themselves: a set of numbers that has
0, and n + 1 with n, has all of them, as it has no least counterexample
(`NatLessThanWellFounded`, `WFMin`), and the set is one of those n for which the fact
holds.  That a recursive function exists is such a fact, of its restriction to the
numbers up to n.

**Only model-checked:** liveness (`SessionFollows`, `LedSettles`, `CleanedUp`,
`ReplyEnds`), for which the prover would have to know when actions are enabled.  Every
invariant and every action property of a passing run is a theorem.

## Not modelled

* *Components outside the repository*: the AX.25 link, router, TCP servers, UART
  driver and configuration shell of `esp-ax25`.  They appear as what `src/main`
  takes them to do; ports that external services take from the router are
  subtracted in `router_max`, those that `src/main` takes are modelled.
* *Output*: wording and layout of what is sent, statistics, logging, the blink
  phase and the power LED, GPIO.
* *NVS failures* (`bbs.c:580`): a mark that cannot be written is a mark that was not
  read, after a reset.
* *Test applications* (`src/test_*`): drivers for hardware tests, used as statements
  of what the firmware promises.
* *The wrap of message ids* at 2^32 (`bbs_storage.c:100`): out of reach of the flash
  the messages are stored on.

## Plan

1. `Mailbox` over `MessageStore` in one instance, so that what is read after a
   failing index write is checked too.
2. One abstraction of what a session does with its line, which `BbsSession`,
   `Compose` and `Mailbox` each implement, as `SessionBehindQueue` shows it of the
   application's queue.
