# JetChat in TLA+

JetChat is an iOS chat application that talks to no server: messages "from
someone else" are made by the app itself, everything is kept in one SQLite
database (WCDB), and the screens are kept together by a navigation stack,
notifications and blocks deferred to the main queue.

There are two worlds in it. The application runs on the main thread: what can go
wrong there is the *order* in which touches, the repeating timer of a group room,
`DispatchQueue.main.async` blocks, `asyncAfter` blocks, transitions, taps on the
home screen widget and a killed process interleave, and what a screen that was
opened earlier still believes about the database. Beneath it, in the pods, lies
WCDB's own build of SQLite, where threads do run at the same time: connections
that read, write and checkpoint one write-ahead log, over locks that WCDB has
given a queue of sleeping threads of its own.

This directory holds TLA+ modules of that logic, TLC configurations that check them
on small instances, and theorems that TLAPS proves for every value of the
constants.

Contents: 1 Inventory, 2 Modules, 3 How the code maps to the modules,
4 Runs, 5 Bounds, 6 Fairness, 7 Findings, 8 Proofs, 9 What is only model-checked,
10 What is left out, 11 Plan, 12 Running it.

Paths of the application are relative to `src/JetChat/FY-IMChat/Classes/`, those of
the storage engine to `src/JetChat/Pods/WCDBOptimizedSQLCipher/src/`.

## 1. Inventory

### Components that are modelled

**Database** (`DataBase/FYDBQueryHelper.swift`, `WCDataBaseManager.swift`, the two
table models under `MainModule/ChatRoom/Model/`).
State: a table `chat` (one row per friend or group: uid, type, unread count,
nickname), a table `message` (chat id, type, content), both with AUTOINCREMENT
keys. Operations: the queries and writes of `FYDBQueryHelper`, one statement each,
none in a transaction, errors only logged. Hard: `updateFromChatModel` writes *all*
columns of an object, the primary key too, so it can resurrect old values and it
fails as a whole when two rows have the uid; a failed statement is silent; an
inserted object does not learn its key. Correct when: a uid names one row, and
keys are given in the order messages are sent.

**Chat room** (`MainModule/ChatRoom/Controller/FYChatBaseViewController.swift`,
`ViewModel/FYMessageViewModel.swift`).
State: the chat object it was opened with, the rows it shows, its own badge
counter, `isTimered` and the repeating timer, and a picker or an alert presented over
it. Operations: load, send from the keyboard or from a picker's completion, send by
timer, delete a message, forward one, open an avatar, leave a group. Interaction:
`reloadChatData` shows a message at once, hands it to the widget, and defers the
write twice; the write posts two notifications. Hard: the write happens while the
room is being covered, popped or left; a picker and an alert answer after the widget
or a forward has put another room beneath them; the room writes its own copy of the
chat row; rooms for the same chat can lie on one stack several times. Correct when:
what was sent is stored, once and in order; no way off the screen leaves a timer
running (a picker's completion can start one there, see section 7); a group that was
left stays gone.

**Forwarding screen** (`FYMessageForwardViewController.swift`).
State: the chats to choose from. Operation: after 1.5 s, say "forwarded", push a room
that sends the message, and when the push is complete remove the forward screen
from the stack *by class name*. Hard: within 1.5 s every button works; nested
forwards; the removed screen may be another one, and everything above it moves
down. Correct when: no block or write refers to the wrong screen, and a confirmed
message is on its way.

**Session list and badges** (`MainModule/Conversation/`).
State: the last message of every chat with its unread count, and the badge of the
tab. Operations: reload (rows at once, badge in a deferred block), open, delete a
session, read all. Interaction: observes `kNeedRefreshSesstionList` and
`kNeedRefreshChatInfoList`, which rooms, lists and the edit screen post. Correct
when: the rows mirror the tables after every turn of the main thread and the badge
catches up.

**Info and edit screens** (`FYContactsInfoViewController.swift`,
`FYEditChatInfoViewController.swift`).
State: one chat object, *shared* by the info screen, the edit screen and a room
opened from the info screen. Operations: send, edit the nickname, save (write the
row, post, return to the root 1.25 s later). Hard: rooms opened before hold another
object of the same chat. Correct when: a nickname changes by saving it.

**Friend and group lists** (`MainModule/Contacts/`, `FYChatRoomListViewController`).
State: the rows, the delete button, an alert, deferred blocks. Operations: add (the
row now, the insertion later; uid = last row's uid + 1), delete one, delete all.
Interaction: the list of friends reloads on `kNeedRefreshSesstionList`, which its
own deletions post; the list of groups does not. Rooms opened earlier write chats and
messages whenever their blocks run. Hard: the rows are ahead of the table; a room
outlives its chat, and writes the chat back when its uid was given again; a deletion
is two statements. Correct when: uids are distinct, the list shows the table once its
blocks have run, and a deletion that ends takes the messages of its chats along.

**Media browser** (`FYMessageViewModel.makeBrowser...`, `didTapPictureAt`,
`didTapVideoAt`). State: rows of the room, rows the table shows, pages. Operation:
rows to pages, tapped row to page. Correct when: it opens on what was tapped.

**Widget and launch** (`AppDelegate.swift`). State: the last message in shared user
defaults. Operations: save, open a room from the widget, relaunch. Hard: the room
is pushed over whatever is shown; its chat may be gone.

**Navigation** (the `UINavigationController` category and base classes). State: the
stack. Operations: push, pop, pop to root, `removeControllerWithName`. Modelled as
far as the chat screens use it.

**Locks of the storage engine** (`os_unix.c`, `os_wcdb.c`, `mutex_wcdb.c`, `queue.c`;
the calls in `wal.c`, `btree.c`).
State: for each slot of the wal-index the connections that hold it shared or
exclusively, the advisory lock of the process on the slot's byte, a queue of requests
for busy slots, and the threads that sleep on a condition variable. Operations:
`unixShmLock` (lock, wait, unlock with `WCDBOsShmTrySignal`), the ten seconds of
`pthreadCondWait`. Interaction: a transaction or a checkpoint makes a dozen such
calls in a fixed order (`walTryBeginRead`, `walIndexRecover`, `walRestartLog`,
`sqlite3WalCheckpoint`). Hard: a thread sleeps while it holds other slots; a
request stays queued after its thread timed out; the main thread jumps the queue;
advisory locks belong to the process while slots belong to connections. Correct
when: slots exclude, the advisory locks agree with them, and no sleeper is forgotten.

**Write-ahead log** (`wal.c`; WCDB's `Database.swift` and `TimedQueue.swift` decide
when to checkpoint).
State: the database file and the log as the operating system has them and as the disk
has them, the shared header, the backfill count, the read marks, each connection's
copy of the header. Operations: begin and end a read, begin a write, restart the log,
append frames, publish, roll back, checkpoint passively, recover. Hard: all of these
in pieces, interleaved, with a killed process or a power loss between any two.
Correct when: a transaction sees one committed content from beginning to end, a
writer sees the latest, and a crash loses no commit that was made durable.

### Components that are not modelled

| component | state and hard part | status |
| --- | --- | --- |
| Chat keyboard | `isShowKeyboard/Emoji/More` and heights, under notifications whose order UIKit decides; what can be wrong is the height of a view | no |
| Moments | demo data generated on one screen, kept nowhere, read by nobody | no |
| Theme and language | a saved number and its colours; a new root controller for a new language, whose old screens live as long as ARC lets them | no |
| Countdown, activity indicator | a countdown no screen uses; a count of synchronous work | no |
| Cache size | one loop over a directory, without state (see the end of section 7) | no |
| QR scanner | AVFoundation callbacks, nothing kept | no |
| Pop-up views, HUD | presentation; that touches pass through a HUD is in the guards of ChatRoom | no |
| Cells and views, extensions | drawing, helpers without state | no |
| Generated and other vendored code | R.swift; pods for views and media; of the storage engine the parser, B-tree, virtual machine and full-text search, which run under the locks and transactions modelled here | no |

## 2. Modules

| module | what it is |
| --- | --- |
| `Database` | constants, tables and queries as operators from a store to a store or to rows; no variables |
| `ChatRoom` | the messaging core: navigation stack, rooms, forward, info and edit screens, deferred and delayed blocks, session list, badge, widget, killed process. EXTENDS Database |
| `Messaging` | the abstract specification: a message is sent, waits, is stored after all earlier ones, may be deleted; a killed process loses what waits. `ChatRoom` implements it |
| `MCChatRoom` | ChatRoom for TLC: one friend and one group |
| `ChatList` | one list (of friends or of groups) with its deferred blocks and its alert, the rooms of its chats as copies that write whenever their blocks run, and a process killed between two statements. EXTENDS Database |
| `MediaBrowser` | the browser's loops and a room's rows coming and going |
| `SlotLocks` | the table of shared and exclusive slots that wal.c is written against |
| `ShmLock` | `unixShmLock` with WCDB's queue, signals and timeouts. EXTENDS SlotLocks and implements it |
| `WalLocking` | which slots transactions, recoveries and checkpoints ask for, in which order; makes its calls through ShmLock. EXTENDS ShmLock |
| `MCWalLocking` | WalLocking for TLC: three transactions, one on the main thread, and a checkpoint |
| `Store` | the abstract specification of the log: a history of contents, transactions that see one of them, crashes that cost a bounded part of it |
| `Wal` | the log itself: files, header, marks, backfill, recovery, crashes. EXTENDS SlotLocks, implements Store |
| `MCWal` | Wal for TLC: two connections (or one) that transact and one that checkpoints |
| `DatabaseProofs` | lemmas: what every write returns and preserves |
| `ChatRoomProofs` | type correctness, one row per uid, the order of the messages, and the refinement of Messaging, for every instance; a group that was left stays gone, the badge is never forgotten, only a picker leaves a timer running unseen, the session list is never stale, rooms know the keys of their own messages |
| `ChatListProofs` | only late writes and deletions cut short leave messages without a chat; until an old key is written over a group, uids of groups are unique and their list mirrors the table |
| `MediaBrowserProofs` | what the loops over a room compute, and that a tap opens on its message |
| `ShmLockProofs` | ShmLock keeps its promises and implements SlotLocks; WalLocking implements ShmLock |
| `WalProofs` | one writer at a time; nobody moves a mark that is held; the invariant of what readers see |
| `WalRecoveryProofs` | what survives: every commit is seen, a killed process loses none, a power loss none that was synced. EXTENDS WalProofs |
| `WalStoreProofs` | the log implements Store: a transaction sees one content throughout; every variable keeps to its values. EXTENDS WalRecoveryProofs |

`ChatRoom` instantiates `Messaging` with the refinement mapping `Messages`: what
waits is the outbox, what is kept is the message table, each without the room, the
key and the type (`Abstracted`). Every screen, timer, forward and notification is
hidden by it.

`ChatRoom` and `ChatList` are two views of the same tables. `ChatRoom` fixes the
friends and groups (a group may be left) and models what lies above the lists;
`ChatList` models adding and deleting chats. Of a room it keeps what matters to the
tables: the copy of the chat it was opened with, written back with each message,
at any time (`rooms`, `beginCacheMessage`), and leaving a group. The screens between
the list and a room, and the order of their blocks, are in `ChatRoom` alone.

The storage engine is taken apart by lock: `ShmLock` shows that the calls provide
`SlotLocks`; `WalLocking` shows that the protocol of `wal.c` makes these calls as it
may and leaves nobody asleep; `Wal`, which is about data, then takes and drops slots
in the table of `SlotLocks` directly and needs no queue.

## 3. How the code maps to the modules

A handler is one action, with every call it makes, up to the point where it defers
work; the deferred block is an action of its own. `PROJECT.json` names the lines of
each definition.

| code | model |
| --- | --- |
| `navigationController.viewControllers` above the root | `stack`, a sequence of `Screen` records, from `dropped + 1` on |
| screens that were popped to the root and are held by a timer, a picker, an alert or a write | the first `dropped` of `stack`, until `deinit` |
| the photo picker or the alert of 退出群, presented by a room | `modal`: its kind and its room |
| a pop that has begun and not finished | `popping` |
| `chatModel` of a room, info or edit screen | `.model`, or `.shared` when it is the object of the info screen beneath; `ModelAt`, `Owner` follow it |
| `dataSource` of a room | `.items`: sets of key and stamp; key 0 for an object that was not read from the table |
| `reloadChatData`: `main.async`, then the completion of `reloadData` | one entry of `outbox` per message (both hops are FIFO), run by `beginCacheMessage` |
| `DispatchQueue.main.asyncAfter`, the completion of a push | a record of `delayed` with the screen that asked for it; `host = 0` when that screen has no `navigationController` any more |
| `Timer` with `target: self` | `.ticking`; `makeGroupAutoSend(i)` may happen whenever it is set |
| `kNeedRefreshSesstionList`, `kNeedRefreshChatInfoList` | `reloadSesstionData`, a conjunct of the action that posts (posting is synchronous) |
| `reloadTableView`'s deferred badge | `badgeDue`, `showSessionBadge` |
| the shared defaults of the widget | `widget` |
| a killed process | `relaunch`: all but `db` and `widget` is lost |
| content of a message | a stamp; `sent` counts message objects, so stamp order is creation order |
| `ChatList`: `dataSource` of the list, its blocks, its alert | `dataSource` (uids), `queue`, `alert` |
| `ChatList`: rooms that may still write | `rooms`: their copies of the chat |
| `ChatList`: nothing in the code | `stray`: messages stored when their chat was gone, or left by a deletion that was cut short; `rekeyed`: a room wrote a chat back under another key than the table's. Only properties read them |

| code of the storage engine | model |
| --- | --- |
| `unixShm.sharedMask`, `exclMask` of each connection | `shared`, `exclusive` |
| `unixShmSystemLock` | `file` |
| `qWaitQueue`, `WCDBCond` | `queue`, `asleep` |
| the database file and the log, in the page cache of the system and on the disk | `db`, `wal`; `dbDisk`, `walDisk`: what was synced; the rest may be lost, kept or half written at a power loss |
| `WalIndexHdr`, `WalCkptInfo`, the hash tables | `hdr`, `nBackfill`, `readMark`, `index` |
| `Wal.hdr`, `Wal.minFrame`, locals of `walTryBeginRead` and `walCheckpoint` | `my`, `minFrame`, `at`, `iterator` |
| a page's content | the number of the transaction that wrote it; `Torn` for one half written |
| the running checksum of frames | `after`: the frame this one continues |

Guards that stand for UIKit rather than for a line of code are operators of their
own. In `ChatRoom`: `Touchable` (no touch reaches a screen during a transition or
beneath a picker or an alert, and a transition outlasts the blocks deferred before
it), `Drained` (the same of the blocks of the screens that a transition moves),
`AtRoot` and `OnTop(kind)` (a touch reaches the top screen), `OnScreen`. In `ChatList`:
`Shown` and `Elsewhere` (a touch reaches the list, or what covers it) and `Settled` (an
alert and its confirmation, or a way to another screen, take longer than the blocks
already on the main queue). The widget, the timer, delayed blocks, deferred writes and
the completion of a picker have no such guard: the widget pushes a room beneath a
picker, an alert or while blocks wait, and what was presented answers in whatever
place its room is by then.

In `Wal` an action is a stretch of code between two points where another connection
can act on the same data. Two stretches are joined although the code releases a lock
in between: raising a mark and resetting one, each under the exclusive lock of the
mark alone. Ghost variables (`history`, `durable`) record what was committed and what
of it has been synced; no guard reads them.

## 4. Runs

| run | module | checks | states |
| --- | --- | --- | --- |
| `ChatRoomSafety` | MCChatRoom | `TypeOK`, `OneChatPerUid`, `ItemKeysAgree`, `StoredInSendOrder`, `SessionsMirrorTables`, `BadgeMirrorsTables`, `ChatStaysGone`, `KeepsMessages` | 1,302,337 |
| `ChatRoomLive` | MCChatRoom | `SentIsStored`, `BadgeCatchesUp`, `OnlyPickersTickUnseen` | 545,467 |
| `ChatList` | ChatList | `TypeOK`, `GroupUidsUnique`, `GroupListMirrorsTable`, `OnlyStraysOutliveChats` | 1,845,898 |
| `MediaBrowser` | MediaBrowser | `TypeOK`, `OpensOnTheTapped` | 8,271 |
| `WalLocking` | MCWalLocking | `ShmTypeOK`, `MutualExclusion`, `FileLockMirrors`, `NoWakeUpLost`, `ImplementsSlotLocks`, `SleepersAreWoken` | 170,218 |
| `Wal` | MCWal | `TypeOK`, `CommitsAreSeen`, `HeldMarksStay`, `KeepsThePromises` | 473,348 |
| `WalCrashes` | MCWal | `CommitsAreSeen`, `KilledNowKeepsCommits`, `SyncedSurvives`, `KeepsThePromises` | 222,675 |

What they show:

* `TypeOK` of ChatRoom is more than types: no deferred write and no delayed block
  refers to a screen that is gone or of another kind, although screens are removed
  from the middle of the stack, an object is shared only with the info screen
  directly beneath, and what is presented belongs to a room, covered or not.
* `StoredInSendOrder`: keys are given in the order in which messages were made. All
  screens order messages by key, so user, timer and forwarded messages never
  change places.
* `KeepsMessages` is `Messages!Spec`, the abstract specification under the mapping:
  every step of the rooms is one of sending (with the answer a group provokes, in
  one chat), sending in vain (a forward whose screen has gone), storing the oldest
  message that waits, deleting, losing everything that waits (a killed process), or
  a stutter. In particular no message is stored twice, in another chat than the
  one it was sent to, or after it was deleted from the table.
* `SentIsStored`: leaving the room, covering it or leaving its group before the
  write loses nothing. It does not hold for a killed process, which is why it is
  checked without `relaunch`.
* `OnlyPickersTickUnseen`: no push (the widget's included), pop, return to the root,
  removal from the middle or exit leaves one more timer running on a room that is not
  on the screen. The exception is in the property because it is in the code: the
  completion of a picker starts the timer of its room without asking whether the room
  was covered meanwhile. The run reaches that case.
* `ItemKeysAgree`: a room that was covered while other rooms deleted and stored
  messages never deletes another message than the one tapped. This rests on
  AUTOINCREMENT never giving a key twice; the mutant with reused rowids breaks it.
* `SessionsMirrorTables`, `BadgeMirrorsTables`, `BadgeCatchesUp`: each write of a
  table is followed by a reload in the same turn, and the badge, counted one turn
  later, is never behind without a refresh on its way.
* `ChatStaysGone`: the row that rooms write back is an UPDATE, so a group that was
  left does not return; an upsert would bring it back.
* `GroupUidsUnique`, `GroupListMirrorsTable`: the list of groups, which observes only
  one of the two notifications, keeps its uids distinct and equal to the table, until
  a room has written the key of a group that is gone over a group that has its uid now
  (`rekeyed`). After that the order of the rows is not the order of the uids any more.
* `OnlyStraysOutliveChats`: a message without its chat was stored after the chat went
  (the deferred write of a room whose chat was deleted or left meanwhile), or is left
  of a deletion that was killed between its two statements. Every deletion that ends
  takes all messages of its chats along, those stored while it waited too.
  The stronger sentence, that no message outlives its chat, is false of the code
  (section 7).
* `OpensOnTheTapped`: three index conventions (rows from 0, `browserIndexs` from 1,
  `currentPage` from 0) agree, also while the view model is ahead of the table.

* `FileLockMirrors`: the lock another process would see on a slot is the strongest
  that a connection of this process holds, although it is kept by counting siblings.
* `NoWakeUpLost`, `SleepersAreWoken`: a sleeping thread is in the queue, nothing is
  queued when nothing is locked, and once transactions stop coming each sleeper is
  woken by a thread that let go. The second needs `Entangled`, the code's look at two
  threads that wait for each other: without it two transactions sleep their ten
  seconds.
* `CommitsAreSeen`: the pages copied and the frames that are not make up the last
  content committed, at every moment of every checkpoint and restart.
* `HeldMarksStay`: the mark a reader holds is not moved by anybody.
* `KeepsThePromises` is `Promised!StoreSpec`: every step of the log is one of Store. In
  particular a reader never sees two contents, a writer starts from the latest, and a
  power loss goes back no further than the last sync of the log.
* `KilledNowKeepsCommits`: at every moment, what recovery would rebuild from the two
  files is the last content committed.
* `SyncedSurvives`: at every moment, for every mix of old, new and torn pages and frames
  that a power loss may leave, recovery rebuilds one committed content, and none older
  than the last sync of a checkpoint. Where `KeepsThePromises` looks at the power losses
  that happen within the bound on faults, this looks at one in every state.

Every property of these runs has a mutant in `PROJECT.json`: a plausible mistake in
one mapped definition under which TLC finds the property violated.

Five more runs each check one statement of a text of the repository that the code
does not keep; see Findings.

`MediaBrowser` sets `CHECK_DEADLOCK FALSE`: after `MaxItems` messages have come and
gone no message is left to tap, which is the bound speaking; so do the runs of
the storage engine, whose bounds end every behaviour.

## 5. Bounds

* `Friends = {1}`, `Groups = {2}` (MCChatRoom). A friend has a nickname and an info
  screen, a group has a timer and can be left: each kind of chat is there once.
  Two rooms of the *same* chat, the hard case, come from the widget, the info
  screen and forwarding.
* `MaxSent` (2 or 3): messages created. Two are needed for an order, and the first
  message of a group makes two at once; the third, in the run of the liveness
  properties, is the one the timer makes, or the first message of a friend, to whose
  room the widget then points while a group's picker is open.
* `MaxDepth` (2 or 3): screens above the root. Three hold room, info, edit or room,
  forward, room. Deeper stacks, where `removeControllerWithName` takes a forward
  screen that did not forward, are covered by the proofs.
* `MaxDelayed = 1`: delayed blocks. One is enough for each of them to meet every other
  step; two at a time (a second tap on Send) are covered by the proofs.
* `MaxChats = 4`, `MaxBlocks = 3`, `MaxMessages = 1`, `MaxRooms = 1` (ChatList): three
  blocks hold a deletion between two insertions, the case that breaks the list of
  friends; four chats are two groups that are deleted and added again while a room
  keeps the copy of one. One message is enough because `OnlyStraysOutliveChats` speaks
  of each message alone, and one room because a room opens, is left and forgotten, and
  another opens. With four chats `rekeyed` is needed for `GroupListMirrorsTable`; for
  `GroupUidsUnique` it takes a fifth.
* `MaxItems = 4` (MediaBrowser): every sequence of four texts, images and videos,
  hence every placement of a page before, at and after the tapped row.
* `NickNames = {"nick"}`: one nickname besides none tells old from new. In
  `ChatRoomLive` it is empty: a nickname plays no part in what becomes of messages,
  badges and timers.

* `WalLocking`: four connections and one mark, so that a mark is contended; four
  transactions begun (`MaxBegun`) are two that collide with two more that follow, and
  one timeout (`MaxTimeOuts`) leaves a stale request in the queue.
* `Wal`: two pages (a transaction writes one or both), two marks, two transactions
  that write, two checkpoints, two salts: the second transaction can restart the log
  that the first checkpoint has copied. No faults.
* `WalCrashes`: one connection, three transactions, three salts, one fault. The third
  transaction meets a log that holds frames of two earlier generations.
* `READMARK_NOT_USED = 99` is above every frame number, as 0xffffffff is in the code.
* `IdleCheckpoints = FALSE` in `Wal` and `WalCrashes`: no checkpoint begins on a log
  that is wholly copied. The code does not exclude it, and finding 5 is what happens
  then; the constant separates that one error from all the rest.

No symmetry is used in the application: friends and groups differ by type and uids
are ordered. In `Wal` the two connections that transact are alike (`Alike`), in runs
that check safety only.

## 6. Fairness

`LiveSpec` has weak fairness on `beginCacheMessage` and `showSessionBadge` alone:
blocks on the main queue of a process that runs are run, in order. That is all the
liveness properties need. There is no fairness on the user, the timer, the widget,
transitions or delayed blocks. `relaunch` is not part of `LiveSpec`: a process
killed before the deferred write loses the message, and the code has nothing that
would recover it.

`FairSpec` of `WalLocking` has weak fairness on the steps of a transaction and of a
checkpoint that has begun: a thread that is not asleep is on a processor and goes on.
Nothing is assumed of new transactions, new checkpoints or timeouts. Since the number
of transactions is bounded, `SleepersAreWoken` says that the last sleepers are woken,
not that none waits long while others come and go: the code puts the main thread in
front of the queue and looks no further than the first busy request, so under
endless traffic a thread may wait until its ten seconds are over.

## 7. Findings

Each is a run that TLC ends with a counterexample.

1. `ChatRoomDeletedIsGone`. A message that was just sent has no key in memory, so
   deleting it removes the row on the screen only; it is back when the table is read.
2. `ChatRoomConfirmedIsForwarded`. The HUD reports a forward although its screen was
   left within 1.5 s and nothing was sent.
3. `ChatRoomNickNameChangesBySaving`. A room opened before the nickname was saved
   writes the old one back with its next message.
4. `ChatListUidsUnique`. In the list of friends a notification replaces the rows
   while an insertion waits, so the next friend gets a uid that is taken.
5. `WalIdleCheckpoints`. `sqlite3WalCheckpoint` copies the header and `walCheckpoint`
   reads `nBackfill` later, neither under the WRITE lock. When the log was wholly
   copied at the first and a writer restarts it before the second, the checkpoint
   ends by setting `nBackfill` to the length of the *old* log. Commits that reach that
   length count as copied: readers take the old pages from the database file. A commit that leaves
   the log longer than a threshold asks a timed queue for a checkpoint
   (`Database.swift:438`); one that asks again while a checkpoint is about to read its
   header is how another comes to begin on a log that is copied.

Seen while modelling, without a run of their own; the properties of the passing runs
name them as exceptions:

* The completion of `openImagePicker` (`FYChatBaseViewController.swift:327-333`) calls
  `makeChatMessage`, hence `startChatTimer` (`:295`), wherever the room is. The widget
  may have pushed a room beneath the picker (`AppDelegate.swift:102-104`): then a covered
  group sends every ten seconds, against `// stop timer` in `viewDidDisappear` (`:80`).
  If the stack is popped to the root from above, the room does not disappear again, and
  `deinit` (`:234`), which would stop the timer, never runs since the timer holds the
  room. `OnlyPickersTickUnseen` says that this is the only way.
* The alerts say that the messages go with a chat (`FYContactsListViewController.swift:83`,
  `FYChatRoomListViewController.swift:83`). Chats and messages are deleted by two
  statements without a transaction (`FYContactsListViewController.swift:119-120`,
  `:211-212`, `FYChatRoomListViewController.swift:118-119`,
  `FYChatBaseViewController.swift:220-221`), so a process killed between them keeps the
  messages; a write that a room has deferred (`:309-312`) and that runs after its group
  was left stores one. Nothing removes them, and the next chat that gets the uid opens
  with them. `OnlyStraysOutliveChats` says that these are the only ways.
* A room writes its whole copy of the chat, the primary key too
  (`FYChatBaseViewController.swift:356`). If all groups were deleted and the uid was
  given again meanwhile, the new row gets the key of the old one. The list of groups is
  then in another order than the table's until it is reloaded, and after that the last
  row has not the greatest uid, so `addGroupData`
  (`FYChatRoomListViewController.swift:92-93`) gives the next group a uid that another
  one has. `GroupUidsUnique` and `GroupListMirrorsTable` say that nothing else does this.

Seen while reading: `readAllAction` clears the chats that have a
session and leaves the unread count of the others, while its HUD says that all are
read (`FYSesstionListViewController.swift:87`, `:96`); `folderSize` takes two entries
per turn and counts one (`FYFileSizeManager.swift:50`); a comment says that a busy
slot returns SQLITE_BUSY right away (`os_unix.c:4682`) where this build sleeps.

## 8. Proofs

### The application

Theorems of `Spec` of ChatRoom, for every set of friends and groups and every bound:

| theorem | property | module |
| --- | --- | --- |
| `TypeCorrect` | `TypeOK` | ChatRoomProofs |
| `ChatsKeepOneRow` | `OneChatPerUid` | ChatRoomProofs |
| `MessagesKeepTheirOrder` | `StoredInSendOrder` | ChatRoomProofs |
| `ChatRoomKeepsMessages` | `KeepsMessages` (refinement of Messaging) | ChatRoomProofs |
| `DeletedChatsStayGone` | `ChatStaysGone` | ChatRoomProofs |
| `BadgeNeverForgotten` | `BadgeMirrorsTables` | ChatRoomProofs |
| `OnlyPickersLeaveTimers` | `OnlyPickersTickUnseen` | ChatRoomProofs |
| `SessionsNeverStale` | `SessionsMirrorTables` | ChatRoomProofs |
| `ItemsKnowTheirKeys` | `ItemKeysAgree` | ChatRoomProofs |

These are all the safety properties that the passing runs of ChatRoom check.

*Assumptions.* `ChatRoomAssumption` (friends and groups are disjoint finite sets of
positive numbers, the bounds are naturals) and `NoNickNameAssumption` (nil is no
nickname). TLC evaluates both in every run.

*Database.* The lemmas of `DatabaseProofs` say, once for each write, that it maps
stores to stores, adds no uid (all but the insertion of a chat, which `ChatRoom`
never calls), and keeps one row per uid. The last is where the failure of
`updateFromChatModel` matters: it replaces the single row of a uid or does nothing.

*Types.* The invariant is `TypeOK /\ OneChatPerUid`, in two halves that are proved one
after the other: what the stack, the outbox and the tables say (`IInv`), then what is
presented and what is off the stack (`DroppedOK`, `ModalOK`). Neither part alone is
inductive for the proof's purposes: that the chat object read for a uid, and the
one written back under it, is a chat model with that uid needs both. It is split
into `IndicesOK` (what the stack, the outbox and the delayed blocks say of one
another), `ScalarsOK` and `OneRowPerUid`, since most actions leave two of the
three alone. The hard cases are `popEnds` and `poppedToRoot`, which need that no
task and no block refers to a screen that goes, and `forwardRemoved`, which takes a
screen out of the middle: `IsFirstForward` gives its kind, and every index above
shifts by one while a shared screen stays on its info screen.

*Order.* `StoredInSendOrder` is not inductive: it says nothing of the messages that
wait. `OrderInv` adds that the outbox is sorted by stamp, that all of it is later than
every stored row, that no stamp exceeds `sent`, and that no key exceeds
`messageSeq`. Appending new stamps keeps it; `beginCacheMessage` moves the head,
the least of what waits, above all keys given so far; deletions only shrink.

*Refinement.* `OrderInv` is also what the refinement needs: `Messaging` stores the
oldest message that waits, and it is the head of the outbox because the outbox is
sorted. `InitKeeps` maps the initial state; `NextKeeps` maps each step: deletions
and every step that writes no message (`QuietKeeps`), sending from any room
(`SendingKeeps`), the deferred write (`StoringKeeps`), the block of a forward, and
rooms that move down or a process that is killed (`MovedOrLostKeeps`).

*Gone chats.* Every step leaves the set of uids of the chat table the same or
smaller (`NoNewUid`), action by action, from the lemma that an update writes under
a uid only where one is already.

*Badge.* Every step asks for a redraw, redraws, or writes neither the badge nor a
chat (`BadgeStep`). The delicate case is a room without a chat, whose deferred write
posts nothing: it stores a message and touches no unread count.

*Timer.* `UnseenOf` is the set of rooms that tick off the screen. Every step but a
picker's completion leaves it the same or smaller (`TimersStep`): screens that change
in place start no timer, with the one exception of sending, which from the keyboard is
sending on top; a push stops the timer of the screen it covers; the end of a pop
uncovers a screen, which leaves the set; popping to the root stops the timer on top and
drops the others as they are (`PoppedTimers`). Only a screen removed from the middle
changes the indices: the rooms that tick unseen afterwards are the images of others
before it, so there are no more of them (`MovedTimers`), and a stack is finite
(`FiniteTimers`).

*Sessions.* `SessionsMirrorTables` is not inductive: a room whose chat object has no
uid (the widget or a forward opened it after the chat was deleted) writes a message
without a notification. `Orphans` says that such a write carries a chat id that no
row of the chat table has, which stays true because no uid ever comes back
(`NoNewUid`) and because rooms move with their writes; storing that message then
changes no session (`NoSessionChanges`).

*Keys.* `ItemKeysAgree` is strengthened by "no item has a key beyond `messageSeq`".
Every item was shown before, has no key, or is a row read in this step
(`ItemsStep`); every row that a step adds has a key beyond all given (`RowsStep`).
Rows of a table in order know their own keys, since one key has one stamp.

Theorems of `Spec` of ChatList and of MediaBrowser, for every value of the bounds:

| theorem | property | module |
| --- | --- | --- |
| `ListTypeCorrect` | `TypeOK` | ChatListProofs |
| `GroupUidsAreUnique` | `GroupUidsUnique` | ChatListProofs |
| `GroupsMirrorTheTable` | `GroupListMirrorsTable` | ChatListProofs |
| `DeletionsTakeTheHistory` | `OnlyStraysOutliveChats` | ChatListProofs |
| `BrowserOpensOnAPage` | `TypeOK` | MediaBrowserProofs |
| `BrowserOpensOnTheTapped` | `OpensOnTheTapped` | MediaBrowserProofs |

These are all the properties that their passing runs check.

*Rows.* The rows of a table are its chats in the order of their keys, the k-th row
the chat whose key is the k-th (`Nth`). `NthOf` shows that every place up to the
number of keys has exactly one key: ranks are an injection into as many places, and
an injection between finite sets of one size is onto. `InsertAddsRow` and
`SameRows` say what a write does to the rows.

*Lists.* `ListInv` carries `TypeOK` and `OnlyStraysOutliveChats`. It adds that the table
holds chats of this list alone, under keys of their own, and their messages
(`TableOK`); that only the first block of the queue may delete, since a deletion starts
on an empty queue (`QueueOK`); and that a room holds a row as it was once, or no chat
(`RoomsOK`), so that whatever a room writes, and whenever, the table stays one. Each
write of the tables has a lemma that says which messages it leaves without a chat:
`DeleteOne` and `DeleteAll` take all of theirs along, an update keeps every uid
(`UpdatingKeepsTable`), and what a room or a kill adds is in `stray` (`Cached`,
`CutShortKeeps`).

*Groups.* `GroupInv` says what holds until `rekeyed`: keys grow with uids (`InOrder`); the
list is the table, as it is after a pending deletion, followed by what the queue inserts
(`GroupRows`), in the order of the uids (`RowsInOrder`). A new uid is one more than the
last row, hence more than all that are stored or wait (`InsertionIsLast`). A room that
writes under the key its chat has changes no row (`WritesInPlace`); one that opens has
that key (`OpenedFresh`); and one whose chat went, while another has its uid, is what
`rekeyed` records. Without it the order is lost, as it is in the code.

*Loops.* `BrowserData` is a recursive function over the rows. That the loop gets to
its end (`LoopRuns`) and has found the page of every row by then (`BrowserDataFinds`)
are inductions, which the provers cannot cite as a theorem: both suppose that a turn
fails, take the first that does, and derive it from the one before.

### The storage engine

For every set of connections and slots, any number of marks, pages and crashes:

| theorem | property | specification |
| --- | --- | --- |
| `ShmTypeCorrect` | `ShmTypeOK` | ShmSpec |
| `SlotsAreExclusive` | `MutualExclusion` | ShmSpec |
| `FileLocksFollow` | `FileLockMirrors` | ShmSpec |
| `WakeUpsAreKept` | `NoWakeUpLost` | ShmSpec |
| `ShmLockImplementsSlotLocks` | `ImplementsSlotLocks` | ShmSpec |
| `ProtocolIsLawful` | ShmSpec | Spec of WalLocking |
| `ProtocolTypeCorrect`, `ProtocolIsExclusive`, `ProtocolKeepsFileLocks`, `ProtocolLosesNoWakeUp`, `ProtocolImplementsSlotLocks` | the five above | Spec of WalLocking |
| `ReadersKeepTheirMarks` | `HeldMarksStay` | Spec of Wal |
| `WritersAreAlone` | one writer | Spec of Wal |
| `EveryCommitIsSeen` | `CommitsAreSeen` | Spec of Wal, `~IdleCheckpoints` |
| `KilledKeepsCommits` | `KilledNowKeepsCommits` | Spec of Wal, `~IdleCheckpoints` |
| `PowerLossKeepsSynced` | `SyncedSurvives` | Spec of Wal, `~IdleCheckpoints` |
| `WalKeepsThePromises` | `KeepsThePromises` (refinement of Store) | Spec of Wal, `~IdleCheckpoints` |
| `LogStaysTyped` | `TypeOK` | Spec of Wal, `~IdleCheckpoints` |

These are all the safety properties that the runs of WalLocking and Wal check.

*Assumptions.* `MainAssumption`, `WalLockingAssumption`, `WalAssumption`: the slots
include the numbers the code uses, those that checkpoint are connections, pages are a
finite set of numbers that is not empty (a database has a first page).
`BoundsAssumption`: the bounds of transactions and salts are numbers. The last five
assume in addition what the runs `Wal` and `WalCrashes` do: no checkpoint begins on a
log that is wholly copied. Finding 5 is the counterexample without it. Kills and power
losses are part of `Spec`, and nothing is assumed of `MaxCheckpoints` and `MaxFaults`.

*Calls.* One invariant, `ShmInv`, carries the first four. `FileLockMirrors` is the hard
one: an unlock looks at the other connections' shared slots only, and leaves the
right lock on the file because slots are exclusive, within a connection too
(`OwnLocksApart`). For the queue, `SignalKeepsSleepersQueued` shows that popping the
front wakes whom it pops, and `TrySignalEmpties` that the last unlock pops them all.

*Protocol.* ShmLock asks one thing of its callers: to unlock what they hold. Why a
thread does is told by where it is (`Holds`): a thread about to give back the marks
holds them all, one that has read nothing holds nothing shared. `Moves` says that a
step is a lawful call after which this is true again, one lemma per part of the
protocol. Then every behaviour of WalLocking is one of ShmLock, and the other
theorems are corollaries.

*Marks.* `WalInv` says that slots exclude and that a connection half-way through a
recovery or a restart holds the slots whose marks it is about to move. A mark moves
in five places; in three it was just found free, in two the mover holds it
(`StepOf`), and a crash takes the reader along.

*Contents.* That a reader which began now would read the last commit is `Seen`: for
every page, its last frame after the backfill count and up to the header's, or else
the database, has what the last commit wrote. It needs to be known of everybody who
is under way (`ContentInv`, one part per connection):

* a writer holds the WRITE lock, has the shared header, and has put its frames behind
  the header's, one for each page done (`LogHolds`), so publishing them changes
  exactly its pages;
* a checkpoint has an iterator that is right for its copy of the header, and the
  pages it has dealt with have reached the database (`Copies`), so that raising the
  backfill count takes away no frame that is needed;
* the log is restarted only by a writer that reads the database alone. It does so
  since all frames were copied (`ZeroReads`), and nobody can have changed that while
  it kept READ_LOCK(0): a header never returns to an earlier salt or frame (`Before`);
* a restart finds no checkpoint under way: one that has work to do has a header
  whose frames are not all copied (`NobodyCopies`). This is where a checkpoint on a
  wholly copied log would break the argument, as it breaks the code.

There is one lemma per action; `Quietly`, `FreeStep` and `CopierStep` dispose of the
steps that change nothing the others build on.

*Files.* The log is a chain: a frame names the frame it continues (`Chained`), and
`EndsAt` says where the last commit of the chain of a salt is; `RecoveredEnd` shows that
walIndexRecover finds it. `FileInv` then says of the log file, whatever lies behind its
end,

* where the chain of the header's salt ends: at the header's last frame (`Headed`), or
  behind the frames of a commit that is about to be published (`Logged`);
* that frames of the header show the last content, copied or not (`Told`), and what
  recovery would show (`Kept`);
* that the transaction being written has a name no other frame has or continues
  (`Fresh`). This is why the old frames behind the new ones never go on with the
  chain, and it is lost when the checksum covers a frame alone.

`KilledNow` is then a lemma about one state, and Recover finds what `Rebuildable` of
ContentInv asks for.

*Disk.* `DiskInv` says how the disk lags behind the files:

* `Unmixed`: no chain of new and old frames of a salt in use comes to a commit unless it
  is the log's own. Its argument is `MixedBack`: a frame is known by its transaction
  (`Named`) and names the frame it continues, so two chains that come to the same
  frame are one;
* `HdrSynced`: frames follow a header only when it is on the disk. Without that sync the
  frames of the old log, found under the old header, break `Recoverable`;
* `Backed`, `Copied`: a page that was copied but not synced is in the log that is synced,
  and once all of the log is copied the database is synced. So torn pages are hidden
  behind frames, and the log that is restarted is not needed any more;
* `Recoverable`: every commit of the log's chain that goes on what is on the disk shows
  a content no older than `durable`.

After a power loss recovery finds, by `Unmixed`, a chain of the log (`Survives`) that is
at least as long as what was synced; by `Backed` and `Recoverable` its frames over
whatever is left of the database show one of the contents in question. That the two
invariants hold again after the loss (`PowerLossKeeps`) makes the theorems hold for any
number of crashes.

*Snapshots.* What is left of `Store` is about a transaction in its middle: it sees the
content it began with until it ends. `ReadInv` says why. A transaction shares exactly one
read lock (`Shares`); under a mark it reads the frames from its `minFrame` to its header's
last, of which none that is not copied is left out and none is behind the header's
(`Within`); and a checkpoint that has looked at its mark copies no frame behind those it
reads (`Spares`). The last is the one a mark exists for: it has to be carried through
the loop over the marks, and a transaction that begins while the loop runs is spared too,
because it reads up to the header's last frame and the checkpoint's header is no younger. Three
lemmas draw on it. `ReadStays`: a step that leaves the frames of the header where they are, and
changes a page of the database only where the transaction has a frame of it, changes
nothing of what it reads; `Unaware` applies it to every step of another connection.
`LatestRead`: who has the latest header reads the last content, which is why a writer that
compares headers after taking its lock may begin (`BeginsToWrite`), and why one that
changes READ_LOCK(0) for a mark goes on with the same content. A transaction's name is in
no content (`HistoryCounted`), so that what it writes is new.

*Refinement of Store.* One lemma per action says what it is to its own connection
(`Still`, `Begins`, `Closes`, `BeginsToWrite`, `RollsBack`, `Commits`) and that it is
nothing to the others (`Others`). `BeginStep` to `PowerLossStep` turn each of these into
the action of `Store`; `PromisesKept` puts them together. A commit happens at `Publish`,
or when the process stops between the last frame and `Publish` (`Reached`).

*Values.* `Kinds` follows pages and transactions from frame to index, database and history:
a checkpoint copies a frame that is counted, a torn frame names page 0, and a mix of files
after a power loss has nothing in it that neither had. The count of a salt comes from
`LogCounted` and `Salted`, what is shared from `Shares`.

## 9. Model-checked, not proved

Liveness (`SentIsStored`, `BadgeCatchesUp`, `SleepersAreWoken`) is beyond the prover: it
rests on fairness. Every other property of a passing run is also a theorem; the runs
that expect a violation refute what they check.

## 10. Left out

* The copies of a nickname in message rows: the session list takes the chat's.
* The order of the session list. Its comparator is `>=` on a date with seconds,
  for which `sorted` promises nothing.
* Who a message is from is drawn at random and not recorded, so an avatar may be
  tapped in every room with a message.
* One module of lists and rooms together. `ChatRoom` adds no chats; `ChatList` knows of a
  room only what it writes.
* Layout, keyboard, cells, audio and video; a local video that is not in the bundle.
* A kill *between two statements* of one handler in `ChatRoom`: its `relaunch` happens
  between actions. `ChatList` has these kills (`killedInBlock`, `killedInExit`,
  `killedInWrite`).
* What an unread count should be: rooms replace the stored count by their own
  counter and may lower it, and no text says what is right. The model does
  the same, and only the badge's agreement with the table is checked.
* In the storage engine: pages spilled from the cache during a transaction and the
  checksums rewritten then; collisions in the hash tables; a header that is read while
  it is half written (two copies and a checksum guard it); the checkpoints that wait
  (full, restart, truncate), which nothing in the app asks for; the log's deletion
  when the last connection closes; a log header of which one part is written (it fits
  a sector), and a sync that fails and takes pages with it (a later one is taken to
  cover them); other processes (the widget reads shared defaults,
  not the database); the same queue for file locks (`unixLock`), which a WAL database
  takes only when it is opened and closed.
* Overflow: keys, counters and stamps are naturals. They are 64 bits wide in the
  code and grow by one per message.

## 11. Plan

Order of the whole, the most important first; what is listed is done up to 9.

1. `Database`, `ChatRoom`: sending, timer, deferred writes, notifications.
2. Forwarding, info and edit screens, widget, relaunch.
3. `ChatList`, `MediaBrowser`.
4. Proofs of every safety property of `ChatRoom`, `ChatList` and `MediaBrowser`.
5. `Messaging`, the abstract specification, as a PROPERTY of a run and as a theorem.
6. The locks of the storage engine: `SlotLocks`, `ShmLock`, `WalLocking`, and their
   proofs.
7. The write-ahead log: `Store`, `Wal`, crashes, and the proofs about marks, writers,
   what is seen of commits and what survives a kill and a power loss.
8. The refinement of `Store` by `Wal` and its `TypeOK`, as theorems.
9. Rooms that outlive their chats and kills between two statements, in `ChatList`;
   pickers and alerts over covered rooms, in `ChatRoom`. Done.
10. Not begun: one module of the lists and the screens above them; the file locks of
   rollback journals.

## 12. Running it

    tlc -workers 2 -config ChatRoomSafety.cfg MCChatRoom
    tlc -workers 2 -config Wal.cfg MCWal
    tlapm ChatRoomProofs.tla

Which module a configuration belongs to is in `PROJECT.json` under `runs`. The large
runs take one to three minutes each; the proofs some minutes each, those of
`WalRecoveryProofs` and `WalStoreProofs` about eight.
