------------------------------ MODULE ChatList ------------------------------
(***************************************************************************)
(* The list of friends (FYContactsListViewController) or of groups         *)
(* (FYChatRoomListViewController): adding, deleting one, deleting all.     *)
(*                                                                         *)
(* The list changes its dataSource at once and the table later, in a block *)
(* on the main queue; a notification replaces the dataSource by the table. *)
(* Touches come between those blocks, an alert lies over the list from a   *)
(* tap to its confirmation, and the process may be killed, also between    *)
(* the two statements of a deletion.                                       *)
(*                                                                         *)
(* Rooms, opened from the list or by a tap on the widget, keep their own   *)
(* copy of the chat.  They store their messages whenever their blocks run, *)
(* whether or not the list or an alert is on the screen, or the chat is    *)
(* still there.  A row of the dataSource is the uid of its model.          *)
(***************************************************************************)
EXTENDS Database, Sequences, SequencesExt

CONSTANTS
  MaxChats,          \* bound: chats ever inserted or about to be
  MaxBlocks,         \* bound: blocks of this list on the main queue
  MaxMessages,       \* bound: messages ever stored
  MaxRooms           \* bound: rooms that may still write

ASSUME ChatListAssumption ==
  {MaxChats, MaxBlocks, MaxMessages, MaxRooms} \subseteq Nat

VARIABLES
  list,          \* which list: SingleChat the friends, GroupedChat the groups
  db,            \* the tables, see Database
  dataSource,    \* the uids of the rows
  queue,         \* this list's blocks on the main queue
  alert,         \* the alert over the list: of one row, of all, or none
  deleteHidden,  \* deleteButton.isHidden
  covered,       \* TRUE while another screen lies over the list
  rooms,         \* the chats of the rooms that may still write, their copies
  widget,        \* the chat of the message shared with the widget
  stray,         \* history: messages stored when their chat was gone, or left
                 \* by a deletion that was cut short
  rekeyed        \* history: a room wrote a chat back under another key than
                 \* the one it has in the table

vars == <<list, db, dataSource, queue, alert, deleteHidden, covered, rooms,
          widget, stray, rekeyed>>

(* The uid of the first chat that is added to an empty list *)
FirstUid == IF list = SingleChat THEN 10000 ELSE 10

(* kNeedRefreshSesstionList reloads the friends; the list of groups only    *)
(* observes kNeedRefreshChatInfoList.                                      *)
ObservesSessions == list = SingleChat

Task == [kind: {"insert", "delete", "deleteAll"}, uid: Nat]

(* deleteChatFriend keeps the row that was swiped *)
Alert == [kind: {"none", "one", "all"}, row: Nat]

NoAlert == [kind |-> "none", row |-> 0]

(* The k-th of a set of numbers *)
Nth(S, k) == CHOOSE x \in S : Cardinality({y \in S : y <= x}) = k

(* The rows of a store, in the order of their keys *)
Rows(store) ==
  LET chats == qureyFromChatsWithType(store, list)
      keys  == {c.id : c \in chats}
  IN  [k \in 1 .. Cardinality(keys) |->
         (CHOOSE c \in chats : c.id = Nth(keys, k)).uid]

Inserting == {k \in DOMAIN queue : queue[k].kind = "insert"}

(* From an alert, or from another screen, to the next touch of it takes     *)
(* longer than the blocks that are waiting.                                *)
Settled == queue = <<>>

CanDefer == Len(queue) < MaxBlocks

(* The list takes touches *)
Shown == ~covered /\ alert = NoAlert

-----------------------------------------------------------------------------
(* Mutant: every list reloads itself on kNeedRefreshSesstionList *)
reloadUserDataAlways(store) == dataSource' = Rows(store)

(* The observer of kNeedRefreshSesstionList *)
reloadUserData(store) ==
  dataSource' = IF ObservesSessions THEN Rows(store) ELSE dataSource

(* The observer of kNeedRefreshChatInfoList; for the groups, loadGroupData *)
reloadEveryList(store) ==
  /\ dataSource' = Rows(store)
  /\ deleteHidden' = IF ObservesSessions THEN deleteHidden ELSE dataSource' = <<>>

(* Mutant: the uid counts the rows *)
NextUidByCount(rows) == Len(rows) + 1

NextUid(rows) == IF rows = <<>> THEN FirstUid ELSE Last(rows) + 1

(* addUserData, addGroupData *)
addUserData ==
  /\ Shown /\ CanDefer
  /\ db.chatSeq + Cardinality(Inserting) < MaxChats
  /\ LET uid == NextUid(dataSource)
     IN  /\ dataSource' = Append(dataSource, uid)
         /\ queue' = Append(queue, [kind |-> "insert", uid |-> uid])
  /\ UNCHANGED <<list, db, alert, deleteHidden, covered, rooms, widget, stray,
                 rekeyed>>

(* The swipe on a friend; the list of groups has none *)
deleteChatFriend(row) ==
  /\ Shown /\ list = SingleChat
  /\ alert' = [kind |-> "one", row |-> row]
  /\ UNCHANGED <<list, db, dataSource, queue, deleteHidden, covered, rooms,
                 widget, stray, rekeyed>>

showDeleteAlert ==
  /\ Shown /\ ~deleteHidden
  /\ alert' = [kind |-> "all", row |-> 0]
  /\ UNCHANGED <<list, db, dataSource, queue, deleteHidden, covered, rooms,
                 widget, stray, rekeyed>>

cancelAlert ==
  /\ alert # NoAlert /\ alert' = NoAlert
  /\ UNCHANGED <<list, db, dataSource, queue, deleteHidden, covered, rooms,
                 widget, stray, rekeyed>>

(* Confirmed, for the friend that is in that row by now *)
handleDeleteContactsAtRow ==
  /\ alert.kind = "one" /\ Settled
  /\ alert' = NoAlert
  /\ IF alert.row \in DOMAIN dataSource
     THEN /\ dataSource' = RemoveAt(dataSource, alert.row)
          /\ queue' = Append(queue, [kind |-> "delete", uid |-> dataSource[alert.row]])
     ELSE UNCHANGED <<dataSource, queue>>
  /\ deleteHidden' = (dataSource' = <<>>)
  /\ UNCHANGED <<list, db, covered, rooms, widget, stray,
                 rekeyed>>

(* removerUserData, removerGroupData: the alert is confirmed *)
removerUserData ==
  /\ alert.kind = "all" /\ Settled
  /\ alert' = NoAlert
  /\ dataSource' = <<>>
  /\ queue' = Append(queue, [kind |-> "deleteAll", uid |-> 0])
  /\ UNCHANGED <<list, db, deleteHidden, covered, rooms, widget, stray,
                 rekeyed>>

-----------------------------------------------------------------------------
(* The blocks *)

(* The first statement of a block *)
Begun(store, task) ==
  CASE task.kind = "insert" -> insertFromChat(store, task.uid, list)
    [] task.kind = "delete" -> deleteFromChatWithId(store, task.uid)
    [] OTHER -> deleteFromChatsWithType(store, list)

(* Mutant: deleting a chat leaves its messages *)
DeletedChatOnly(store, task) == Begun(store, task)

(* What a block does to the tables *)
Written(store, task) ==
  CASE task.kind = "insert" -> Begun(store, task)
    [] task.kind = "delete" -> deleteFromMesssageWithId(Begun(store, task), task.uid)
    [] OTHER -> deleteFromMessagesWithType(Begun(store, task), list)

(* The next block of this list: an insertion posts no notification, and    *)
(* only the deletion of one row leaves the button alone.                   *)
runBlock ==
  /\ queue # <<>>
  /\ queue' = Tail(queue)
  /\ db' = Written(db, Head(queue))
  /\ deleteHidden' = IF Head(queue).kind = "delete" THEN deleteHidden
                     ELSE dataSource = <<>>
  /\ IF Head(queue).kind = "insert" THEN UNCHANGED dataSource
                                    ELSE reloadUserData(db')
  /\ UNCHANGED <<list, alert, covered, rooms, widget, stray,
                 rekeyed>>

-----------------------------------------------------------------------------
(* Rooms *)

Gone(store, uid) == queryChatFromAllChats(store, uid) = {}

(* The copy of a room; its own count starts at 0 *)
RoomOf(chat) == [chat EXCEPT !.unReadCount = 0]

CanOpen(room) == Cardinality(rooms \cup {room}) <= MaxRooms

Clears(chat) == queryFromSesstionsUnReadCount(db) > 0 /\ chat.uid # 0

(* A room with the chat of that uid opens, and the badge of the chat goes. *)
(* The chat of a row that waits to be inserted is not found.               *)
Opens(uid) ==
  LET chat == qureyFromChatId(db, uid)
  IN  /\ CanOpen(RoomOf(chat))
      /\ rooms' = rooms \cup {RoomOf(chat)}
      /\ IF Clears(chat)
         THEN /\ db' = updateFromChatModel(db, RoomOf(chat), chat.uid)
              /\ reloadUserData(db')
         ELSE UNCHANGED <<db, dataSource>>
      /\ covered' = TRUE
      /\ UNCHANGED <<list, queue, alert, deleteHidden, widget, stray,
                     rekeyed>>

(* A tap on a row of this list *)
didSelectRow(row) ==
  /\ Shown
  /\ Opens(dataSource[row])

(* A tap on the other tab or on a screen of this one that opens no room *)
leaveList ==
  /\ Shown
  /\ covered' = TRUE
  /\ UNCHANGED <<list, db, dataSource, queue, alert, deleteHidden, rooms,
                 widget, stray, rekeyed>>

(* Another screen is touched *)
Elsewhere == covered /\ alert = NoAlert /\ Settled

(* A tap on a session, the entry of a chat that has messages *)
didSelectSession(uid) ==
  /\ Elsewhere
  /\ qureyFromMessagesWithChatId(db, uid) # {}
  /\ Opens(uid)

(* A tap on the widget, whatever is on the screen, beneath an alert too *)
openWidgetChat ==
  /\ widget > 0 /\ CanOpen(RoomOf(qureyFromChatId(db, widget)))
  /\ rooms' = rooms \cup {RoomOf(qureyFromChatId(db, widget))}
  /\ covered' = TRUE
  /\ UNCHANGED <<list, db, dataSource, queue, alert, deleteHidden, widget, stray,
                     rekeyed>>

(* A room sends: the widget has the message at once, the table later *)
reloadChatData(room) ==
  /\ widget' = room.uid
  /\ UNCHANGED <<list, db, dataSource, queue, alert, deleteHidden, covered,
                 rooms, stray, rekeyed>>

StoredBy(store, room) ==
  insertFromMessage(store, room.uid, room.chatType, store.messageSeq + 1)

(* The messages a write of this room leaves without a chat *)
StrayBy(room) ==
  IF room.uid # 0 /\ Gone(db, room.uid) THEN {db.messageSeq + 1} ELSE {}

(* The chat went, and another has its uid by now, under a key of its own *)
Rekeys(room) == \E c \in db.chat : c.uid = room.uid /\ c.id # room.id

(* The deferred write of a message, and of the room's copy of the chat     *)
(* under its old key.                                                      *)
beginCacheMessage(room) ==
  /\ db.messageSeq < MaxMessages
  /\ IF room.uid = 0
     THEN /\ db' = StoredBy(db, room)
          /\ UNCHANGED dataSource
     ELSE /\ db' = updateFromChatModel(StoredBy(db, room),
                                       [room EXCEPT !.unReadCount = 1], room.uid)
          /\ reloadUserData(db')
  /\ stray' = stray \cup StrayBy(room)
  /\ rekeyed' = (rekeyed \/ Rekeys(room))
  /\ UNCHANGED <<list, queue, alert, deleteHidden, covered, rooms, widget>>

(* 退出群, confirmed; kNeedRefreshChatInfoList reloads both lists *)
CanExit(room) == Elsewhere /\ room.chatType = GroupedChat

exitGroupChat(room) ==
  /\ CanExit(room)
  /\ db' = deleteFromMesssageWithId(deleteFromChatWithId(db, room.uid), room.uid)
  /\ reloadEveryList(db')
  /\ UNCHANGED <<list, queue, alert, covered, rooms, widget, stray,
                 rekeyed>>

(* Another screen deletes messages, writes a chat of the other list, or    *)
(* saves a nickname; only the last reloads the groups.                     *)
otherScreens(kept) ==
  /\ Elsewhere
  /\ db' = [db EXCEPT !.message = {r \in @ : r.id \in kept}]
  /\ \/ reloadUserData(db') /\ UNCHANGED deleteHidden
     \/ reloadEveryList(db')
  /\ UNCHANGED <<list, queue, alert, covered, rooms, widget, stray,
                 rekeyed>>

(* A room of the other list writes whenever its blocks run *)
otherRooms ==
  /\ reloadUserData(db)
  /\ UNCHANGED <<list, db, queue, alert, deleteHidden, covered, rooms, widget,
                 stray, rekeyed>>

(* Back to the list: viewDidAppear sets the button.  A timer or a write not *)
(* done yet holds the room it belongs to.                                  *)
viewDidAppear ==
  /\ Elsewhere
  /\ covered' = FALSE
  /\ rooms' \in SUBSET rooms
  /\ deleteHidden' = (dataSource = <<>>)
  /\ UNCHANGED <<list, db, dataSource, queue, alert, widget, stray,
                 rekeyed>>

-----------------------------------------------------------------------------
(* The process is killed and launched again *)

Relaunched(store) ==
  /\ dataSource' = Rows(store)
  /\ queue' = <<>> /\ alert' = NoAlert /\ covered' = FALSE /\ rooms' = {}
  /\ deleteHidden' = (dataSource' = <<>>)
  /\ UNCHANGED <<list, widget, rekeyed>>

relaunch == Relaunched(db) /\ UNCHANGED <<db, stray>>

Strays(store) == {r.id : r \in {m \in store.message : m.chatId # 0 /\ Gone(store, m.chatId)}}

(* Killed between two statements: of a block, of an exit, of a write *)
CutShort(store) ==
  /\ db' = store
  /\ stray' = stray \cup Strays(store)
  /\ Relaunched(store)

killedInBlock == queue # <<>> /\ CutShort(Begun(db, Head(queue)))

killedInExit(room) == CanExit(room) /\ CutShort(deleteFromChatWithId(db, room.uid))

killedInWrite(room) ==
  db.messageSeq < MaxMessages /\ room.uid # 0 /\ CutShort(StoredBy(db, room))

(* Installed: no friend, no group *)
Init ==
  /\ list \in {SingleChat, GroupedChat}
  /\ db = [chat |-> {}, message |-> {}, chatSeq |-> 0, messageSeq |-> 0]
  /\ dataSource = <<>> /\ queue = <<>> /\ alert = NoAlert
  /\ deleteHidden = TRUE /\ covered = FALSE
  /\ rooms = {} /\ widget = 0 /\ stray = {} /\ rekeyed = FALSE

Next ==
  \/ addUserData \/ showDeleteAlert \/ cancelAlert
  \/ handleDeleteContactsAtRow \/ removerUserData \/ runBlock
  \/ leaveList \/ openWidgetChat \/ otherRooms \/ viewDidAppear \/ relaunch \/ killedInBlock
  \/ \E row \in DOMAIN dataSource : deleteChatFriend(row) \/ didSelectRow(row)
  \/ \E uid \in {c.uid : c \in db.chat} : didSelectSession(uid)
  \/ \E room \in rooms :
       \/ reloadChatData(room) \/ beginCacheMessage(room) \/ exitGroupChat(room)
       \/ killedInExit(room) \/ killedInWrite(room)
  \/ \E kept \in SUBSET {r.id : r \in db.message} : otherScreens(kept)

Spec == Init /\ [][Next]_vars

-----------------------------------------------------------------------------
(* Properties *)

(* Types; the uids of friends and of groups start far apart (10000 and 10), *)
(* which is all that keeps the rows of one list out of the other.          *)
TypeOK ==
  /\ list \in {SingleChat, GroupedChat}
  /\ db \in Store
  /\ dataSource \in Seq({uid \in Nat : uid >= FirstUid})
  /\ queue \in Seq(Task)
  /\ alert \in Alert /\ deleteHidden \in BOOLEAN /\ covered \in BOOLEAN
  /\ rooms \subseteq ChatModel /\ widget \in Nat /\ stray \subseteq Nat
  /\ rekeyed \in BOOLEAN

(* 删除单个好友或者群 (FYDBQueryHelper.swift:154): a uid is one friend or one *)
(* group, so that what is done by uid is done to one.                      *)
UidsUnique == \A c, e \in db.chat : c.uid = e.uid => c = e

(* The groups keep that promise, but for rooms that outlive their group: the *)
(* last row of their list has the uid of the last group, stored or waiting *)
(* to be (addGroupData), because no notification replaces the list while   *)
(* an insertion waits; unless a room wrote an old key over a group that    *)
(* has the uid now (beginCacheMessage), which changes the order of rows.   *)
GroupUidsUnique == list = GroupedChat /\ ~rekeyed => UidsUnique

(* With no block left to run, the list of groups shows the table, but for   *)
(* such a write, of which that list is not told.                           *)
GroupListMirrorsTable ==
  list = GroupedChat /\ ~rekeyed /\ queue = <<>> => dataSource = Rows(db)

(* 删除后，会话记录也将清除, the text of both alerts: however deletions by uid *)
(* and by type, confirmed alerts, waiting blocks and writes of rooms follow *)
(* each other, a message is without its chat, for the next chat of that    *)
(* uid to find, only if it was stored after the chat went                  *)
(* (beginCacheMessage) or the process was killed between the statements of *)
(* a deletion (removerUserData, handleDeleteContactsAtRow, exitGroupChat). *)
OnlyStraysOutliveChats ==
  \A r \in db.message : r.chatId # 0 /\ Gone(db, r.chatId) => r.id \in stray

=============================================================================
