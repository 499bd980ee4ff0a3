------------------------------ MODULE ChatRoom ------------------------------
(***************************************************************************)
(* The messaging core of JetChat: the stack of screens above a root list,  *)
(* the chat rooms on it, the work they defer to the main queue, the        *)
(* session list with its badges, the widget, and the database under them.  *)
(*                                                                         *)
(* Everything runs on the main thread.  What interleaves is the user, the  *)
(* repeating timer of a group room, blocks deferred by DispatchQueue.main, *)
(* blocks delayed by asyncAfter, taps on the widget, and a killed process. *)
(*                                                                         *)
(* reloadChatData defers the write of a message twice (main.async, then    *)
(* the completion of reloadData); both run in the order they were asked    *)
(* for, so "outbox" keeps one entry per message.  A screen transition      *)
(* outlasts the deferred blocks of the screens it moves.                   *)
(*                                                                         *)
(* A room lives longer than it is seen: a picker or an alert presented over *)
(* it, or its repeating timer, holds it when other screens cover it, and   *)
(* when all screens are popped at once.                                    *)
(***************************************************************************)
EXTENDS Database, Sequences, SequencesExt

CONSTANTS
  Friends,        \* the uids of the friends in the contact list
  Groups,         \* the uids of the groups the user has joined
  MaxSent,        \* bound: message objects created
  MaxDepth,       \* bound: screens on the navigation stack, or held off it
  MaxDelayed      \* bound: blocks waiting for an asyncAfter deadline

ASSUME ChatRoomAssumption ==
  /\ Friends \subseteq Nat \ {0} /\ IsFiniteSet(Friends)
  /\ Groups \subseteq Nat \ {0} /\ IsFiniteSet(Groups)
  /\ Friends \cap Groups = {}
  /\ MaxSent \in Nat /\ MaxDepth \in Nat /\ MaxDelayed \in Nat

VARIABLES
  db,         \* the tables, see Database
  stack,      \* the screens above the root, the one on top last
  dropped,    \* the first "dropped" of them are off the navigation stack
  modal,      \* the picker or alert presented over everything, by its room
  popping,    \* TRUE while the top screen is being popped
  outbox,     \* messages shown but not yet written, in main queue order
  delayed,    \* asyncAfter blocks and push completions not yet run
  sessions,   \* FYSesstionListViewController.dataSource
  badgeDue,   \* a deferred showSessionBadge has not run yet
  tabBadge,   \* tabBarItem.badgeValue of the session tab
  widget,     \* the message shared with the home screen widget
  sent,       \* message objects created so far: the last stamp
  confirmed   \* history: forwarded messages the HUD reported as sent

vars == <<db, stack, dropped, modal, popping, outbox, delayed, sessions, badgeDue, tabBadge,
          widget, sent, confirmed>>

Uids == Friends \cup Groups

(* An entry of a room's dataSource; id 0 for an object that was not read   *)
(* from the table.  A room shows its items in stamp order.                 *)
Item == [id: Nat, stamp: Nat]

(* A view controller.  "shared": its chatModel is the object of the info   *)
(* screen beneath it.  "targets": the chats a forward screen lists.        *)
Screen == [kind: {"room", "info", "edit", "forward"}, model: ChatModel,
           shared: BOOLEAN, badge: Nat, isTimered: BOOLEAN, ticking: BOOLEAN,
           items: SUBSET Item, targets: SUBSET Nat]

(* A deferred beginCacheMessage: the message and the room that sent it,     *)
(* "unseen" if that room was not on the screen.                            *)
Task == [room: Nat, stamp: Nat, chatId: Nat, chatType: 0 .. 2,
         unseen: BOOLEAN]

(* TZImagePickerController, or the alert of 退出群 *)
Modal == [kind: {"none", "picker", "alert"}, room: Nat]

NoModal == [kind |-> "none", room |-> 0]

(* A delayed block of the screen "host" of the stack; host 0 once that     *)
(* screen has no navigationController any more.                            *)
Block == [kind: {"forward", "remove", "popToRoot"}, host: Nat, target: Nat,
          chatType: 0 .. 2, ticket: Nat]

-----------------------------------------------------------------------------
(* Screens and their chat model objects *)

NewScreen(kind, model) ==
  [kind |-> kind, model |-> model, shared |-> FALSE, badge |-> 0,
   isTimered |-> FALSE, ticking |-> FALSE, items |-> {}, targets |-> {}]

Owner(stk, i) == IF stk[i].shared THEN i - 1 ELSE i

ModelAt(stk, i) == stk[Owner(stk, i)].model

(* dataSource after loadCacheData: a room without a uid keeps its items *)
loadCacheData(store, model, items) ==
  IF model.uid = 0 THEN items
  ELSE {[id |-> r.id, stamp |-> r.stamp] :
          r \in qureyFromMessagesWithChatId(store, model.uid)}

NewRoom(store, model) ==
  [NewScreen("room", model) EXCEPT !.items = loadCacheData(store, model, {})]

(* Mutant: viewDidDisappear without stopChatTimer *)
HiddenStillTicking(stk) == stk

(* viewDidDisappear of the top screen: stopChatTimer invalidates the timer *)
(* and leaves isTimered set.                                               *)
Hidden(stk) ==
  IF Len(stk) = dropped THEN stk ELSE [stk EXCEPT ![Len(stk)].ticking = FALSE]

Pushed(stk, screen) == Append(Hidden(stk), screen)

Top == Len(stack)

OnScreen(i) == i = Top /\ i > dropped

(* No transition is running: neither a pop, nor a push with a completion,   *)
(* nor any other push, which outlasts the deferred writes of the screens   *)
(* it covers.  HUDs let touches through (isUserInteractionEnabled = false).*)
Touchable ==
  /\ ~popping /\ modal = NoModal
  /\ \A b \in delayed : b.kind # "remove"
  /\ \A k \in DOMAIN outbox : outbox[k].unseen \/ OnScreen(outbox[k].room)

(* The deferred writes that a transition outlasts have run *)
Drained == \A k \in DOMAIN outbox : outbox[k].unseen /\ outbox[k].room # Top

AtRoot == Top = dropped /\ Touchable

OnTop(kind) == Touchable /\ Top > dropped /\ stack[Top].kind = kind

CanPush == Len(stack) < MaxDepth

-----------------------------------------------------------------------------
(* Notifications and the session list *)

(* Mutant: the notification redraws the list without querying it again *)
reloadSesstionDataStale(store) == badgeDue' = TRUE /\ UNCHANGED sessions

(* Mutant: the list is queried again, the badge is not *)
reloadSesstionDataNoBadge(store) ==
  sessions' = qureyFromLastSesstions(store) /\ UNCHANGED badgeDue

(* Observer of both notifications: the rows at once, the badge deferred *)
reloadSesstionData(store) ==
  /\ sessions' = qureyFromLastSesstions(store)
  /\ badgeDue' = TRUE

(* The deferred half of reloadTableView *)
showSessionBadge ==
  /\ badgeDue
  /\ badgeDue' = FALSE
  /\ tabBadge' = queryFromSesstionsUnReadCount(db)
  /\ UNCHANGED <<db, stack, dropped, modal, popping, outbox, delayed,
                 sessions, widget, sent, confirmed>>

Read(chat) == [chat EXCEPT !.unReadCount = 0]

Clears(store, user) ==
  queryFromSesstionsUnReadCount(store) > 0 /\ user.uid # 0

(* clearCurrentBadge of the three lists: the store it leaves *)
clearCurrentBadge(store, user) ==
  IF Clears(store, user) THEN updateFromChatModel(store, Read(user), user.uid)
  ELSE store

-----------------------------------------------------------------------------
(* Opening a room from a list: didSelectRow of the session, contact and    *)
(* group lists pushes the room and then clears the chat's badge.  The room *)
(* keeps the very object whose count is cleared.                           *)
didSelectRow(uid) ==
  /\ AtRoot /\ CanPush
  /\ queryChatFromAllChats(db, uid) # {}
  /\ LET user == qureyFromChatId(db, uid)
         room == NewRoom(db, IF Clears(db, user) THEN Read(user) ELSE user)
     IN  /\ stack' = Pushed(stack, room)
         /\ db' = clearCurrentBadge(db, user)
         /\ IF Clears(db, user) THEN reloadSesstionData(db')
                                ELSE UNCHANGED <<sessions, badgeDue>>
  /\ UNCHANGED <<dropped, modal, popping, outbox, delayed, tabBadge, widget,
                 sent, confirmed>>

(* A tap on the widget: a room on top of whatever is shown, animated or not *)
(* touchable or not, and the badge of the chat is not cleared.             *)
openWidgetChat ==
  /\ ~popping /\ CanPush
  /\ widget.chatId > 0
  /\ stack' = Pushed(stack, NewRoom(db, qureyFromChatId(db, widget.chatId)))
  /\ UNCHANGED <<db, dropped, modal, popping, outbox, delayed, sessions,
                 badgeDue, tabBadge, widget, sent, confirmed>>

-----------------------------------------------------------------------------
(* Sending *)

(* Mutant: the deferred write of a new message overtakes the earlier ones *)
DeferredFirst(tasks) == tasks \o outbox

Deferred(tasks) == outbox \o tasks

(* reloadChatData for n new messages of room i, one after the other.  They *)
(* are shown, handed to the widget, and their write is deferred.           *)
reloadChatData(stk, i, n) ==
  LET model == ModelAt(stk, i)
      new   == sent + 1 .. sent + n
  IN  /\ sent + n <= MaxSent
      /\ sent' = sent + n
      /\ stack' = [stk EXCEPT ![i].items =
                     @ \cup {[id |-> 0, stamp |-> s] : s \in new}]
      /\ outbox' = Deferred([k \in 1 .. n |->
                     [room |-> i, stamp |-> sent + k, chatId |-> model.uid,
                      chatType |-> model.chatType, unseen |-> ~OnScreen(i)]])
      /\ widget' = [chatId |-> model.uid, stamp |-> sent + n]

StartsTimer(i) == ModelAt(stack, i).chatType = GroupedChat /\ ~stack[i].isTimered

(* The first message sent in a group room starts its timer, which fires at *)
(* once: a message of someone else follows in the same turn.               *)
makeChatMessage(i) ==
  /\ IF StartsTimer(i)
     THEN reloadChatData([stack EXCEPT ![i].isTimered = TRUE,
                                       ![i].ticking = TRUE], i, 2)
     ELSE reloadChatData(stack, i, 1)
  /\ UNCHANGED <<db, dropped, popping, delayed, sessions, badgeDue, tabBadge,
                 confirmed>>

(* 发送 on the keyboard *)
keyboardDidFinish ==
  /\ OnTop("room") /\ makeChatMessage(Top)
  /\ UNCHANGED modal

(* 相册 or 视频.  A page sheet leaves the room on the screen, a full screen  *)
(* picker (before iOS 13) makes it disappear.                              *)
openImagePicker ==
  /\ OnTop("room")
  /\ modal' = [kind |-> "picker", room |-> Top]
  /\ stack' \in {stack, Hidden(stack)}
  /\ UNCHANGED <<db, dropped, popping, outbox, delayed, sessions, badgeDue,
                 tabBadge, widget, sent, confirmed>>

(* The picker's completion: its room sends, wherever that room is by now *)
didFinishPickingPhotos ==
  /\ modal.kind = "picker" /\ makeChatMessage(modal.room)
  /\ modal' = NoModal

(* 取消, on a picker or an alert *)
cancel ==
  /\ modal # NoModal
  /\ modal' = NoModal
  /\ UNCHANGED <<db, stack, dropped, popping, outbox, delayed, sessions,
                 badgeDue, tabBadge, widget, sent, confirmed>>

(* The timer's target, whatever is on the screen at that moment *)
makeGroupAutoSend(i) ==
  /\ stack[i].ticking
  /\ reloadChatData(stack, i, 1)
  /\ UNCHANGED <<db, dropped, modal, popping, delayed, sessions, badgeDue,
                 tabBadge, confirmed>>

(* The deferred write.  The room counts it on its own badge, writes the    *)
(* count into its own copy of the chat, and that whole copy to the table.  *)
beginCacheMessage ==
  /\ outbox # <<>>
  /\ outbox' = Tail(outbox)
  /\ LET task   == Head(outbox)
         stored == insertFromMessage(db, task.chatId, task.chatType, task.stamp)
         badge  == stack[task.room].badge + 1
         chat   == [ModelAt(stack, task.room) EXCEPT !.unReadCount = badge]
     IN  IF chat.uid = 0
         THEN /\ db' = stored
              /\ stack' = [stack EXCEPT ![task.room].badge = badge]
              /\ UNCHANGED <<sessions, badgeDue>>
         ELSE /\ db' = updateFromChatModel(stored, chat, chat.uid)
              /\ stack' = [stack EXCEPT ![task.room].badge = badge,
                                        ![Owner(stack, task.room)].model = chat]
              /\ reloadSesstionData(db')
  /\ UNCHANGED <<dropped, modal, popping, delayed, tabBadge, widget, sent,
                 confirmed>>

-----------------------------------------------------------------------------
(* The menu of a message *)

(* 删除: the row goes if the object knows its key, and the list is read again *)
didMenuDelete(item) ==
  /\ OnTop("room") /\ item \in stack[Top].items
  /\ LET model == ModelAt(stack, Top)
         kept  == stack[Top].items \ {item}
     IN  /\ db' = IF item.id # 0 THEN deleteFromMessageId(db, item.id) ELSE db
         /\ stack' = [stack EXCEPT ![Top].items = loadCacheData(db', model, kept)]
         /\ reloadSesstionData(db')
  /\ UNCHANGED <<dropped, modal, popping, outbox, delayed, tabBadge, widget,
                 sent, confirmed>>

(* 转发: a list of the chats of the message's type *)
messageForward ==
  /\ OnTop("room") /\ CanPush
  /\ stack[Top].items # {}
  /\ LET chatType == ModelAt(stack, Top).chatType
         listed   == {c.uid : c \in qureyFromChatsWithType(db, chatType)}
     IN  /\ chatType # 0
         /\ stack' = Pushed(stack,
              [NewScreen("forward", [EmptyChat EXCEPT !.chatType = chatType])
                 EXCEPT !.targets = listed])
  /\ UNCHANGED <<db, dropped, modal, popping, outbox, delayed, sessions,
                 badgeDue, tabBadge, widget, sent, confirmed>>

FreeTickets == {t \in 1 .. MaxDelayed : \A b \in delayed : b.ticket # t}

Delay(blocks, kind, host, target, chatType) ==
  \E t \in FreeTickets :
    /\ \A u \in FreeTickets : t <= u
    /\ delayed' = blocks \cup {[kind |-> kind, host |-> host, target |-> target,
                                chatType |-> chatType, ticket |-> t]}

(* 发送: the work starts 1.5 s later; until then every button still works *)
forwardAction(target) ==
  /\ OnTop("forward") /\ target \in stack[Top].targets
  /\ Delay(delayed, "forward", Top, target, stack[Top].model.chatType)
  /\ UNCHANGED <<db, stack, dropped, modal, popping, outbox, sessions,
                 badgeDue, tabBadge, widget, sent, confirmed>>

-----------------------------------------------------------------------------
(* Leaving screens *)

(* Mutant: a popped screen keeps its navigationController *)
StillHosted(blocks, d) == blocks

(* The blocks of a screen that is no longer on the stack *)
Unhosted(blocks, d) ==
  {IF b.host = d THEN [b EXCEPT !.host = 0] ELSE b : b \in blocks}

(* The back button.  Swiping back is disabled on a room. *)
popViewController ==
  /\ Touchable /\ Top > dropped
  /\ popping' = TRUE
  /\ delayed' = Unhosted(delayed, Top)
  /\ UNCHANGED <<db, stack, dropped, modal, outbox, sessions, badgeDue,
                 tabBadge, widget, sent, confirmed>>

(* Mutant: deferred blocks that hold their room weakly die with it *)
PopEndsDroppingWrites ==
  /\ popping /\ popping' = FALSE
  /\ stack' = Front(stack)
  /\ outbox' = SelectSeq(outbox, LAMBDA t : t.room # Top)
  /\ UNCHANGED <<db, dropped, modal, delayed, sessions, badgeDue, tabBadge,
                 widget, sent, confirmed>>

(* The end of a pop: viewDidDisappear.  The screen beneath reloads nothing *)
(* and restarts no timer.                                                  *)
popEnds ==
  /\ popping /\ popping' = FALSE
  /\ Drained
  /\ stack' = Front(stack)
  /\ UNCHANGED <<db, dropped, modal, outbox, delayed, sessions, badgeDue,
                 tabBadge, widget, sent, confirmed>>

(* 退出群 asks first *)
exitGroupAlert ==
  /\ OnTop("room") /\ ModelAt(stack, Top).chatType = GroupedChat
  /\ modal' = [kind |-> "alert", room |-> Top]
  /\ UNCHANGED <<db, stack, dropped, popping, outbox, delayed, sessions,
                 badgeDue, tabBadge, widget, sent, confirmed>>

(* Confirmed: the chat and its messages go, then the top screen is popped,  *)
(* which another one may be by now; none if the room is off the stack.     *)
exitGroupChat ==
  /\ modal.kind = "alert" /\ modal' = NoModal
  /\ LET room == modal.room
         uid  == ModelAt(stack, room).uid
     IN  /\ db' = deleteFromMesssageWithId(deleteFromChatWithId(db, uid), uid)
         /\ stack' = [stack EXCEPT ![room].ticking = FALSE]
         /\ popping' = (room > dropped)
         /\ delayed' = IF room > dropped THEN Unhosted(delayed, Top) ELSE delayed
  /\ reloadSesstionData(db')
  /\ UNCHANGED <<dropped, outbox, tabBadge, widget, sent, confirmed>>

-----------------------------------------------------------------------------
(* Delayed blocks *)

(* 1.5 s after 发送: a room for the target, which shows and defers the new  *)
(* message while it binds and then replaces what it shows by the table.    *)
(* The HUD says 转发成功 whether or not there is a navigation controller.   *)
forwardFires(b) ==
  /\ b.kind = "forward" /\ sent < MaxSent
  /\ LET chat  == qureyFromChatId(db, b.target)
         stamp == sent + 1
         items == loadCacheData(db, chat, {[id |-> 0, stamp |-> stamp]})
         room  == [NewScreen("room", chat) EXCEPT !.items = items]
     IN  /\ confirmed' = confirmed \cup {stamp}
         /\ sent' = stamp
         /\ IF b.host = 0
            THEN /\ delayed' = delayed \ {b}
                 /\ UNCHANGED <<stack, outbox, widget>>
            ELSE /\ ~popping /\ CanPush
                 /\ stack' = Pushed(stack, room)
                 /\ outbox' = Deferred(<<[room |-> Top + 1, stamp |-> stamp,
                                          chatId |-> b.target,
                                          chatType |-> b.chatType,
                                          unseen |-> FALSE]>>)
                 /\ widget' = [chatId |-> b.target, stamp |-> stamp]
                 /\ delayed' = (delayed \ {b}) \cup {[b EXCEPT !.kind = "remove"]}
  /\ UNCHANGED <<db, dropped, modal, popping, sessions, badgeDue, tabBadge>>

IsFirstForward(stk, d) ==
  /\ d > dropped /\ stk[d].kind = "forward"
  /\ \A e \in dropped + 1 .. d - 1 : stk[e].kind # "forward"

Shifted(i, d) == IF i > d THEN i - 1 ELSE i

(* The completion of that push: removeControllerWithName takes the first    *)
(* forward screen of the stack, which need not be the one that forwarded.   *)
forwardRemoved(b) ==
  /\ b.kind = "remove" /\ ~popping
  /\ IF b.host = 0
     THEN delayed' = delayed \ {b} /\ UNCHANGED <<stack, modal, outbox>>
     ELSE \E d \in DOMAIN stack :
            /\ IsFirstForward(stack, d)
            /\ stack' = RemoveAt(stack, d)
            /\ modal' = [modal EXCEPT !.room = Shifted(@, d)]
            /\ outbox' = [k \in DOMAIN outbox |->
                           [outbox[k] EXCEPT !.room = Shifted(@, d)]]
            /\ delayed' = {[c EXCEPT !.host = Shifted(@, d)] :
                             c \in Unhosted(delayed \ {b}, d)}
  /\ UNCHANGED <<db, dropped, popping, sessions, badgeDue, tabBadge, widget,
                 sent, confirmed>>

(* Whether anything holds a screen off the navigation stack: a timer, a    *)
(* presented picker or alert, a deferred write                             *)
Held(stk) ==
  \/ \E i \in DOMAIN stk : stk[i].ticking
  \/ modal # NoModal
  \/ outbox # <<>>

(* 1.25 s after 保存: popToRootViewController, if the edit screen is there. *)
(* Only the screen on top disappears.                                      *)
poppedToRoot(b) ==
  /\ b.kind = "popToRoot"
  /\ IF b.host = 0
     THEN delayed' = delayed \ {b} /\ UNCHANGED <<stack, dropped>>
     ELSE /\ ~popping /\ Drained
          /\ stack' = IF Held(Hidden(stack)) THEN Hidden(stack) ELSE <<>>
          /\ dropped' = Len(stack')
          /\ delayed' = {[c EXCEPT !.host = 0] : c \in delayed \ {b}}
  /\ UNCHANGED <<db, modal, popping, outbox, sessions, badgeDue, tabBadge,
                 widget, sent, confirmed>>

(* The screens off the navigation stack go when nothing holds them any more *)
deinit ==
  /\ dropped > 0 /\ Top = dropped /\ ~Held(stack)
  /\ stack' = <<>> /\ dropped' = 0
  /\ UNCHANGED <<db, modal, popping, outbox, delayed, sessions, badgeDue,
                 tabBadge, widget, sent, confirmed>>

-----------------------------------------------------------------------------
(* The info and edit screens *)

PushScreen(screen) ==
  /\ CanPush
  /\ stack' = Pushed(stack, screen)
  /\ UNCHANGED <<db, dropped, modal, popping, outbox, delayed, sessions,
                 badgeDue, tabBadge, widget, sent, confirmed>>

(* An avatar in the session or the contact list *)
pushChatInfo(uid) ==
  /\ AtRoot /\ queryChatFromAllChats(db, uid) # {}
  /\ PushScreen(NewScreen("info", qureyFromChatId(db, uid)))

(* An avatar in a room, on a message of someone else.  Who sent a message   *)
(* is drawn at random and not recorded: any room that shows one will do.    *)
didTapAvatar ==
  /\ OnTop("room") /\ stack[Top].items # {}
  /\ ModelAt(stack, Top).uid # 0
  /\ PushScreen(NewScreen("info", qureyFromChatId(db, ModelAt(stack, Top).uid)))

(* 发消息: a room that shares the chat object of the info screen *)
sendButton ==
  /\ OnTop("info")
  /\ PushScreen([NewRoom(db, ModelAt(stack, Top)) EXCEPT !.shared = TRUE,
                                                         !.model = EmptyChat])

(* The 设置备注名 row, which only the info screen of a friend has *)
editNickName ==
  /\ OnTop("info") /\ ModelAt(stack, Top).chatType = SingleChat
  /\ PushScreen([NewScreen("edit", EmptyChat) EXCEPT !.shared = TRUE])

(* 保存.  The copies of the nickname in the messages are left out: the      *)
(* session list shows the chat's.                                          *)
saveEditing(name) ==
  /\ OnTop("edit")
  /\ LET model == [ModelAt(stack, Top) EXCEPT !.nickName = name]
     IN  /\ stack' = [stack EXCEPT ![Owner(stack, Top)].model = model]
         /\ db' = updateFromChatModel(db, model, model.uid)
  /\ reloadSesstionData(db')
  /\ Delay(delayed, "popToRoot", Top, 0, 0)
  /\ UNCHANGED <<dropped, modal, popping, outbox, tabBadge, widget, sent,
                 confirmed>>

-----------------------------------------------------------------------------
(* The session list *)

(* 删除 on a session: its messages and its badge go, the chat stays *)
handleDeleteSesstionAtRow(uid) ==
  /\ AtRoot /\ \E s \in sessions : s.chatId = uid
  /\ LET store == deleteFromMesssageWithId(db, uid)
     IN  db' = clearCurrentBadge(store, qureyFromChatId(store, uid))
  /\ reloadSesstionData(db')
  /\ UNCHANGED <<stack, dropped, modal, popping, outbox, delayed, tabBadge,
                 widget, sent, confirmed>>

(* The chats readAllAction writes back: those with a session, unless two    *)
(* rows have their uid and the update fails.                               *)
ReadBack(store, c) ==
  /\ qureyFromMessagesWithChatId(store, c.uid) # {}
  /\ queryChatFromAllChats(store, c.uid) = {c}

(* 清除未读 *)
readAllAction ==
  /\ AtRoot /\ sessions # {}
  /\ db' = [db EXCEPT !.chat =
              {IF ReadBack(db, c) THEN Read(c) ELSE c : c \in @}]
  /\ reloadSesstionData(db')
  /\ UNCHANGED <<stack, dropped, modal, popping, outbox, delayed, tabBadge,
                 widget, sent, confirmed>>

-----------------------------------------------------------------------------
(* The process is killed and launched again: the tables and the widget's    *)
(* defaults are what is left.                                              *)
relaunch ==
  /\ stack' = <<>> /\ dropped' = 0 /\ modal' = NoModal
  /\ popping' = FALSE /\ outbox' = <<>> /\ delayed' = {}
  /\ tabBadge' = 0
  /\ reloadSesstionData(db)
  /\ UNCHANGED <<db, widget, sent, confirmed>>

(* The order in which the friends and groups were added *)
Added == CHOOSE f \in Bijection(1 .. Cardinality(Uids), Uids) : TRUE

(* Installed, with the friends and groups of the contact lists and no       *)
(* messages; the session list has been loaded.                             *)
Init ==
  /\ db = [chat |-> {[EmptyChat EXCEPT !.id = k, !.uid = Added[k],
                        !.chatType = IF Added[k] \in Friends THEN SingleChat
                                                             ELSE GroupedChat] :
                        k \in 1 .. Cardinality(Uids)},
           message |-> {}, chatSeq |-> Cardinality(Uids), messageSeq |-> 0]
  /\ stack = <<>> /\ dropped = 0 /\ modal = NoModal
  /\ popping = FALSE /\ outbox = <<>> /\ delayed = {}
  /\ sessions = {} /\ badgeDue = TRUE /\ tabBadge = 0
  /\ widget = [chatId |-> 0, stamp |-> 0]
  /\ sent = 0 /\ confirmed = {}

(* Taps and gestures *)
User ==
  \/ \E uid \in Uids : didSelectRow(uid) \/ pushChatInfo(uid)
                       \/ handleDeleteSesstionAtRow(uid)
  \/ \E i \in (IF Top = dropped THEN {} ELSE stack[Top].items) : didMenuDelete(i)
  \/ \E uid \in Uids : forwardAction(uid)
  \/ \E name \in NickNames : saveEditing(name)
  \/ keyboardDidFinish \/ openImagePicker \/ didFinishPickingPhotos
  \/ exitGroupAlert \/ exitGroupChat \/ cancel
  \/ messageForward \/ popViewController \/ didTapAvatar \/ sendButton \/ editNickName \/ readAllAction

(* What the app does by itself *)
System ==
  \/ beginCacheMessage \/ showSessionBadge \/ popEnds \/ deinit
  \/ \E b \in delayed : forwardFires(b) \/ forwardRemoved(b) \/ poppedToRoot(b)

Running ==
  User \/ System \/ openWidgetChat \/ \E i \in DOMAIN stack : makeGroupAutoSend(i)

Next == Running \/ relaunch

Spec == Init /\ [][Next]_vars

(* A process that is not killed: the main queue runs what is put on it *)
LiveSpec ==
  /\ Init /\ [][Running]_vars
  /\ WF_vars(beginCacheMessage) /\ WF_vars(showSessionBadge)

-----------------------------------------------------------------------------
(* Properties *)

Stored == {r.stamp : r \in db.message}
Pending == {outbox[k].stamp : k \in DOMAIN outbox}

(* Only a room has a timer; an info or forward screen has a model of its own *)
ScreenOK(screen) ==
  /\ screen.ticking => screen.kind = "room"
  /\ screen.kind \in {"info", "forward"} => ~screen.shared

(* A screen that shares a chat object lies on the info screen that owns it *)
StackOK(stk) ==
  /\ stk \in Seq(Screen)
  /\ \A i \in DOMAIN stk :
       /\ ScreenOK(stk[i])
       /\ stk[i].shared => i > 1 /\ stk[i - 1].kind = "info"

(* A deferred write refers to a room of the stack *)
OutboxOK(tasks, stk) ==
  /\ tasks \in Seq(Task)
  /\ \A k \in DOMAIN tasks :
       tasks[k].room \in DOMAIN stk /\ stk[tasks[k].room].kind = "room"

(* A delayed block refers to the screen that asked for it, or to none *)
DelayedOK(blocks, stk) ==
  /\ blocks \subseteq Block
  /\ \A b \in blocks : b.host # 0 =>
       /\ b.host \in DOMAIN stk
       /\ stk[b.host].kind = IF b.kind = "popToRoot" THEN "edit" ELSE "forward"

(* The screens off the navigation stack lie below those on it; nothing but  *)
(* a presented picker or alert, a timer or a deferred write refers to them *)
DroppedOK ==
  /\ dropped \in 0 .. Len(stack)
  /\ popping => Len(stack) > dropped /\ modal = NoModal
  /\ \A b \in delayed : b.host = 0 \/ b.host > dropped

(* What is presented over the screens was presented by a room *)
ModalOK ==
  /\ modal \in Modal
  /\ modal # NoModal =>
       modal.room \in DOMAIN stack /\ stack[modal.room].kind = "room"

(* Types.  No index dangles when screens are pushed, popped, dropped all at *)
(* once, or removed from the middle of the stack                           *)
(* (removeControllerWithName), and no block refers to a screen that is on  *)
(* its way out.                                                            *)
TypeOK ==
  /\ db \in Store
  /\ StackOK(stack)
  /\ DroppedOK /\ ModalOK
  /\ popping \in BOOLEAN
  /\ popping => stack # <<>> /\ \A b \in delayed : b.host # Len(stack)
  /\ OutboxOK(outbox, stack)
  /\ DelayedOK(delayed, stack)
  /\ badgeDue \in BOOLEAN
  /\ widget \in [chatId: Nat, stamp: Nat]
  /\ sent \in Nat /\ confirmed \subseteq Nat

(* A uid names one row of the chat table, whatever objects the rooms write  *)
(* back under it (updateFromChatModel with Properties.all).                *)
OneChatPerUid == \A c, e \in db.chat : c.uid = e.uid => c = e

(* Messages reach the table in the order they were sent, each at most once,*)
(* although every write is deferred and rooms, forwards and timers share   *)
(* one main queue (reloadChatData, beginCacheMessage).                     *)
StoredInSendOrder ==
  \A r, e \in db.message : r.id < e.id <=> r.stamp < e.stamp

(* An entry of a room that knows a key knows the key of its own message:    *)
(* the 删除 of a room that has been covered and uncovered, and whose rows  *)
(* other rooms have deleted meanwhile, never deletes another message.      *)
ItemKeysAgree ==
  \A i \in DOMAIN stack : \A item \in stack[i].items : \A r \in db.message :
    item.id = r.id => item.stamp = r.stamp

(* The rooms that keep sending by themselves, seen by no one *)
Unseen == {i \in DOMAIN stack : stack[i].ticking /\ ~OnScreen(i)}

(* // stop timer, says viewDidDisappear (FYChatBaseViewController.swift:80): *)
(* no push, pop, popToRoot, removal or exit leaves one more timer running  *)
(* on a room that is not on the screen, the widget's push included.  Only  *)
(* a picker's completion (openImagePicker) starts one there, since it does *)
(* not ask whether its room was covered meanwhile.                         *)
OnlyPickersTickUnseen ==
  [][Cardinality(Unseen') > Cardinality(Unseen) => didFinishPickingPhotos]_vars

(* The session list is never stale: whoever writes a table refreshes it in  *)
(* the same turn of the main thread, in all three view controllers.        *)
SessionsMirrorTables == sessions = qureyFromLastSesstions(db)

(* The tab's badge is the total of the table's unread counts, but for a     *)
(* refresh already on the main queue (reloadTableView, showSessionBadge).  *)
BadgeMirrorsTables ==
  badgeDue \/ tabBadge = queryFromSesstionsUnReadCount(db)

(* A group the user has left stays gone, whatever rooms that still hold its *)
(* model write back (exitGroupChat, updateFromChatModel).                  *)
ChatStaysGone ==
  [][\A uid \in Uids : queryChatFromAllChats(db, uid) = {} =>
                         queryChatFromAllChats(db', uid) = {}]_vars

(* A message that was sent is stored, whatever the user does meanwhile: the *)
(* room may be left, covered or its group exited before the deferred write *)
(* (reloadChatData, beginCacheMessage).                                    *)
SentIsStored ==
  \A s \in 1 .. MaxSent : s \in Pending ~> s \in Stored

(* The badge on the tab never stays behind the table for good (the deferred *)
(* half of reloadTableView runs after the write that asked for it).        *)
BadgeCatchesUp == []<>(tabBadge = queryFromSesstionsUnReadCount(db))

(* What Messaging sees of the outbox and of the message table *)
Abstracted(m) == [stamp |-> m.stamp, chatId |-> m.chatId]

Messages == INSTANCE Messaging WITH
  waiting <- {Abstracted(outbox[k]) : k \in DOMAIN outbox},
  kept    <- {Abstracted(r) : r \in db.message}

(* The rooms, timers, forwards and deletions together keep the promise of   *)
(* Messaging: each message goes once, in its turn, to the chat it was sent *)
(* to, and only a killed process loses one that waits.                     *)
KeepsMessages == Messages!Spec

(* 单个消息删除 (README.md:33): a deleted message is not in the table any    *)
(* more, nor about to be written.                                          *)
DeletedIsGone ==
  [][\A i \in DOMAIN stack : \A item \in stack[i].items :
       didMenuDelete(item) => item.stamp \notin Stored' \cup Pending']_vars

(* 转发成功, the HUD of forwardAction: the message is on its way to the     *)
(* table when the user is told so.                                         *)
ConfirmedIsForwarded ==
  [][confirmed' \ confirmed \subseteq Pending']_vars

(* 用户备注名称修改，本地实时同步 (README.md:29): a nickname changes when    *)
(* the user saves one, and never otherwise.                                *)
NickNameChangesBySaving ==
  [][\A c \in db.chat : \A e \in db'.chat :
       c.uid = e.uid /\ c.nickName # e.nickName =>
         \E name \in NickNames : saveEditing(name)]_vars

=============================================================================
