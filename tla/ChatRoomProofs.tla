--------------------------- MODULE ChatRoomProofs ---------------------------
(* Proofs about ChatRoom, for every set of friends and groups and every     *)
(* bound.  The first part is about stacks of screens, the second about     *)
(* what the helpers return; the third shows, action by action, that TypeOK *)
(* and OneChatPerUid together are an inductive invariant.  The fourth      *)
(* follows the screens: which stay, which are covered, whose timer runs on *)
(* and what refers to the dropped ones.  The fifth shows that messages are *)
(* stored in the order they were sent, the sixth that ChatRoom implements  *)
(* Messaging, and the last is about the chat table, the badge, the timers, *)
(* the session list and the items that rooms show.                         *)
EXTENDS ChatRoom, DatabaseProofs, SequenceTheorems, FiniteSetTheorems

-----------------------------------------------------------------------------
(* Stacks *)

(* What an index into a stack relies on is the kind and "shared" of a screen *)
SameShape(s, t) ==
  /\ Len(t) = Len(s)
  /\ \A i \in DOMAIN s :
       t[i].kind = s[i].kind /\ t[i].shared = s[i].shared /\ ScreenOK(t[i])

(* Stacks of one shape accept the same indices *)
LEMMA ShapeIsEnough ==
  ASSUME NEW s, NEW t \in Seq(Screen), StackOK(s), SameShape(s, t)
  PROVE  /\ StackOK(t)
         /\ \A tasks : OutboxOK(tasks, s) => OutboxOK(tasks, t)
         /\ \A blocks : DelayedOK(blocks, s) => DelayedOK(blocks, t)
<1>1. s \in Seq(Screen) /\ DOMAIN s = 1 .. Len(s) /\ DOMAIN t = DOMAIN s
  BY DEF StackOK, SameShape
<1>2. StackOK(t)
  <2> SUFFICES ASSUME NEW i \in DOMAIN t
               PROVE  /\ t[i].shared => i > 1 /\ t[i - 1].kind = "info"
                      /\ ScreenOK(t[i])
    BY DEF StackOK
  <2>1. /\ s[i].shared => i > 1 /\ s[i - 1].kind = "info"
        /\ ScreenOK(s[i])
    BY <1>1 DEF StackOK
  <2>2. i > 1 => i - 1 \in DOMAIN s
    BY <1>1
  <2> QED
    BY <1>1, <2>1, <2>2 DEF SameShape
<1>3. \A tasks : OutboxOK(tasks, s) => OutboxOK(tasks, t)
  BY <1>1 DEF OutboxOK, SameShape
<1>4. \A blocks : DelayedOK(blocks, s) => DelayedOK(blocks, t)
  BY <1>1 DEF DelayedOK, SameShape
<1> QED
  BY <1>2, <1>3, <1>4

(* Replacing a screen by one of its kind keeps the shape *)
LEMMA ChangedScreenShape ==
  ASSUME NEW s, StackOK(s), NEW i \in DOMAIN s, NEW screen \in Screen,
         screen.kind = s[i].kind, screen.shared = s[i].shared, ScreenOK(screen)
  PROVE  /\ [s EXCEPT ![i] = screen] \in Seq(Screen)
         /\ SameShape(s, [s EXCEPT ![i] = screen])
<1>1. s \in Seq(Screen) /\ \A j \in DOMAIN s : ScreenOK(s[j])
  BY DEF StackOK
<1> QED
  BY <1>1 DEF SameShape

(* stopChatTimer leaves a screen what it was *)
LEMMA StoppedScreen ==
  ASSUME NEW screen \in Screen, ScreenOK(screen)
  PROVE  /\ [screen EXCEPT !.ticking = FALSE] \in Screen
         /\ [screen EXCEPT !.ticking = FALSE].kind = screen.kind
         /\ [screen EXCEPT !.ticking = FALSE].shared = screen.shared
         /\ ScreenOK([screen EXCEPT !.ticking = FALSE])
BY Zenon DEF Screen, ScreenOK

(* viewDidDisappear keeps the shape of the stack *)
LEMMA HiddenShape ==
  ASSUME NEW s, StackOK(s)
  PROVE  Hidden(s) \in Seq(Screen) /\ SameShape(s, Hidden(s))
<1>1. s \in Seq(Screen)
  BY DEF StackOK
<1>2. CASE s = <<>> \/ Len(s) = dropped
  <2>1. Hidden(s) = s
    BY <1>1, <1>2 DEF Hidden
  <2> QED
    BY <1>1, <2>1 DEF StackOK, SameShape
<1>3. CASE s # <<>> /\ Len(s) # dropped
  <2> DEFINE stopped == [s[Len(s)] EXCEPT !.ticking = FALSE]
  <2>1. Len(s) \in DOMAIN s /\ s[Len(s)] \in Screen /\ ScreenOK(s[Len(s)])
    BY <1>1, <1>3 DEF StackOK
  <2>2. /\ stopped \in Screen /\ ScreenOK(stopped)
        /\ stopped.kind = s[Len(s)].kind /\ stopped.shared = s[Len(s)].shared
    BY <2>1, StoppedScreen
  <2>3. Hidden(s) = [s EXCEPT ![Len(s)] = stopped]
    BY <1>3 DEF Hidden
  <2> HIDE DEF stopped
  <2>4. /\ [s EXCEPT ![Len(s)] = stopped] \in Seq(Screen)
        /\ SameShape(s, [s EXCEPT ![Len(s)] = stopped])
    BY <2>1, <2>2, ChangedScreenShape
  <2> QED
    BY Zenon, <2>3, <2>4
<1> QED
  BY <1>2, <1>3

(* A push keeps every index valid *)
LEMMA PushedShape ==
  ASSUME NEW s, StackOK(s), NEW screen \in Screen,
         screen.shared => s # <<>> /\ s[Len(s)].kind = "info",
         ScreenOK(screen)
  PROVE  /\ StackOK(Pushed(s, screen))
         /\ Len(Pushed(s, screen)) = Len(s) + 1
         /\ Pushed(s, screen)[Len(s) + 1] = screen
         /\ \A tasks : OutboxOK(tasks, s) => OutboxOK(tasks, Pushed(s, screen))
         /\ \A blocks : DelayedOK(blocks, s) => DelayedOK(blocks, Pushed(s, screen))
<1> DEFINE h == Hidden(s)
           t == Pushed(s, screen)
<1>1. h \in Seq(Screen) /\ SameShape(s, h)
  BY HiddenShape
<1>2. /\ StackOK(h)
      /\ \A tasks : OutboxOK(tasks, s) => OutboxOK(tasks, h)
      /\ \A blocks : DelayedOK(blocks, s) => DelayedOK(blocks, h)
  BY <1>1, ShapeIsEnough
<1>3. /\ t = Append(h, screen) /\ t \in Seq(Screen)
      /\ Len(t) = Len(s) + 1 /\ DOMAIN t = 1 .. Len(s) + 1
      /\ DOMAIN h = 1 .. Len(s) /\ Len(s) \in Nat
      /\ t[Len(s) + 1] = screen
      /\ \A i \in 1 .. Len(s) : t[i] = h[i]
  BY <1>1 DEF Pushed, SameShape, StackOK
<1>4. StackOK(t)
  <2> SUFFICES ASSUME NEW i \in DOMAIN t
               PROVE  /\ t[i].shared => i > 1 /\ t[i - 1].kind = "info"
                      /\ ScreenOK(t[i])
    BY <1>3 DEF StackOK
  <2>1. CASE i \in 1 .. Len(s)
    <3>1. /\ h[i].shared => i > 1 /\ h[i - 1].kind = "info"
          /\ ScreenOK(h[i])
      BY <1>2, <1>3, <2>1 DEF StackOK
    <3>2. i > 1 => i - 1 \in 1 .. Len(s)
      BY <1>3, <2>1
    <3> QED
      BY <1>3, <2>1, <3>1, <3>2
  <2>2. CASE i = Len(s) + 1
    <3>1. s # <<>> => Len(s) > 0 /\ Len(s) \in 1 .. Len(s) /\ Len(s) \in DOMAIN s
      BY <1>3 DEF StackOK
    <3>2. s # <<>> => t[Len(s)].kind = s[Len(s)].kind
      BY <1>1, <1>3, <3>1 DEF SameShape
    <3>3. i - 1 = Len(s) /\ t[i] = screen
      BY <1>3, <2>2
    <3>4. t[i].shared => i > 1 /\ t[i - 1].kind = "info"
      <4> SUFFICES ASSUME screen.shared PROVE i > 1 /\ t[i - 1].kind = "info"
        BY <3>3
      <4>1. s # <<>> /\ s[Len(s)].kind = "info"
        OBVIOUS
      <4>2. i > 1
        BY <2>2, <3>1, <4>1
      <4> QED
        BY <3>2, <3>3, <4>1, <4>2
    <3>5. ScreenOK(t[i])
      BY <3>3
    <3> QED
      BY <3>4, <3>5
  <2> QED
    BY <1>3, <2>1, <2>2
<1>5. \A tasks : OutboxOK(tasks, h) => OutboxOK(tasks, t)
  BY <1>3 DEF OutboxOK
<1>6. \A blocks : DelayedOK(blocks, h) => DelayedOK(blocks, t)
  BY <1>3 DEF DelayedOK
<1> QED
  BY <1>2, <1>3, <1>4, <1>5, <1>6

(* The end of a pop keeps the indices that do not refer to the top *)
LEMMA FrontShape ==
  ASSUME NEW s, StackOK(s), s # <<>>
  PROVE  /\ StackOK(Front(s))
         /\ \A blocks : DelayedOK(blocks, s) /\ (\A b \in blocks : b.host # Len(s))
                          => DelayedOK(blocks, Front(s))
         /\ \A tasks : OutboxOK(tasks, s)
                         /\ (\A k \in DOMAIN tasks : tasks[k].room # Len(s))
                          => OutboxOK(tasks, Front(s))
<1>1. s \in Seq(Screen) /\ Len(s) \in Nat \ {0} /\ DOMAIN s = 1 .. Len(s)
  BY DEF StackOK
<1>2. /\ Front(s) \in Seq(Screen) /\ DOMAIN Front(s) = 1 .. Len(s) - 1
      /\ \A i \in 1 .. Len(s) - 1 : Front(s)[i] = s[i]
  BY <1>1 DEF Front
<1>3. StackOK(Front(s))
  <2> SUFFICES ASSUME NEW i \in 1 .. Len(s) - 1
               PROVE  /\ s[i].shared => i > 1 /\ Front(s)[i - 1].kind = "info"
                      /\ ScreenOK(s[i])
    BY <1>2 DEF StackOK
  <2>1. i \in DOMAIN s
    BY <1>1
  <2>2. i > 1 => i - 1 \in 1 .. Len(s) - 1
    BY <1>1
  <2> QED
    BY <1>2, <2>1, <2>2 DEF StackOK
<1>4. \A blocks : DelayedOK(blocks, s) /\ (\A b \in blocks : b.host # Len(s))
                    => DelayedOK(blocks, Front(s))
  <2> SUFFICES ASSUME NEW blocks, DelayedOK(blocks, s),
                      \A b \in blocks : b.host # Len(s)
               PROVE  DelayedOK(blocks, Front(s))
    OBVIOUS
  <2>1. \A b \in blocks : b.host # 0 => b.host \in 1 .. Len(s) - 1
    BY <1>1 DEF DelayedOK
  <2> QED
    BY <1>2, <2>1 DEF DelayedOK
<1>5. \A tasks : OutboxOK(tasks, s)
                   /\ (\A k \in DOMAIN tasks : tasks[k].room # Len(s))
                    => OutboxOK(tasks, Front(s))
  <2> SUFFICES ASSUME NEW tasks, OutboxOK(tasks, s),
                      \A k \in DOMAIN tasks : tasks[k].room # Len(s)
               PROVE  OutboxOK(tasks, Front(s))
    OBVIOUS
  <2>1. \A k \in DOMAIN tasks : tasks[k].room \in 1 .. Len(s) - 1
    BY <1>1 DEF OutboxOK
  <2> QED
    BY <1>2, <2>1 DEF OutboxOK
<1> QED
  BY <1>3, <1>4, <1>5

(* removeControllerWithName: a forward screen goes, whatever lies above it  *)
(* moves down, and the indices with it.                                    *)
LEMMA RemovedShape ==
  ASSUME NEW s, StackOK(s), NEW d \in DOMAIN s, s[d].kind = "forward"
  PROVE  /\ StackOK(RemoveAt(s, d)) /\ Len(RemoveAt(s, d)) = Len(s) - 1
         /\ \A i \in DOMAIN s \ {d} :
              /\ Shifted(i, d) \in DOMAIN RemoveAt(s, d)
              /\ RemoveAt(s, d)[Shifted(i, d)] = s[i]
<1> DEFINE t == RemoveAt(s, d)
<1>1. s \in Seq(Screen) /\ Len(s) \in Nat /\ DOMAIN s = 1 .. Len(s) /\ d \in 1 .. Len(s)
  BY DEF StackOK
<1>2. /\ t \in Seq(Screen) /\ Len(t) = Len(s) - 1
      /\ \A i \in 1 .. Len(s) - 1 : t[i] = IF i < d THEN s[i] ELSE s[i + 1]
  <2> DEFINE below == SubSeq(s, 1, d - 1)
             above == SubSeq(s, d + 1, Len(s))
  <2>1. /\ below \in Seq(Screen) /\ Len(below) = d - 1
        /\ \A i \in 1 .. d - 1 : below[i] = s[i]
    BY <1>1
  <2>2. /\ above \in Seq(Screen) /\ Len(above) = Len(s) - d
        /\ \A i \in 1 .. Len(s) - d : above[i] = s[d + i]
    BY <1>1
  <2>3. t = below \o above
    BY DEF RemoveAt
  <2> HIDE DEF below, above, t
  <2>4. /\ t \in Seq(Screen) /\ Len(t) = Len(below) + Len(above)
        /\ \A i \in 1 .. Len(below) + Len(above) :
             t[i] = IF i <= Len(below) THEN below[i] ELSE above[i - Len(below)]
    BY <2>1, <2>2, <2>3, ConcatProperties
  <2>5. Len(below) + Len(above) = Len(s) - 1
    BY <1>1, <2>1, <2>2
  <2>6. ASSUME NEW i \in 1 .. Len(s) - 1
        PROVE  t[i] = IF i < d THEN s[i] ELSE s[i + 1]
    <3>1. CASE i < d
      <4>1. i <= Len(below) /\ i \in 1 .. d - 1
        BY <1>1, <2>1, <3>1
      <4> QED
        BY <2>1, <2>4, <2>5, <3>1, <4>1
    <3>2. CASE ~(i < d)
      <4>1. ~(i <= Len(below)) /\ i - Len(below) \in 1 .. Len(s) - d
        BY <1>1, <2>1, <3>2
      <4>2. t[i] = above[i - Len(below)]
        BY <2>4, <2>5, <4>1
      <4>3. d + (i - Len(below)) = i + 1
        BY <1>1, <2>1
      <4> QED
        BY <2>2, <3>2, <4>1, <4>2, <4>3
    <3> QED
      BY <3>1, <3>2
  <2> QED
    BY <2>4, <2>5, <2>6
<1>3. DOMAIN t = 1 .. Len(s) - 1
  BY <1>1, <1>2
<1>4. StackOK(t)
  <2> SUFFICES ASSUME NEW i \in 1 .. Len(s) - 1
               PROVE  /\ t[i].shared => i > 1 /\ t[i - 1].kind = "info"
                      /\ ScreenOK(t[i])
    BY <1>2, <1>3 DEF StackOK
  <2>1. \A j \in DOMAIN s :
          /\ s[j].shared => j > 1 /\ s[j - 1].kind = "info"
          /\ ScreenOK(s[j])
    BY DEF StackOK
  <2>2. CASE i < d
    <3>1. t[i] = s[i] /\ i \in DOMAIN s
      BY <1>1, <1>2, <2>2
    <3>2. i > 1 => t[i - 1] = s[i - 1]
      BY <1>1, <1>2, <2>2
    <3> QED
      BY <2>1, <3>1, <3>2
  <2>3. CASE i >= d
    <3>1. t[i] = s[i + 1] /\ i + 1 \in DOMAIN s
      BY <1>1, <1>2, <2>3
    <3>2. CASE i = d
      BY <2>1, <3>1, <3>2
    <3>3. CASE i > d
      <4>1. i > 1 /\ t[i - 1] = s[i]
        BY <1>1, <1>2, <3>3
      <4> QED
        BY <2>1, <3>1, <4>1
    <3> QED
      BY <1>1, <2>3, <3>2, <3>3
  <2> QED
    BY <1>1, <2>2, <2>3
<1>5. ASSUME NEW i \in DOMAIN s \ {d}
      PROVE  Shifted(i, d) \in DOMAIN t /\ t[Shifted(i, d)] = s[i]
  BY <1>1, <1>2, <1>3 DEF Shifted
<1> QED
  BY <1>2, <1>4, <1>5

-----------------------------------------------------------------------------
(* What the helpers of the actions return *)

(* FYMessageChatModel() is a chat model *)
LEMMA EmptyChatType == EmptyChat \in ChatModel
BY DEF EmptyChat, ChatModel, NickName

(* A chat model with its badge cleared is one of the same uid *)
LEMMA ReadType ==
  ASSUME NEW chat \in ChatModel
  PROVE  Read(chat) \in ChatModel /\ Read(chat).uid = chat.uid
BY DEF Read, ChatModel

(* Every screen has a chat model, its own or that of the screen beneath *)
LEMMA ModelAtType ==
  ASSUME NEW s, StackOK(s), NEW i \in DOMAIN s
  PROVE  Owner(s, i) \in DOMAIN s /\ ModelAt(s, i) \in ChatModel
<1>1. s \in Seq(Screen) /\ (s[i].shared => i > 1)
  BY DEF StackOK
<1>2. Owner(s, i) \in DOMAIN s
  BY <1>1 DEF Owner
<1>3. s[Owner(s, i)] \in Screen
  BY <1>1, <1>2
<1> QED
  BY <1>2, <1>3 DEF ModelAt, Screen

(* loadCacheData returns items *)
LEMMA LoadCacheDataType ==
  ASSUME NEW store \in Store, NEW model, NEW items \in SUBSET Item
  PROVE  loadCacheData(store, model, items) \in SUBSET Item
<1>1. \A r \in store.message : [id |-> r.id, stamp |-> r.stamp] \in Item
  BY DEF Store, MessageRow, Item
<1>2. qureyFromMessagesWithChatId(store, model.uid) \subseteq store.message
  BY DEF qureyFromMessagesWithChatId
<1> QED
  BY <1>1, <1>2 DEF loadCacheData

(* A new screen owns its model and has no timer *)
LEMMA NewScreenType ==
  ASSUME NEW kind \in {"room", "info", "edit", "forward"}, NEW model \in ChatModel
  PROVE  /\ NewScreen(kind, model) \in Screen
         /\ NewScreen(kind, model).kind = kind
         /\ NewScreen(kind, model).model = model
         /\ ~NewScreen(kind, model).shared /\ ~NewScreen(kind, model).ticking
BY DEF NewScreen, Screen

(* So does a new room *)
LEMMA NewRoomType ==
  ASSUME NEW store \in Store, NEW model \in ChatModel
  PROVE  /\ NewRoom(store, model) \in Screen
         /\ NewRoom(store, model).kind = "room"
         /\ ~NewRoom(store, model).shared /\ ~NewRoom(store, model).ticking
<1> DEFINE screen == NewScreen("room", model)
           items  == loadCacheData(store, model, {})
<1>1. screen \in Screen
  BY NewScreenType
<1>2. items \in SUBSET Item
  BY LoadCacheDataType
<1>3. screen.kind = "room" /\ ~screen.shared /\ ~screen.ticking
  BY DEF NewScreen
<1>4. NewRoom(store, model) = [screen EXCEPT !.items = items]
  BY DEF NewRoom
<1> HIDE DEF screen, items
<1> QED
  BY <1>1, <1>2, <1>3, <1>4 DEF Screen

(* clearCurrentBadge keeps the tables well formed *)
LEMMA ClearCurrentBadgeType ==
  ASSUME NEW store \in Store, OneRowPerUid(store), NEW user \in ChatModel
  PROVE  /\ clearCurrentBadge(store, user) \in Store
         /\ OneRowPerUid(clearCurrentBadge(store, user))
<1>1. Read(user) \in ChatModel /\ Read(user).uid = user.uid
  BY ReadType
<1>2. /\ updateFromChatModel(store, Read(user), user.uid) \in Store
      /\ OneRowPerUid(updateFromChatModel(store, Read(user), Read(user).uid))
  BY <1>1, UpdateFromChatModelType, UpdateKeepsOneRow
<1> QED
  BY <1>1, <1>2 DEF clearCurrentBadge

-----------------------------------------------------------------------------
(* The inductive invariant *)

(* The part of TypeOK about the stack and what refers into it *)
IndicesOK(stk, tasks, blocks, pop) ==
  /\ StackOK(stk)
  /\ pop => stk # <<>> /\ \A b \in blocks : b.host # Len(stk)
  /\ OutboxOK(tasks, stk)
  /\ DelayedOK(blocks, stk)

(* The part about everything else *)
ScalarsOK ==
  /\ dropped \in Nat
  /\ popping \in BOOLEAN /\ badgeDue \in BOOLEAN
  /\ widget \in [chatId: Nat, stamp: Nat]
  /\ sent \in Nat /\ confirmed \subseteq Nat

IInv ==
  /\ db \in Store /\ OneRowPerUid(db)
  /\ IndicesOK(stack, outbox, delayed, popping)
  /\ ScalarsOK

(* With what TypeOK says of "dropped" and "modal", it is TypeOK and         *)
(* OneChatPerUid, no more and no less.                                     *)
LEMMA IInvIsTypeOK ==
  IInv /\ DroppedOK /\ ModalOK <=> TypeOK /\ OneChatPerUid
<1>1. DroppedOK /\ StackOK(stack) => dropped \in Nat
  BY DEF DroppedOK, StackOK
<1> QED
  BY <1>1 DEF IInv, IndicesOK, ScalarsOK, TypeOK, OneChatPerUid, OneRowPerUid

(* What is on the screen is on the stack *)
LEMMA OnTopOK ==
  ASSUME IInv
  PROVE  /\ stack \in Seq(Screen) /\ DOMAIN stack = 1 .. Len(stack) /\ Top = Len(stack)
         /\ Top \in Nat /\ dropped \in Nat
         /\ Top > dropped => stack # <<>> /\ Top \in DOMAIN stack
         /\ \A kind : OnTop(kind) => /\ popping = FALSE /\ modal = NoModal
                                     /\ Top > dropped /\ stack[Top].kind = kind
<1>1. /\ stack \in Seq(Screen) /\ DOMAIN stack = 1 .. Len(stack) /\ Top = Len(stack)
      /\ Top \in Nat /\ dropped \in Nat /\ popping \in BOOLEAN
  BY DEF IInv, IndicesOK, StackOK, ScalarsOK, Top
<1>2. Top > dropped => stack # <<>> /\ Top \in DOMAIN stack
  BY <1>1
<1> QED
  BY <1>1, <1>2 DEF OnTop, Touchable

(* A push keeps the indices of pending and delayed work *)
LEMMA PushKeepsIndices ==
  ASSUME NEW s, NEW tasks, NEW blocks, IndicesOK(s, tasks, blocks, FALSE),
         NEW screen \in Screen,
         screen.shared => s # <<>> /\ s[Len(s)].kind = "info",
         ScreenOK(screen)
  PROVE  IndicesOK(Pushed(s, screen), tasks, blocks, FALSE)
<1>1. StackOK(s) /\ OutboxOK(tasks, s) /\ DelayedOK(blocks, s)
  BY DEF IndicesOK
<1>2. /\ StackOK(Pushed(s, screen))
      /\ OutboxOK(tasks, Pushed(s, screen))
      /\ DelayedOK(blocks, Pushed(s, screen))
  BY <1>1, PushedShape
<1> QED
  BY <1>2 DEF IndicesOK

(* A change in place keeps them *)
LEMMA ShapeKeepsIndices ==
  ASSUME NEW s, NEW tasks, NEW blocks, NEW pop, IndicesOK(s, tasks, blocks, pop),
         NEW t \in Seq(Screen), SameShape(s, t)
  PROVE  IndicesOK(t, tasks, blocks, pop)
<1>1. StackOK(s) /\ OutboxOK(tasks, s) /\ DelayedOK(blocks, s)
  BY DEF IndicesOK
<1>2. StackOK(t) /\ OutboxOK(tasks, t) /\ DelayedOK(blocks, t)
  BY <1>1, ShapeIsEnough
<1>3. s \in Seq(Screen) /\ Len(t) = Len(s) /\ (s # <<>> => t # <<>>)
  BY <1>1 DEF StackOK, SameShape
<1> QED
  BY <1>2, <1>3 DEF IndicesOK

-----------------------------------------------------------------------------
(* Steps that push a screen *)

(* Any step that pushes one screen and defers nothing *)
LEMMA PushedStep ==
  ASSUME IInv, popping = FALSE, NEW screen \in Screen,
         screen.shared => stack # <<>> /\ stack[Len(stack)].kind = "info",
         ScreenOK(screen),
         stack' = Pushed(stack, screen), UNCHANGED <<popping, outbox, delayed>>
  PROVE  IndicesOK(stack', outbox', delayed', popping')
<1>1. IndicesOK(stack, outbox, delayed, FALSE)
  BY DEF IInv
<1>2. IndicesOK(Pushed(stack, screen), outbox, delayed, FALSE)
  BY <1>1, PushKeepsIndices
<1> QED
  BY <1>2

(* Opening a room from a list *)
LEMMA DidSelectRow ==
  ASSUME IInv, NEW uid, didSelectRow(uid)
  PROVE  IInv'
<1> DEFINE user  == qureyFromChatId(db, uid)
           model == IF Clears(db, user) THEN Read(user) ELSE user
           room  == NewRoom(db, model)
<1>1. db \in Store /\ OneRowPerUid(db)
  BY DEF IInv
<1>2. user \in ChatModel
  BY <1>1, QureyFromChatIdType
<1>3. model \in ChatModel
  BY <1>2, ReadType
<1>4. room \in Screen /\ ScreenOK(room) /\ ~room.shared
  BY <1>1, <1>3, NewRoomType DEF ScreenOK
<1>5. popping = FALSE
  BY DEF IInv, ScalarsOK, didSelectRow, AtRoot, Touchable
<1>6. stack' = Pushed(stack, room) /\ UNCHANGED <<popping, outbox, delayed>>
  BY DEF didSelectRow
<1>7. IndicesOK(stack', outbox', delayed', popping')
  <2> HIDE DEF room
  <2> QED
    BY <1>4, <1>5, <1>6, PushedStep
<1>8. db' \in Store /\ OneRowPerUid(db')
  <2>1. db' = clearCurrentBadge(db, user)
    BY DEF didSelectRow
  <2> QED
    BY <1>1, <1>2, <2>1, ClearCurrentBadgeType
<1>9. ScalarsOK'
  BY DEF IInv, ScalarsOK, didSelectRow, reloadSesstionData
<1> QED
  BY <1>7, <1>8, <1>9 DEF IInv

(* Opening a room from the widget, over any screen *)
LEMMA OpenWidgetChat ==
  ASSUME IInv, openWidgetChat
  PROVE  IInv'
<1> DEFINE room == NewRoom(db, qureyFromChatId(db, widget.chatId))
<1>1. db \in Store /\ OneRowPerUid(db)
  BY DEF IInv
<1>2. qureyFromChatId(db, widget.chatId) \in ChatModel
  BY <1>1, QureyFromChatIdType
<1>3. room \in Screen /\ ScreenOK(room) /\ ~room.shared
  BY <1>1, <1>2, NewRoomType DEF ScreenOK
<1>4. popping = FALSE
  BY DEF IInv, ScalarsOK, openWidgetChat
<1>5. stack' = Pushed(stack, room) /\ UNCHANGED <<popping, outbox, delayed>>
  BY DEF openWidgetChat
<1>6. IndicesOK(stack', outbox', delayed', popping')
  <2> HIDE DEF room
  <2> QED
    BY <1>3, <1>4, <1>5, PushedStep
<1>7. UNCHANGED db /\ ScalarsOK'
  BY DEF IInv, ScalarsOK, openWidgetChat
<1> QED
  BY <1>1, <1>6, <1>7 DEF IInv

(* The screens that PushScreen pushes, whose tables do not change *)
LEMMA PushScreenStep ==
  ASSUME IInv, popping = FALSE, NEW screen \in Screen,
         screen.shared => stack # <<>> /\ stack[Len(stack)].kind = "info",
         ScreenOK(screen),
         PushScreen(screen)
  PROVE  IInv'
<1>1. stack' = Pushed(stack, screen) /\ UNCHANGED <<popping, outbox, delayed>>
  BY DEF PushScreen
<1>2. IndicesOK(stack', outbox', delayed', popping')
  BY <1>1, PushedStep
<1>3. UNCHANGED db /\ ScalarsOK'
  BY DEF IInv, ScalarsOK, PushScreen
<1> QED
  BY <1>2, <1>3 DEF IInv

(* Pushing the info screen of a chat *)
LEMMA PushInfoStep ==
  ASSUME IInv, popping = FALSE, NEW uid,
         PushScreen(NewScreen("info", qureyFromChatId(db, uid)))
  PROVE  IInv'
<1> DEFINE info == NewScreen("info", qureyFromChatId(db, uid))
<1>1. qureyFromChatId(db, uid) \in ChatModel
  BY QureyFromChatIdType DEF IInv
<1>2. info \in Screen
  BY <1>1, NewScreenType
<1>3. ScreenOK(info) /\ ~info.shared
  BY <1>1, NewScreenType DEF ScreenOK
<1> HIDE DEF info
<1>4. PushScreen(info)
  BY DEF info
<1> QED
  BY <1>2, <1>3, <1>4, PushScreenStep

(* Pushing a room that shares the chat object of its info screen *)
LEMMA SendButton ==
  ASSUME IInv, sendButton
  PROVE  IInv'
<1> DEFINE top  == ModelAt(stack, Top)
           room == [NewRoom(db, top) EXCEPT !.shared = TRUE, !.model = EmptyChat]
<1>1. db \in Store /\ StackOK(stack) /\ popping = FALSE
  BY OnTopOK DEF IInv, IndicesOK, sendButton
<1>2. stack # <<>> /\ stack[Len(stack)].kind = "info" /\ Top \in DOMAIN stack
  BY OnTopOK DEF sendButton
<1>3. top \in ChatModel
  BY <1>1, <1>2, ModelAtType
<1>4. /\ NewRoom(db, top) \in Screen /\ NewRoom(db, top).kind = "room"
      /\ ~NewRoom(db, top).ticking
  BY <1>1, <1>3, NewRoomType
<1>5. room \in Screen /\ ScreenOK(room)
  <2> DEFINE screen == NewRoom(db, top)
  <2> HIDE DEF screen
  <2>1. screen \in Screen /\ screen.kind = "room" /\ ~screen.ticking
    BY <1>4 DEF screen
  <2>2. [screen EXCEPT !.shared = TRUE, !.model = EmptyChat] \in Screen
    BY Zenon, <2>1, EmptyChatType DEF Screen
  <2>3. ScreenOK([screen EXCEPT !.shared = TRUE, !.model = EmptyChat])
    BY Zenon, <2>1 DEF Screen, ScreenOK
  <2> QED
    BY <2>2, <2>3 DEF screen
<1>6. PushScreen(room)
  BY DEF sendButton
<1> HIDE DEF room
<1> QED
  BY <1>1, <1>2, <1>5, <1>6, PushScreenStep

(* Pushing an edit screen that shares it *)
LEMMA EditNickName ==
  ASSUME IInv, editNickName
  PROVE  IInv'
<1> DEFINE edit == [NewScreen("edit", EmptyChat) EXCEPT !.shared = TRUE]
<1>1. popping = FALSE /\ stack # <<>> /\ stack[Len(stack)].kind = "info"
  BY OnTopOK DEF editNickName
<1>2. edit \in Screen /\ ScreenOK(edit)
  BY EmptyChatType DEF NewScreen, Screen, ScreenOK
<1>3. PushScreen(edit)
  BY DEF editNickName
<1> HIDE DEF edit
<1> QED
  BY <1>1, <1>2, <1>3, PushScreenStep

(* Pushing the forward screen *)
LEMMA MessageForward ==
  ASSUME IInv, messageForward
  PROVE  IInv'
<1> DEFINE chatType == ModelAt(stack, Top).chatType
           listed   == {c.uid : c \in qureyFromChatsWithType(db, chatType)}
           blank    == NewScreen("forward", [EmptyChat EXCEPT !.chatType = chatType])
           forward  == [blank EXCEPT !.targets = listed]
<1>1. db \in Store /\ StackOK(stack) /\ popping = FALSE
  BY OnTopOK DEF IInv, IndicesOK, messageForward
<1>2. Top \in DOMAIN stack
  BY OnTopOK DEF messageForward
<1>3. chatType \in 0 .. 2
  BY <1>1, <1>2, ModelAtType DEF ChatModel
<1>4. blank \in Screen /\ blank.kind = "forward" /\ ~blank.shared /\ ~blank.ticking
  <2>1. [EmptyChat EXCEPT !.chatType = chatType] \in ChatModel
    BY <1>3, EmptyChatType DEF ChatModel
  <2> QED
    BY <2>1, NewScreenType DEF NewScreen
<1>5. listed \in SUBSET Nat
  BY <1>1 DEF qureyFromChatsWithType, Store, ChatModel
<1>6. forward \in Screen /\ ScreenOK(forward) /\ ~forward.shared
  <2> HIDE DEF blank, listed
  <2> QED
    BY <1>4, <1>5 DEF Screen, ScreenOK
<1>7. stack' = Pushed(stack, forward) /\ UNCHANGED <<popping, outbox, delayed>>
  BY DEF messageForward
<1>8. IndicesOK(stack', outbox', delayed', popping')
  <2> HIDE DEF forward
  <2> QED
    BY <1>1, <1>6, <1>7, PushedStep
<1>9. UNCHANGED db /\ ScalarsOK'
  BY DEF IInv, ScalarsOK, messageForward
<1> QED
  BY <1>8, <1>9 DEF IInv

-----------------------------------------------------------------------------
(* Steps that change screens in place *)

(* Items, badge and model of a screen may change without touching an index *)
LEMMA UpdatedStack ==
  ASSUME NEW s, StackOK(s), NEW i \in DOMAIN s, NEW items \in SUBSET Item,
         NEW badge \in Nat, NEW model \in ChatModel,
         NEW t \in {[s EXCEPT ![i].items = items], [s EXCEPT ![i].badge = badge],
                    [s EXCEPT ![i].model = model]}
  PROVE  t \in Seq(Screen) /\ SameShape(s, t)
<1> DEFINE screen == s[i]
           us == {[screen EXCEPT !.items = items], [screen EXCEPT !.badge = badge],
                  [screen EXCEPT !.model = model]}
<1>1. screen \in Screen /\ ScreenOK(screen)
  BY DEF StackOK
<1>2. PICK u \in us : t = [s EXCEPT ![i] = u]
  OBVIOUS
<1>3. /\ u \in Screen /\ ScreenOK(u)
      /\ u.kind = screen.kind /\ u.shared = screen.shared
  <2> HIDE DEF screen
  <2>1. CASE u = [screen EXCEPT !.items = items]
    BY Zenon, <1>1, <2>1 DEF Screen, ScreenOK
  <2>2. CASE u = [screen EXCEPT !.badge = badge]
    BY Zenon, <1>1, <2>2 DEF Screen, ScreenOK
  <2>3. CASE u = [screen EXCEPT !.model = model]
    BY Zenon, <1>1, <2>3 DEF Screen, ScreenOK
  <2> QED
    BY <1>2, <2>1, <2>2, <2>3
<1> QED
  BY <1>2, <1>3, ChangedScreenShape

(* New messages appended to the outbox keep it well formed *)
LEMMA DeferredOK ==
  ASSUME NEW s, NEW tasks \in Seq(Task), OutboxOK(outbox, s),
         \A k \in DOMAIN tasks : tasks[k].room \in DOMAIN s /\ s[tasks[k].room].kind = "room"
  PROVE  OutboxOK(Deferred(tasks), s)
<1>1. outbox \in Seq(Task)
  BY DEF OutboxOK
<1>2. /\ Deferred(tasks) \in Seq(Task)
      /\ DOMAIN Deferred(tasks) = 1 .. Len(outbox) + Len(tasks)
      /\ \A k \in 1 .. Len(outbox) + Len(tasks) :
           Deferred(tasks)[k] = IF k <= Len(outbox) THEN outbox[k]
                                ELSE tasks[k - Len(outbox)]
  BY <1>1, ConcatProperties DEF Deferred
<1>3. ASSUME NEW k \in 1 .. Len(outbox) + Len(tasks)
      PROVE  \/ k \in DOMAIN outbox /\ Deferred(tasks)[k] = outbox[k]
             \/ /\ k - Len(outbox) \in DOMAIN tasks
                /\ Deferred(tasks)[k] = tasks[k - Len(outbox)]
  BY <1>1, <1>2
<1>4. \A k \in DOMAIN outbox : outbox[k].room \in DOMAIN s /\ s[outbox[k].room].kind = "room"
  BY DEF OutboxOK
<1> DEFINE all == Deferred(tasks)
<1> HIDE DEF all
<1>5. ASSUME NEW k \in DOMAIN all
      PROVE  all[k].room \in DOMAIN s /\ s[all[k].room].kind = "room"
  <2>1. k \in 1 .. Len(outbox) + Len(tasks)
    BY <1>2 DEF all
  <2>2. CASE k \in DOMAIN outbox /\ all[k] = outbox[k]
    BY <1>4, <2>2
  <2>3. CASE k - Len(outbox) \in DOMAIN tasks /\ all[k] = tasks[k - Len(outbox)]
    BY <2>3
  <2> QED
    BY Zenon, <1>3, <2>1, <2>2, <2>3 DEF all
<1>6. all \in Seq(Task)
  BY <1>2 DEF all
<1>7. OutboxOK(all, s)
  BY <1>5, <1>6 DEF OutboxOK
<1> QED
  BY <1>7 DEF all

(* reloadChatData, with or without a timer started first *)
LEMMA ReloadChatData ==
  ASSUME IInv, NEW stk \in Seq(Screen), SameShape(stack, stk),
         NEW i \in DOMAIN stack, stack[i].kind = "room", NEW n \in {1, 2},
         reloadChatData(stk, i, n),
         UNCHANGED <<db, dropped, popping, delayed, badgeDue, confirmed>>
  PROVE  IInv'
<1> DEFINE model == ModelAt(stk, i)
           tasks == [k \in 1 .. n |-> [room |-> i, stamp |-> sent + k,
                       chatId |-> model.uid, chatType |-> model.chatType,
                       unseen |-> ~OnScreen(i)]]
           items == stk[i].items \cup {[id |-> 0, stamp |-> s] : s \in sent + 1 .. sent + n}
           shown == [stk EXCEPT ![i].items = items]
<1>1. IndicesOK(stack, outbox, delayed, popping) /\ sent \in Nat
  BY DEF IInv, ScalarsOK
<1>2. IndicesOK(stk, outbox, delayed, popping)
  BY <1>1, ShapeKeepsIndices
<1>3. i \in DOMAIN stk /\ stk[i].kind = "room" /\ StackOK(stk)
  BY <1>2 DEF SameShape, IndicesOK
<1>4. model \in ChatModel
  BY <1>3, ModelAtType
<1>5. items \in SUBSET Item
  <2>1. stk[i] \in Screen
    BY <1>3
  <2>2. stk[i].items \in SUBSET Item
    BY <2>1 DEF Screen
  <2>3. \A s \in sent + 1 .. sent + n : [id |-> 0, stamp |-> s] \in Item
    BY <1>1 DEF Item
  <2> QED
    BY <2>2, <2>3
<1>6. shown \in Seq(Screen) /\ SameShape(stk, shown)
  <2> HIDE DEF items
  <2>1. \E badge \in Nat : badge = 0
    OBVIOUS
  <2> QED
    BY <1>3, <1>4, <1>5, <2>1, UpdatedStack
<1>7. IndicesOK(shown, outbox, delayed, popping)
  <2> HIDE DEF shown
  <2> QED
    BY <1>2, <1>6, ShapeKeepsIndices
<1>8. shown[i].kind = "room" /\ i \in DOMAIN shown
  BY <1>3, <1>6 DEF SameShape
<1>9. tasks \in Seq(Task) /\ \A k \in DOMAIN tasks : tasks[k].room = i
  <2> HIDE DEF model
  <2>1. /\ i \in Nat /\ \A k \in 1 .. n : sent + k \in Nat
        /\ model.uid \in Nat /\ model.chatType \in 0 .. 2
        /\ (~OnScreen(i)) \in BOOLEAN
    <3>1. i \in Nat /\ \A k \in 1 .. n : sent + k \in Nat
      BY <1>1, <1>3 DEF StackOK
    <3>2. model.uid \in Nat /\ model.chatType \in 0 .. 2
      BY <1>4 DEF ChatModel
    <3>3. (~OnScreen(i)) \in BOOLEAN
      BY Zenon
    <3> QED
      BY <3>1, <3>2, <3>3
  <2>2. \A k \in 1 .. n : tasks[k] \in Task
    BY <2>1 DEF Task
  <2> QED
    BY <2>2
<1>10. OutboxOK(Deferred(tasks), shown)
  <2> HIDE DEF tasks, shown
  <2> QED
    BY <1>7, <1>8, <1>9, DeferredOK DEF IndicesOK
<1>11. /\ stack' = shown /\ outbox' = Deferred(tasks) /\ sent' = sent + n
       /\ widget' = [chatId |-> model.uid, stamp |-> sent + n]
  BY DEF reloadChatData
<1>12. IndicesOK(stack', outbox', delayed', popping')
  <2> HIDE DEF shown, tasks
  <2> QED
    BY <1>7, <1>10, <1>11 DEF IndicesOK
<1>13. ScalarsOK'
  BY <1>1, <1>4, <1>11 DEF IInv, ScalarsOK, ChatModel
<1> QED
  BY <1>12, <1>13 DEF IInv

(* A timer fires, in its room wherever that is in the stack *)
LEMMA MakeGroupAutoSend ==
  ASSUME IInv, NEW i \in DOMAIN stack, makeGroupAutoSend(i)
  PROVE  IInv'
<1>1. StackOK(stack)
  BY DEF IInv, IndicesOK
<1>2. stack \in Seq(Screen) /\ SameShape(stack, stack)
  BY <1>1 DEF StackOK, SameShape
<1>3. stack[i].kind = "room"
  BY <1>1 DEF StackOK, ScreenOK, makeGroupAutoSend
<1>4. /\ reloadChatData(stack, i, 1)
      /\ UNCHANGED <<db, dropped, popping, delayed, badgeDue, confirmed>>
  BY DEF makeGroupAutoSend
<1> QED
  BY <1>2, <1>3, <1>4, ReloadChatData

(* The rooms that send when the user says so: the room on top, and the room *)
(* of the picker, wherever it is.                                          *)
Sending == \E i \in DOMAIN stack : stack[i].kind = "room" /\ makeChatMessage(i)

LEMMA SendersAreRooms ==
  ASSUME IInv, ModalOK, keyboardDidFinish \/ didFinishPickingPhotos
  PROVE  Sending
<1>1. CASE keyboardDidFinish
  BY <1>1, OnTopOK DEF keyboardDidFinish, Sending
<1>2. CASE didFinishPickingPhotos
  BY <1>2 DEF didFinishPickingPhotos, Sending, ModalOK, NoModal
<1> QED
  BY <1>1, <1>2

(* A message is sent, which may start the timer *)
LEMMA MakeChatMessage ==
  ASSUME IInv, NEW i \in DOMAIN stack, stack[i].kind = "room", makeChatMessage(i)
  PROVE  IInv'
<1> DEFINE started == [stack[i] EXCEPT !.isTimered = TRUE, !.ticking = TRUE]
           stk     == [stack EXCEPT ![i] = started]
<1>1. StackOK(stack) /\ stack \in Seq(Screen)
  BY DEF IInv, IndicesOK, StackOK
<1>2. UNCHANGED <<db, dropped, popping, delayed, badgeDue, confirmed>>
  BY DEF makeChatMessage
<1>3. CASE reloadChatData(stack, i, 1)
  <2>1. SameShape(stack, stack)
    BY <1>1 DEF StackOK, SameShape
  <2> QED
    BY <1>1, <1>2, <1>3, <2>1, ReloadChatData
<1>4. CASE reloadChatData(stk, i, 2)
  <2>1. stack[i] \in Screen
    BY <1>1
  <2>2. /\ started \in Screen /\ ScreenOK(started)
        /\ started.kind = stack[i].kind /\ started.shared = stack[i].shared
    BY Zenon, <2>1 DEF Screen, ScreenOK
  <2> HIDE DEF started
  <2>3. stk \in Seq(Screen) /\ SameShape(stack, stk)
    BY <1>1, <2>2, ChangedScreenShape
  <2> HIDE DEF stk
  <2> QED
    BY <1>2, <1>4, <2>3, ReloadChatData
<1>5. reloadChatData(stack, i, 1) \/ reloadChatData(stk, i, 2)
  <2>1. stk = [stack EXCEPT ![i].isTimered = TRUE, ![i].ticking = TRUE]
    BY <1>1
  <2> QED
    BY <2>1 DEF makeChatMessage
<1> QED
  BY <1>3, <1>4, <1>5

(* The deferred write, on the room that sent the message *)
LEMMA BeginCacheMessage ==
  ASSUME IInv, beginCacheMessage
  PROVE  IInv'
<1> DEFINE task   == Head(outbox)
           r      == task.room
           stored == insertFromMessage(db, task.chatId, task.chatType, task.stamp)
           badge  == stack[r].badge + 1
           chat   == [ModelAt(stack, r) EXCEPT !.unReadCount = badge]
           mid    == [stack EXCEPT ![r].badge = badge]
           last   == [mid EXCEPT ![Owner(stack, r)].model = chat]
<1>1. /\ db \in Store /\ OneRowPerUid(db) /\ StackOK(stack)
      /\ IndicesOK(stack, outbox, delayed, popping)
      /\ OutboxOK(outbox, stack) /\ outbox \in Seq(Task) /\ outbox # <<>>
  BY DEF IInv, IndicesOK, OutboxOK, beginCacheMessage
<1>2. task \in Task /\ r \in DOMAIN stack
  BY <1>1 DEF OutboxOK
<1>3. OutboxOK(Tail(outbox), stack)
  <2>1. /\ Tail(outbox) \in Seq(Task)
        /\ \A k \in DOMAIN Tail(outbox) : k + 1 \in DOMAIN outbox /\ Tail(outbox)[k] = outbox[k + 1]
    BY <1>1
  <2> QED
    BY <1>1, <2>1 DEF OutboxOK
<1>4. IndicesOK(stack, Tail(outbox), delayed, popping)
  BY <1>1, <1>3 DEF IndicesOK
<1>5. badge \in Nat /\ Owner(stack, r) \in DOMAIN stack /\ ModelAt(stack, r) \in ChatModel
  <2>1. stack[r] \in Screen
    BY <1>1, <1>2 DEF StackOK
  <2>2. badge \in Nat
    BY <2>1 DEF Screen
  <2> HIDE DEF task
  <2> QED
    BY <1>1, <1>2, <2>2, ModelAtType
<1>6. chat \in ChatModel
  BY <1>5 DEF ChatModel
<1>7. mid \in Seq(Screen) /\ SameShape(stack, mid)
  <2> HIDE DEF badge, chat
  <2> QED
    BY <1>1, <1>2, <1>5, <1>6, UpdatedStack
<1>8. IndicesOK(mid, Tail(outbox), delayed, popping)
  <2> HIDE DEF mid
  <2> QED
    BY <1>4, <1>7, ShapeKeepsIndices
<1>9. last \in Seq(Screen) /\ SameShape(mid, last)
  <2>1. StackOK(mid) /\ Owner(stack, r) \in DOMAIN mid
    BY <1>5, <1>8 DEF IndicesOK
  <2> HIDE DEF badge, chat, mid
  <2> QED
    BY <1>5, <1>6, <2>1, UpdatedStack
<1>10. IndicesOK(last, Tail(outbox), delayed, popping)
  <2> HIDE DEF mid, last
  <2> QED
    BY <1>8, <1>9, ShapeKeepsIndices
<1>11. stored \in Store /\ OneRowPerUid(stored)
  <2>1. stored \in Store
    BY <1>1, <1>2, InsertFromMessageType DEF Task
  <2>2. stored.chat = db.chat
    BY <1>1 DEF insertFromMessage, Store
  <2> QED
    BY <1>1, <2>1, <2>2 DEF OneRowPerUid
<1>12. ScalarsOK' /\ outbox' = Tail(outbox) /\ UNCHANGED <<popping, delayed>>
  BY DEF IInv, ScalarsOK, beginCacheMessage, reloadSesstionData
<1>13. \/ db' = stored /\ stack' = mid
       \/ db' = updateFromChatModel(stored, chat, chat.uid) /\ stack' = last
  BY DEF beginCacheMessage
<1>14. CASE db' = stored /\ stack' = mid
  <2> HIDE DEF stored, mid
  <2> QED
    BY <1>8, <1>11, <1>12, <1>14 DEF IInv
<1>15. CASE db' = updateFromChatModel(stored, chat, chat.uid) /\ stack' = last
  <2>1. db' \in Store /\ OneRowPerUid(db')
    <3> HIDE DEF stored, chat
    <3> QED
      BY <1>6, <1>11, <1>15, UpdateFromChatModelType, UpdateKeepsOneRow
  <2> HIDE DEF stored, chat, last
  <2> QED
    BY <1>10, <1>12, <1>15, <2>1 DEF IInv
<1> QED
  BY <1>13, <1>14, <1>15

(* The user deletes a message of the room *)
LEMMA DidMenuDelete ==
  ASSUME IInv, NEW item, didMenuDelete(item)
  PROVE  IInv'
<1> DEFINE model == ModelAt(stack, Top)
           kept  == stack[Top].items \ {item}
           items == loadCacheData(db', model, kept)
           shown == [stack EXCEPT ![Top].items = items]
<1>1. /\ db \in Store /\ OneRowPerUid(db) /\ StackOK(stack) /\ stack \in Seq(Screen)
      /\ IndicesOK(stack, outbox, delayed, popping)
  BY DEF IInv, IndicesOK, StackOK
<1>2. Top \in DOMAIN stack /\ stack[Top] \in Screen
  <2>1. OnTop("room")
    BY DEF didMenuDelete
  <2>2. Top \in DOMAIN stack
    BY <2>1, OnTopOK
  <2> QED
    BY <1>1, <2>2
<1>3. db' \in Store /\ OneRowPerUid(db')
  <2>1. db' = db \/ db' = deleteFromMessageId(db, item.id)
    BY DEF didMenuDelete
  <2> QED
    BY <1>1, <2>1, DeleteMessagesType, DeleteKeepsOneRow
<1>4. items \in SUBSET Item
  <2>1. kept \in SUBSET Item
    BY <1>2 DEF Screen
  <2> HIDE DEF kept
  <2> QED
    BY <1>3, <2>1, LoadCacheDataType
<1>5. shown \in Seq(Screen) /\ SameShape(stack, shown)
  <2>1. 0 \in Nat /\ EmptyChat \in ChatModel
    BY EmptyChatType
  <2> HIDE DEF items
  <2> QED
    BY <1>1, <1>2, <1>4, <2>1, UpdatedStack
<1>6. stack' = shown /\ UNCHANGED <<outbox, delayed, popping>>
  BY DEF didMenuDelete
<1>7. IndicesOK(stack', outbox', delayed', popping')
  <2> HIDE DEF shown
  <2> QED
    BY <1>1, <1>5, <1>6, ShapeKeepsIndices
<1>8. ScalarsOK'
  BY DEF IInv, ScalarsOK, didMenuDelete, reloadSesstionData
<1> QED
  BY <1>3, <1>7, <1>8 DEF IInv

-----------------------------------------------------------------------------
(* Steps that defer or run delayed blocks *)

(* A block is delayed by the screen that is on top of the stack *)
LEMMA DelayOK ==
  ASSUME NEW s, NEW blocks, DelayedOK(blocks, s), NEW kind \in {"forward", "popToRoot"},
         NEW host \in DOMAIN s, NEW target \in Nat, NEW chatType \in 0 .. 2,
         s \in Seq(Screen),
         s[host].kind = IF kind = "popToRoot" THEN "edit" ELSE "forward",
         Delay(blocks, kind, host, target, chatType)
  PROVE  DelayedOK(delayed', s)
<1>1. PICK t \in FreeTickets :
        delayed' = blocks \cup {[kind |-> kind, host |-> host, target |-> target,
                                 chatType |-> chatType, ticket |-> t]}
  BY DEF Delay
<1>2. [kind |-> kind, host |-> host, target |-> target, chatType |-> chatType,
       ticket |-> t] \in Block
  BY ChatRoomAssumption DEF Block, FreeTickets
<1> QED
  BY <1>1, <1>2 DEF DelayedOK

(* The user taps a target of the forward screen *)
LEMMA ForwardAction ==
  ASSUME IInv, NEW target, forwardAction(target)
  PROVE  IInv'
<1>1. /\ StackOK(stack) /\ stack \in Seq(Screen) /\ popping = FALSE
      /\ OutboxOK(outbox, stack) /\ DelayedOK(delayed, stack)
  BY OnTopOK DEF IInv, IndicesOK, forwardAction
<1>2. Top \in DOMAIN stack /\ stack[Top] \in Screen /\ stack[Top].kind = "forward"
  <2>1. OnTop("forward")
    BY DEF forwardAction
  <2>2. Top \in DOMAIN stack /\ stack[Top].kind = "forward"
    BY <2>1, OnTopOK
  <2> QED
    BY <1>1, <2>2
<1>3. stack[Top].targets \in SUBSET Nat /\ stack[Top].model \in ChatModel
  BY <1>2 DEF Screen
<1>4. target \in Nat /\ stack[Top].model.chatType \in 0 .. 2
  BY <1>3 DEF ChatModel, forwardAction
<1>5. /\ Delay(delayed, "forward", Top, target, stack[Top].model.chatType)
      /\ UNCHANGED <<db, stack, popping, outbox>>
  BY DEF forwardAction
<1>6. DelayedOK(delayed', stack)
  BY <1>1, <1>2, <1>4, <1>5, DelayOK
<1>7. IndicesOK(stack', outbox', delayed', popping')
  BY <1>1, <1>5, <1>6 DEF IndicesOK
<1>8. ScalarsOK'
  BY DEF IInv, ScalarsOK, forwardAction
<1> QED
  BY <1>5, <1>7, <1>8 DEF IInv

(* The user saves a nickname, in the chat object of a screen beneath *)
LEMMA SaveEditing ==
  ASSUME IInv, NEW name \in NickNames, saveEditing(name)
  PROVE  IInv'
<1> DEFINE model == [ModelAt(stack, Top) EXCEPT !.nickName = name]
           saved == [stack EXCEPT ![Owner(stack, Top)].model = model]
<1>1. /\ db \in Store /\ OneRowPerUid(db) /\ StackOK(stack) /\ stack \in Seq(Screen)
      /\ IndicesOK(stack, outbox, delayed, FALSE) /\ popping = FALSE
  BY OnTopOK DEF IInv, IndicesOK, saveEditing
<1>2. Top \in DOMAIN stack /\ stack[Top].kind = "edit"
  BY OnTopOK DEF saveEditing
<1>3. Owner(stack, Top) \in DOMAIN stack /\ ModelAt(stack, Top) \in ChatModel
  BY <1>1, <1>2, ModelAtType
<1>4. model \in ChatModel
  BY <1>3 DEF ChatModel, NickName
<1>5. saved \in Seq(Screen) /\ SameShape(stack, saved)
  <2>1. 0 \in Nat /\ {} \in SUBSET Item
    OBVIOUS
  <2> HIDE DEF model
  <2> QED
    BY <1>1, <1>3, <1>4, <2>1, UpdatedStack
<1>6. /\ db' = updateFromChatModel(db, model, model.uid) /\ stack' = saved
      /\ Delay(delayed, "popToRoot", Top, 0, 0) /\ UNCHANGED <<popping, outbox>>
  BY DEF saveEditing
<1>7. db' \in Store /\ OneRowPerUid(db')
  <2> HIDE DEF model
  <2> QED
    BY <1>1, <1>4, <1>6, UpdateFromChatModelType, UpdateKeepsOneRow
<1>8. IndicesOK(stack', outbox', delayed', popping')
  <2> HIDE DEF saved
  <2>1. IndicesOK(saved, outbox, delayed, FALSE)
    BY <1>1, <1>5, ShapeKeepsIndices
  <2>2. Top \in DOMAIN saved /\ saved[Top].kind = "edit"
    BY <1>1, <1>2, <1>5 DEF SameShape
  <2>3. DelayedOK(delayed, saved) /\ 0 \in Nat /\ 0 \in 0 .. 2
    BY <2>1 DEF IndicesOK
  <2>4. DelayedOK(delayed', saved)
    BY <1>5, <1>6, <2>2, <2>3, DelayOK
  <2> QED
    BY <1>1, <1>6, <2>1, <2>4 DEF IndicesOK
<1>9. ScalarsOK'
  BY DEF IInv, ScalarsOK, saveEditing, reloadSesstionData
<1> QED
  BY <1>7, <1>8, <1>9 DEF IInv

(* A popped screen takes its host away from its blocks, and from no other *)
LEMMA UnhostedOK ==
  ASSUME NEW s, NEW blocks, DelayedOK(blocks, s), NEW d \in Nat \ {0}
  PROVE  /\ DelayedOK(Unhosted(blocks, d), s)
         /\ \A c \in Unhosted(blocks, d) : c.host # d
<1>1. ASSUME NEW c \in Unhosted(blocks, d)
      PROVE  /\ c \in Block /\ c.host # d
             /\ c.host # 0 => c \in blocks
  <2>1. PICK b \in blocks : c = IF b.host = d THEN [b EXCEPT !.host = 0] ELSE b
    BY DEF Unhosted
  <2>2. b \in Block
    BY DEF DelayedOK
  <2>3. CASE b.host = d
    <3>1. c = [b EXCEPT !.host = 0]
      BY <2>1, <2>3
    <3> QED
      BY <2>2, <3>1 DEF Block
  <2>4. CASE b.host # d
    BY <2>1, <2>2, <2>4
  <2> QED
    BY <2>3, <2>4
<1> QED
  BY <1>1 DEF DelayedOK

(* A pop begins: the blocks of the top screen lose it at once *)
LEMMA PopViewController ==
  ASSUME IInv, popViewController
  PROVE  IInv'
<1>1. /\ StackOK(stack) /\ OutboxOK(outbox, stack) /\ DelayedOK(delayed, stack)
      /\ stack # <<>>
  BY OnTopOK DEF IInv, IndicesOK, popViewController
<1>2. Top \in Nat \ {0}
  BY <1>1 DEF Top, StackOK
<1>3. DelayedOK(Unhosted(delayed, Top), stack) /\ \A c \in Unhosted(delayed, Top) : c.host # Top
  BY <1>1, <1>2, UnhostedOK
<1>4. IndicesOK(stack', outbox', delayed', popping')
  BY <1>1, <1>3 DEF IndicesOK, popViewController, Top
<1>5. ScalarsOK' /\ UNCHANGED db
  BY DEF IInv, ScalarsOK, popViewController
<1> QED
  BY <1>4, <1>5 DEF IInv

(* The user leaves a group: its tables go, and the screen on top *)
LEMMA ExitGroupChat ==
  ASSUME IInv, DroppedOK, ModalOK, exitGroupChat
  PROVE  IInv'
<1> DEFINE room    == modal.room
           stopped == [stack[room] EXCEPT !.ticking = FALSE]
           stk     == [stack EXCEPT ![room] = stopped]
<1>1. /\ StackOK(stack) /\ IndicesOK(stack, outbox, delayed, popping)
      /\ stack \in Seq(Screen) /\ db \in Store /\ OneRowPerUid(db)
  BY DEF IInv, IndicesOK, StackOK
<1>2. room \in DOMAIN stack /\ modal # NoModal /\ popping = FALSE
  BY DEF exitGroupChat, ModalOK, DroppedOK, NoModal, IInv, ScalarsOK
<1>3. stack[room] \in Screen /\ ScreenOK(stack[room])
  BY <1>1, <1>2 DEF StackOK
<1>4. stk \in Seq(Screen) /\ SameShape(stack, stk)
  <2>1. /\ stopped \in Screen /\ ScreenOK(stopped)
        /\ stopped.kind = stack[room].kind /\ stopped.shared = stack[room].shared
    BY <1>3, StoppedScreen
  <2> HIDE DEF stopped
  <2> QED
    BY <1>1, <1>2, <2>1, ChangedScreenShape
<1>5. /\ stack' = stk /\ UNCHANGED <<dropped, outbox>>
      /\ popping' \in BOOLEAN
      /\ \/ delayed' = Unhosted(delayed, Top)
         \/ ~popping' /\ delayed' = delayed
  <2>1. stk = [stack EXCEPT ![room].ticking = FALSE]
    BY <1>1, <1>2
  <2>2. stack' = stk /\ UNCHANGED <<dropped, outbox>>
    BY <2>1 DEF exitGroupChat
  <2>3. /\ popping' = (room > dropped)
        /\ delayed' = IF room > dropped THEN Unhosted(delayed, Top) ELSE delayed
    BY DEF exitGroupChat
  <2>4. popping' \in BOOLEAN
    BY <2>3
  <2>5. popping' => room > dropped
    BY <2>3
  <2>6. \/ delayed' = Unhosted(delayed, Top)
        \/ ~popping' /\ delayed' = delayed
    BY <2>3, <2>5
  <2> QED
    BY <2>2, <2>4, <2>6
<1>6. Top \in Nat \ {0} /\ Len(stk) = Top /\ stk # <<>>
  BY <1>1, <1>2, <1>4 DEF Top, SameShape
<1> HIDE DEF stk
<1>7. IndicesOK(stk, outbox, delayed, FALSE)
  BY <1>1, <1>2, <1>4, ShapeKeepsIndices
<1>8. /\ DelayedOK(Unhosted(delayed, Top), stk)
      /\ \A c \in Unhosted(delayed, Top) : c.host # Top
  BY <1>6, <1>7, UnhostedOK DEF IndicesOK
<1>9. IndicesOK(stack', outbox', delayed', popping')
  BY <1>5, <1>6, <1>7, <1>8 DEF IndicesOK
<1>10. db' \in Store /\ OneRowPerUid(db')
  BY <1>1, DeleteChatsType, DeleteMessagesType, DeleteKeepsOneRow DEF exitGroupChat
<1>11. ScalarsOK'
  BY <1>5 DEF IInv, ScalarsOK, exitGroupChat, reloadSesstionData
<1> QED
  BY <1>9, <1>10, <1>11 DEF IInv

(* What is presented comes and goes, and may stop the timer of its room *)
LEMMA Presenting ==
  ASSUME IInv, openImagePicker \/ exitGroupAlert \/ cancel
  PROVE  IInv'
<1>1. IndicesOK(stack, outbox, delayed, popping) /\ StackOK(stack)
  BY DEF IInv, IndicesOK
<1>2. Hidden(stack) \in Seq(Screen) /\ SameShape(stack, Hidden(stack))
  BY <1>1, HiddenShape
<1>3. IndicesOK(Hidden(stack), outbox, delayed, popping)
  BY <1>1, <1>2, ShapeKeepsIndices
<1>4. /\ stack' \in {stack, Hidden(stack)}
      /\ UNCHANGED <<db, dropped, popping, outbox, delayed, badgeDue, widget, sent, confirmed>>
  BY DEF openImagePicker, exitGroupAlert, cancel
<1>5. IndicesOK(stack', outbox', delayed', popping')
  BY <1>1, <1>3, <1>4
<1> QED
  BY <1>4, <1>5 DEF IInv, ScalarsOK

(* A pop ends, after every write of the room *)
LEMMA PopEnds ==
  ASSUME IInv, popEnds
  PROVE  IInv'
<1>1. /\ StackOK(stack) /\ stack # <<>> /\ DelayedOK(delayed, stack)
      /\ \A b \in delayed : b.host # Len(stack)
  BY DEF IInv, IndicesOK, popEnds
<1>2. StackOK(Front(stack)) /\ DelayedOK(delayed, Front(stack))
  BY <1>1, FrontShape
<1>3. OutboxOK(outbox, Front(stack))
  <2>1. OutboxOK(outbox, stack) /\ \A k \in DOMAIN outbox : outbox[k].room # Len(stack)
    BY DEF IInv, IndicesOK, popEnds, Drained, Top
  <2> QED
    BY <1>1, <2>1, FrontShape
<1>4. IndicesOK(stack', outbox', delayed', popping')
  BY <1>2, <1>3 DEF IndicesOK, popEnds
<1>5. ScalarsOK' /\ UNCHANGED db
  BY DEF IInv, ScalarsOK, popEnds
<1> QED
  BY <1>4, <1>5 DEF IInv

(* The delayed forward pushes a room with a message already pending *)
LEMMA ForwardFires ==
  ASSUME IInv, NEW b \in delayed, forwardFires(b)
  PROVE  IInv'
<1> DEFINE chat  == qureyFromChatId(db, b.target)
           items == loadCacheData(db, chat, {[id |-> 0, stamp |-> sent + 1]})
           blank == NewScreen("room", chat)
           room  == [blank EXCEPT !.items = items]
           next  == Pushed(stack, room)
           tasks == <<[room |-> Top + 1, stamp |-> sent + 1, chatId |-> b.target,
                       chatType |-> b.chatType, unseen |-> FALSE]>>
           moved == [b EXCEPT !.kind = "remove"]
<1>1. /\ db \in Store /\ OneRowPerUid(db) /\ StackOK(stack) /\ sent \in Nat
      /\ IndicesOK(stack, outbox, delayed, popping) /\ confirmed \subseteq Nat
      /\ OutboxOK(outbox, stack) /\ DelayedOK(delayed, stack)
  BY DEF IInv, IndicesOK, ScalarsOK
<1>2. b \in Block /\ b.kind = "forward"
  BY <1>1 DEF DelayedOK, forwardFires
<1>3. ScalarsOK' /\ UNCHANGED db
  <2>1. \/ UNCHANGED widget
        \/ widget' = [chatId |-> b.target, stamp |-> sent + 1]
    BY DEF forwardFires
  <2> QED
    BY <1>1, <1>2, <2>1 DEF IInv, ScalarsOK, forwardFires, Block
<1>4. CASE b.host = 0
  <2>1. delayed' = delayed \ {b} /\ UNCHANGED <<stack, outbox, popping>>
    BY <1>4 DEF forwardFires
  <2>2. IndicesOK(stack', outbox', delayed', popping')
    BY <1>1, <2>1 DEF IndicesOK, DelayedOK
  <2> QED
    BY <1>3, <2>2 DEF IInv
<1>5. CASE b.host # 0
  <2>1. /\ popping = FALSE /\ popping' = FALSE
        /\ stack' = next /\ outbox' = Deferred(tasks)
        /\ delayed' = (delayed \ {b}) \cup {moved}
    BY <1>1, <1>5 DEF forwardFires, IInv, ScalarsOK
  <2>2. chat \in ChatModel
    BY <1>1, QureyFromChatIdType
  <2>3. items \in SUBSET Item
    <3>1. {[id |-> 0, stamp |-> sent + 1]} \in SUBSET Item
      BY <1>1 DEF Item
    <3> QED
      BY <1>1, <3>1, LoadCacheDataType
  <2>4. /\ blank \in Screen /\ blank.kind = "room"
        /\ ~blank.shared /\ ~blank.ticking
    BY <2>2, NewScreenType
  <2>5. /\ room \in Screen /\ room.kind = "room" /\ ~room.shared /\ ScreenOK(room)
    <3> HIDE DEF blank, items
    <3> QED
      BY <2>3, <2>4 DEF Screen, ScreenOK
  <2>6. DelayedOK(delayed', stack)
    <3>1. moved \in Block /\ moved.host = b.host /\ moved.kind = "remove"
      BY <1>2 DEF Block
    <3>2. b.host \in DOMAIN stack /\ stack[b.host].kind = "forward"
      BY <1>1, <1>2, <1>5 DEF DelayedOK
    <3> HIDE DEF moved
    <3> QED
      BY <1>1, <2>1, <3>1, <3>2 DEF DelayedOK
  <2>7. /\ StackOK(next) /\ Len(next) = Top + 1 /\ next[Top + 1] = room
        /\ OutboxOK(outbox, next) /\ DelayedOK(delayed', next)
    <3> HIDE DEF room
    <3> QED
      BY <1>1, <2>5, <2>6, PushedShape DEF Top
  <2>8. Top + 1 \in DOMAIN next /\ Top + 1 \in Nat
    BY <1>1, <2>7 DEF StackOK, Top
  <2>9. /\ tasks \in Seq(Task)
        /\ \A k \in DOMAIN tasks : tasks[k].room = Top + 1
    <3>1. tasks[1] \in Task
      BY <1>1, <1>2, <2>8 DEF Task, Block
    <3> QED
      BY <3>1
  <2>10. OutboxOK(Deferred(tasks), next)
    <3> HIDE DEF tasks, next, room
    <3> QED
      BY <2>5, <2>7, <2>8, <2>9, DeferredOK
  <2>11. IndicesOK(stack', outbox', delayed', popping')
    <3> HIDE DEF next, tasks, moved
    <3> QED
      BY <2>1, <2>7, <2>10 DEF IndicesOK
  <2> QED
    BY <1>3, <2>11 DEF IInv
<1> QED
  BY <1>4, <1>5

(* The forward screen goes from under the room it has pushed *)
LEMMA ForwardRemoved ==
  ASSUME IInv, NEW b \in delayed, forwardRemoved(b)
  PROVE  IInv'
<1>1. /\ StackOK(stack) /\ OutboxOK(outbox, stack) /\ DelayedOK(delayed, stack)
      /\ popping = FALSE /\ popping' = FALSE
  BY DEF IInv, IndicesOK, ScalarsOK, forwardRemoved
<1>2. ScalarsOK' /\ UNCHANGED db
  BY DEF IInv, ScalarsOK, forwardRemoved
<1>3. CASE b.host = 0
  <2>1. delayed' = delayed \ {b} /\ UNCHANGED <<stack, outbox>>
    BY <1>3 DEF forwardRemoved
  <2>2. IndicesOK(stack', outbox', delayed', popping')
    BY <1>1, <2>1 DEF IndicesOK, DelayedOK
  <2> QED
    BY <1>2, <2>2 DEF IInv
<1>4. CASE b.host # 0
  <2>1. PICK d \in DOMAIN stack :
          /\ stack[d].kind = "forward"
          /\ stack' = RemoveAt(stack, d)
          /\ outbox' = [k \in DOMAIN outbox |->
                         [outbox[k] EXCEPT !.room = Shifted(@, d)]]
          /\ delayed' = {[c EXCEPT !.host = Shifted(@, d)] :
                           c \in Unhosted(delayed \ {b}, d)}
    BY <1>4 DEF forwardRemoved, IsFirstForward
  <2>2. /\ StackOK(stack')
        /\ \A i \in DOMAIN stack \ {d} :
             Shifted(i, d) \in DOMAIN stack' /\ stack'[Shifted(i, d)] = stack[i]
    BY <1>1, <2>1, RemovedShape
  <2>3. d \in Nat \ {0} /\ DOMAIN stack \subseteq Nat /\ DOMAIN stack' \subseteq Nat
    BY <1>1, <2>1, <2>2 DEF StackOK
  <2>4. OutboxOK(outbox', stack')
    <3>1. ASSUME NEW k \in DOMAIN outbox
          PROVE  /\ outbox'[k] \in Task /\ outbox'[k].room \in DOMAIN stack'
                 /\ stack'[outbox'[k].room].kind = "room"
      <4>1. /\ outbox[k] \in Task /\ outbox[k].room \in DOMAIN stack \ {d}
            /\ stack[outbox[k].room].kind = "room"
        BY <1>1, <2>1 DEF OutboxOK
      <4>2. /\ Shifted(outbox[k].room, d) \in DOMAIN stack'
            /\ stack'[Shifted(outbox[k].room, d)] = stack[outbox[k].room]
        BY <2>2, <4>1
      <4>3. outbox'[k] = [outbox[k] EXCEPT !.room = Shifted(@, d)]
        BY <2>1
      <4>4. outbox'[k] \in Task /\ outbox'[k].room = Shifted(outbox[k].room, d)
        BY <2>3, <4>1, <4>2, <4>3 DEF Task
      <4> QED
        BY <4>1, <4>2, <4>4
    <3>2. outbox' \in Seq(Task) /\ DOMAIN outbox' = DOMAIN outbox
      <4>1. DOMAIN outbox = 1 .. Len(outbox) /\ Len(outbox) \in Nat
        BY <1>1 DEF OutboxOK
      <4>2. outbox' = [k \in 1 .. Len(outbox) |-> outbox'[k]]
        BY <2>1, <4>1
      <4> QED
        BY <3>1, <4>1, <4>2
    <3> QED
      BY <3>1, <3>2 DEF OutboxOK
  <2>5. DelayedOK(delayed', stack')
    <3> DEFINE left == Unhosted(delayed \ {b}, d)
    <3>1. DelayedOK(left, stack) /\ \A c \in left : c.host # d
      <4>1. DelayedOK(delayed \ {b}, stack)
        BY <1>1 DEF DelayedOK
      <4> QED
        BY <2>3, <4>1, UnhostedOK
    <3>2. ASSUME NEW e \in delayed'
          PROVE  /\ e \in Block
                 /\ e.host # 0 =>
                      /\ e.host \in DOMAIN stack'
                      /\ stack'[e.host].kind = IF e.kind = "popToRoot" THEN "edit"
                                                                       ELSE "forward"
      <4>1. PICK c \in left : e = [c EXCEPT !.host = Shifted(@, d)]
        BY <2>1
      <4>2. c \in Block /\ c.host # d
        BY <3>1 DEF DelayedOK
      <4>3. e \in Block /\ e.kind = c.kind /\ e.host = Shifted(c.host, d)
        BY <2>3, <4>1, <4>2 DEF Block, Shifted
      <4>4. CASE c.host = 0
        BY <2>3, <4>3, <4>4 DEF Shifted
      <4>5. CASE c.host # 0
        <5>1. /\ c.host \in DOMAIN stack \ {d}
              /\ stack[c.host].kind = IF c.kind = "popToRoot" THEN "edit" ELSE "forward"
          BY <3>1, <4>2, <4>5 DEF DelayedOK
        <5> QED
          BY <2>2, <4>3, <5>1
      <4> QED
        BY <4>4, <4>5
    <3> QED
      BY <3>2 DEF DelayedOK
  <2>6. IndicesOK(stack', outbox', delayed', popping')
    BY <1>1, <2>2, <2>4, <2>5 DEF IndicesOK
  <2> QED
    BY <1>2, <2>6 DEF IInv
<1> QED
  BY <1>3, <1>4

(* Blocks of screens that are gone have no host *)
LEMMA UnhostedAll ==
  ASSUME NEW s, NEW blocks, DelayedOK(blocks, s), NEW t
  PROVE  DelayedOK({[c EXCEPT !.host = 0] : c \in blocks}, t)
<1>1. \A c \in blocks : [c EXCEPT !.host = 0] \in Block /\ [c EXCEPT !.host = 0].host = 0
  BY DEF DelayedOK, Block
<1> QED
  BY <1>1 DEF DelayedOK

(* No screen goes that a deferred write refers to *)
LEMMA NothingHeld ==
  ASSUME NEW s, ~Held(s)
  PROVE  outbox = <<>> /\ modal = NoModal /\ \A i \in DOMAIN s : ~s[i].ticking
BY DEF Held

(* The delayed pop to the root: the screens go, or are held as they are *)
LEMMA PoppedToRoot ==
  ASSUME IInv, NEW b \in delayed, poppedToRoot(b)
  PROVE  IInv'
<1>1. /\ IndicesOK(stack, outbox, delayed, popping) /\ DelayedOK(delayed, stack)
      /\ StackOK(stack) /\ OutboxOK(outbox, stack)
      /\ popping \in BOOLEAN /\ UNCHANGED <<db, popping, outbox>>
  BY DEF IInv, IndicesOK, ScalarsOK, poppedToRoot
<1>2. CASE b.host = 0
  <2>1. delayed' = delayed \ {b} /\ UNCHANGED <<stack, dropped>>
    BY <1>2 DEF poppedToRoot
  <2>2. IndicesOK(stack', outbox', delayed', popping')
    BY <1>1, <2>1 DEF IndicesOK, DelayedOK
  <2>3. ScalarsOK'
    BY <2>1 DEF IInv, ScalarsOK, poppedToRoot
  <2> QED
    BY <1>1, <2>2, <2>3 DEF IInv
<1>3. CASE b.host # 0
  <2>1. /\ popping' = FALSE /\ dropped' = Len(stack')
        /\ delayed' = {[c EXCEPT !.host = 0] : c \in delayed \ {b}}
        /\ \/ stack' = Hidden(stack)
           \/ stack' = <<>> /\ outbox = <<>>
    BY <1>1, <1>3, NothingHeld DEF poppedToRoot
  <2>2. /\ StackOK(Hidden(stack)) /\ OutboxOK(outbox, Hidden(stack))
        /\ StackOK(<<>>) /\ OutboxOK(<<>>, <<>>)
    <3>1. Hidden(stack) \in Seq(Screen) /\ SameShape(stack, Hidden(stack))
      BY <1>1, HiddenShape
    <3>2. StackOK(Hidden(stack)) /\ OutboxOK(outbox, Hidden(stack))
      BY <1>1, <3>1, ShapeIsEnough
    <3> QED
      BY <3>2 DEF StackOK, OutboxOK
  <2>3. StackOK(stack') /\ OutboxOK(outbox', stack')
    BY <1>1, <2>1, <2>2
  <2>4. DelayedOK(delayed', stack')
    <3>1. DelayedOK(delayed \ {b}, stack)
      BY <1>1 DEF DelayedOK
    <3> QED
      BY <2>1, <3>1, UnhostedAll
  <2>5. ScalarsOK'
    BY <2>1, <2>3 DEF IInv, ScalarsOK, StackOK, poppedToRoot
  <2> QED
    BY <1>1, <2>1, <2>3, <2>4, <2>5 DEF IInv, IndicesOK
<1> QED
  BY <1>2, <1>3

(* Screens that nothing holds go *)
LEMMA Deinit ==
  ASSUME IInv, DroppedOK, deinit
  PROVE  IInv'
<1>1. /\ stack' = <<>> /\ dropped' = 0 /\ outbox = <<>>
      /\ UNCHANGED <<db, popping, outbox, delayed, badgeDue, widget, sent, confirmed>>
  BY NothingHeld DEF deinit
<1>2. popping = FALSE /\ \A b \in delayed : b.host = 0
  <2>1. Top = dropped /\ Top = Len(stack) /\ Top \in Nat /\ popping \in BOOLEAN
    BY OnTopOK DEF deinit, IInv, ScalarsOK
  <2>2. DelayedOK(delayed, stack) /\ DOMAIN stack = 1 .. Len(stack)
    BY OnTopOK DEF IInv, IndicesOK
  <2> QED
    BY <2>1, <2>2 DEF DroppedOK, DelayedOK
<1>3. StackOK(<<>>) /\ OutboxOK(<<>>, <<>>) /\ DelayedOK(delayed, <<>>)
  BY <1>2 DEF IInv, IndicesOK, StackOK, OutboxOK, DelayedOK
<1> QED
  BY <1>1, <1>2, <1>3 DEF IInv, IndicesOK, ScalarsOK

-----------------------------------------------------------------------------
(* The other steps, and all of them together *)

(* An avatar opens an info screen, from a list or from a room *)
LEMMA PushChatInfo ==
  ASSUME IInv, NEW uid, pushChatInfo(uid) \/ didTapAvatar
  PROVE  IInv'
<1>1. popping = FALSE
  BY DEF IInv, ScalarsOK, pushChatInfo, didTapAvatar, AtRoot, OnTop, Touchable
<1>2. CASE pushChatInfo(uid)
  BY <1>1, <1>2, PushInfoStep DEF pushChatInfo
<1>3. CASE didTapAvatar
  BY <1>1, <1>3, PushInfoStep DEF didTapAvatar
<1> QED
  BY <1>2, <1>3

(* The steps that change the tables or the badge, and no screen *)
LEMMA SessionListStep ==
  ASSUME IInv,
         \/ \E uid \in Uids : handleDeleteSesstionAtRow(uid)
         \/ readAllAction \/ showSessionBadge \/ UNCHANGED vars
  PROVE  IInv'
<1>1. db \in Store /\ OneRowPerUid(db)
  BY DEF IInv
<1>2. IndicesOK(stack', outbox', delayed', popping')
  BY DEF IInv, handleDeleteSesstionAtRow, readAllAction, showSessionBadge, vars
<1>3. ScalarsOK'
  BY DEF IInv, ScalarsOK, handleDeleteSesstionAtRow, readAllAction,
         showSessionBadge, reloadSesstionData, vars
<1>4. db' \in Store /\ OneRowPerUid(db')
  <2>1. CASE \E uid \in Uids : handleDeleteSesstionAtRow(uid)
    <3>1. PICK uid \in Uids : handleDeleteSesstionAtRow(uid)
      BY <2>1
    <3> DEFINE store == deleteFromMesssageWithId(db, uid)
               user  == qureyFromChatId(store, uid)
    <3>2. store \in Store /\ OneRowPerUid(store)
      BY <1>1, DeleteMessagesType, DeleteKeepsOneRow
    <3>3. user \in ChatModel
      <4> HIDE DEF store
      <4> QED
        BY <3>2, QureyFromChatIdType
    <3>4. db' = clearCurrentBadge(store, user)
      BY <3>1 DEF handleDeleteSesstionAtRow
    <3> HIDE DEF store, user
    <3> QED
      BY <3>2, <3>3, <3>4, ClearCurrentBadgeType
  <2>2. CASE readAllAction
    <3> DEFINE kept(c) == IF ReadBack(db, c) THEN Read(c) ELSE c
    <3>1. db' = [db EXCEPT !.chat = {kept(c) : c \in @}]
      BY <2>2 DEF readAllAction
    <3>2. \A c \in db.chat : kept(c) \in ChatModel /\ kept(c).uid = c.uid
      BY <1>1, ReadType DEF Store
    <3>3. db'.chat = {kept(c) : c \in db.chat}
      BY <1>1, <3>1 DEF Store
    <3> HIDE DEF kept
    <3>4. db' \in Store
      BY <1>1, <3>1, <3>2 DEF Store
    <3>5. OneRowPerUid(db')
      BY <1>1, <3>2, <3>3 DEF OneRowPerUid
    <3> QED
      BY <3>4, <3>5
  <2>3. CASE showSessionBadge \/ UNCHANGED vars
    BY <1>1, <2>3 DEF showSessionBadge, vars
  <2> QED
    BY <2>1, <2>2, <2>3
<1> QED
  BY <1>2, <1>3, <1>4 DEF IInv

(* A process that has just started shows the root screen *)
LEMMA EmptyIndices == IndicesOK(<<>>, <<>>, {}, FALSE)
BY DEF IndicesOK, StackOK, OutboxOK, DelayedOK

(* The process is killed and launched again *)
LEMMA Relaunch ==
  ASSUME IInv, relaunch
  PROVE  IInv'
<1>1. IndicesOK(stack', outbox', delayed', popping')
  BY EmptyIndices DEF relaunch
<1>2. ScalarsOK' /\ UNCHANGED db
  BY DEF IInv, ScalarsOK, relaunch, reloadSesstionData
<1> QED
  BY <1>1, <1>2 DEF IInv

(* The app starts with a row for each friend and group *)
LEMMA InitIInv == Init => IInv
<1> SUFFICES ASSUME Init PROVE IInv
  OBVIOUS
<1> DEFINE n == Cardinality(Uids)
           row(k) == [EmptyChat EXCEPT !.id = k, !.uid = Added[k],
                        !.chatType = IF Added[k] \in Friends THEN SingleChat
                                                             ELSE GroupedChat]
<1>1. IsFiniteSet(Uids) /\ Uids \subseteq Nat
  BY ChatRoomAssumption, FS_Union DEF Uids
<1>2. n \in Nat /\ Bijection(1 .. n, Uids) # {}
  BY <1>1, FS_CardinalityType DEF ExistsBijection
<1>3. Added \in Bijection(1 .. n, Uids)
  BY <1>2 DEF Added
<1>4. /\ \A k \in 1 .. n : Added[k] \in Uids
      /\ \A k, l \in 1 .. n : Added[k] = Added[l] => k = l
  BY <1>3 DEF Bijection, Injection, Surjection, IsInjective
<1>5. \A k \in 1 .. n : row(k) \in ChatModel /\ row(k).uid = Added[k]
  <2> SUFFICES ASSUME NEW k \in 1 .. n
               PROVE  row(k) \in ChatModel /\ row(k).uid = Added[k]
    OBVIOUS
  <2> DEFINE uid  == Added[k]
             type == IF uid \in Friends THEN SingleChat ELSE GroupedChat
  <2>1. k \in Nat /\ uid \in Nat
    <3> HIDE DEF n
    <3>1. k \in Nat
      BY <1>2
    <3> QED
      BY <1>1, <1>4, <3>1
  <2>2. type \in 0 .. 2
    BY DEF SingleChat, GroupedChat
  <2>3. row(k) = [EmptyChat EXCEPT !.id = k, !.uid = uid, !.chatType = type]
    OBVIOUS
  <2> HIDE DEF row, uid, type
  <2>4. row(k) \in ChatModel /\ row(k).uid = uid
    BY <2>1, <2>2, <2>3, EmptyChatType DEF ChatModel
  <2> QED
    BY <2>4 DEF uid
<1>6. db = [chat |-> {row(k) : k \in 1 .. n}, message |-> {}, chatSeq |-> n,
            messageSeq |-> 0]
  BY DEF Init
<1> HIDE DEF row, n
<1>7. db \in Store /\ OneRowPerUid(db)
  BY <1>2, <1>4, <1>5, <1>6 DEF Store, OneRowPerUid
<1>8. IndicesOK(stack, outbox, delayed, popping)
  BY EmptyIndices DEF Init
<1>9. ScalarsOK
  BY DEF Init, ScalarsOK
<1> QED
  BY <1>7, <1>8, <1>9 DEF IInv

(* Every step of the model keeps the invariant *)
LEMMA NextIInv == IInv /\ DroppedOK /\ ModalOK /\ [Next]_vars => IInv'
<1> SUFFICES ASSUME IInv, DroppedOK, ModalOK, [Next]_vars PROVE IInv'
  OBVIOUS
<1>1. ASSUME NEW uid \in Uids, didSelectRow(uid) PROVE IInv'
  BY <1>1, DidSelectRow
<1>2. ASSUME NEW uid \in Uids, pushChatInfo(uid) PROVE IInv'
  BY <1>2, PushChatInfo
<1>3. CASE \E uid \in Uids : handleDeleteSesstionAtRow(uid)
  BY <1>3, SessionListStep
<1>4. ASSUME NEW item, didMenuDelete(item) PROVE IInv'
  BY <1>4, DidMenuDelete
<1>5. ASSUME NEW uid \in Uids, forwardAction(uid) PROVE IInv'
  BY <1>5, ForwardAction
<1>6. ASSUME NEW name \in NickNames, saveEditing(name) PROVE IInv'
  BY <1>6, SaveEditing
<1>7. CASE keyboardDidFinish \/ didFinishPickingPhotos
  BY <1>7, SendersAreRooms, MakeChatMessage DEF Sending
<1>8. CASE openImagePicker \/ exitGroupAlert \/ cancel
  BY <1>8, Presenting
<1>9. CASE messageForward
  BY <1>9, MessageForward
<1>10. CASE popViewController
  BY <1>10, PopViewController
<1>11. CASE exitGroupChat
  BY <1>11, ExitGroupChat
<1>12. CASE didTapAvatar
  BY <1>12, PushChatInfo
<1>13. CASE sendButton
  BY <1>13, SendButton
<1>14. CASE editNickName
  BY <1>14, EditNickName
<1>15. CASE readAllAction
  BY <1>15, SessionListStep
<1>16. CASE beginCacheMessage
  BY <1>16, BeginCacheMessage
<1>17. CASE showSessionBadge
  BY <1>17, SessionListStep
<1>18. CASE popEnds
  BY <1>18, PopEnds
<1>19. CASE deinit
  BY <1>19, Deinit
<1>20. ASSUME NEW b \in delayed, forwardFires(b) PROVE IInv'
  BY <1>20, ForwardFires
<1>21. ASSUME NEW b \in delayed, forwardRemoved(b) PROVE IInv'
  BY <1>21, ForwardRemoved
<1>22. ASSUME NEW b \in delayed, poppedToRoot(b) PROVE IInv'
  BY <1>22, PoppedToRoot
<1>23. CASE openWidgetChat
  BY <1>23, OpenWidgetChat
<1>24. ASSUME NEW i \in DOMAIN stack, makeGroupAutoSend(i) PROVE IInv'
  BY <1>24, MakeGroupAutoSend
<1>25. CASE relaunch
  BY <1>25, Relaunch
<1>26. CASE UNCHANGED vars
  BY <1>26, SessionListStep
<1>27. CASE User
  BY <1>1, <1>2, <1>3, <1>4, <1>5, <1>6, <1>7, <1>8, <1>9, <1>10, <1>11,
     <1>12, <1>13, <1>14, <1>15, <1>27 DEF User
<1>28. CASE System
  BY <1>16, <1>17, <1>18, <1>19, <1>20, <1>21, <1>22, <1>28 DEF System
<1> QED
  BY <1>23, <1>24, <1>25, <1>26, <1>27, <1>28 DEF Next, Running

-----------------------------------------------------------------------------
(* The screens: who stays, who is covered, and whose timer runs on.         *)

(* A screen that may have lost its timer and changed what it shows *)
StillThe(screen, new) ==
  /\ new.kind = screen.kind /\ new.shared = screen.shared
  /\ new.model.uid = screen.model.uid /\ new.model.chatType = screen.model.chatType
  /\ new.isTimered = screen.isTimered
  /\ new.ticking => screen.ticking

SameChats(s, t) ==
  /\ Len(t) = Len(s) /\ DOMAIN t = DOMAIN s
  /\ \A i \in DOMAIN s : StillThe(s[i], t[i])

(* The screens whose timer runs unseen, when the first d are off the stack *)
UnseenOf(s, d) == {i \in DOMAIN s : s[i].ticking /\ ~(i = Len(s) /\ i > d)}

-----------------------------------------------------------------------------
(* Stacks *)

(* Screens keep their chats, shared or not *)
LEMMA SameModels ==
  ASSUME NEW s, StackOK(s), NEW t, SameChats(s, t), NEW i \in DOMAIN s
  PROVE  /\ ModelAt(t, i).uid = ModelAt(s, i).uid
         /\ ModelAt(t, i).chatType = ModelAt(s, i).chatType
<1>1. Owner(s, i) \in DOMAIN s /\ Owner(t, i) = Owner(s, i)
  BY ModelAtType DEF Owner, SameChats, StillThe
<1> QED
  BY <1>1 DEF ModelAt, SameChats, StillThe

(* And no other timer runs *)
LEMMA SameTimers ==
  ASSUME NEW s, NEW t, SameChats(s, t), NEW d
  PROVE  UnseenOf(t, d) \subseteq UnseenOf(s, d)
BY DEF UnseenOf, SameChats, StillThe

(* Nothing has changed *)
LEMMA Unchanged ==
  ASSUME NEW s
  PROVE  SameChats(s, s)
BY DEF SameChats, StillThe

(* Two changes after one another *)
LEMMA ChangedTwice ==
  ASSUME NEW s, NEW t, NEW u, SameChats(s, t), SameChats(t, u)
  PROVE  SameChats(s, u)
BY DEF SameChats, StillThe

(* One screen has changed *)
LEMMA ChangedChats ==
  ASSUME NEW s, StackOK(s), NEW i \in DOMAIN s, NEW screen, StillThe(s[i], screen)
  PROVE  SameChats(s, [s EXCEPT ![i] = screen])
<1>1. s \in Seq(Screen)
  BY DEF StackOK
<1>2. Len([s EXCEPT ![i] = screen]) = Len(s)
  BY <1>1
<1> QED
  BY <1>1, <1>2 DEF SameChats, StillThe

(* Items, badge, or columns of the model other than uid and type *)
LEMMA UpdatedChats ==
  ASSUME NEW s, StackOK(s), NEW i \in DOMAIN s, NEW items, NEW badge,
         NEW model, model.uid = s[i].model.uid, model.chatType = s[i].model.chatType,
         NEW t \in {[s EXCEPT ![i].items = items], [s EXCEPT ![i].badge = badge],
                    [s EXCEPT ![i].model = model]}
  PROVE  SameChats(s, t)
<1> DEFINE screen == s[i]
           us == {[screen EXCEPT !.items = items], [screen EXCEPT !.badge = badge],
                  [screen EXCEPT !.model = model]}
<1>1. screen \in Screen
  BY DEF StackOK
<1>2. PICK u \in us : t = [s EXCEPT ![i] = u]
  OBVIOUS
<1>3. StillThe(screen, u)
  <2> HIDE DEF screen
  <2>1. CASE u = [screen EXCEPT !.items = items]
    BY Zenon, <1>1, <2>1 DEF Screen, StillThe
  <2>2. CASE u = [screen EXCEPT !.badge = badge]
    BY Zenon, <1>1, <2>2 DEF Screen, StillThe
  <2>3. CASE u = [screen EXCEPT !.model = model]
    <3>1. screen.model = s[i].model
      BY DEF screen
    <3> QED
      BY Zenon, <1>1, <2>3, <3>1 DEF Screen, StillThe
  <2> QED
    BY <1>2, <2>1, <2>2, <2>3
<1> QED
  BY <1>2, <1>3, ChangedChats

(* viewDidDisappear stops the timer of the screen that was seen *)
LEMMA HiddenChats ==
  ASSUME NEW s, StackOK(s)
  PROVE  /\ SameChats(s, Hidden(s))
         /\ \A i \in DOMAIN s : Hidden(s)[i].ticking => i \in UnseenOf(s, dropped)
<1>1. s \in Seq(Screen) /\ DOMAIN s = 1 .. Len(s)
  BY DEF StackOK
<1>2. CASE s = <<>> \/ Len(s) = dropped
  <2>1. Hidden(s) = s
    BY <1>1, <1>2 DEF Hidden
  <2>2. SameChats(s, Hidden(s))
    BY <2>1, Unchanged
  <2>3. \A i \in DOMAIN s : ~(i = Len(s) /\ i > dropped)
    BY <1>1, <1>2
  <2> QED
    BY <2>1, <2>2, <2>3 DEF UnseenOf
<1>3. CASE s # <<>> /\ Len(s) # dropped
  <2> DEFINE stopped == [s[Len(s)] EXCEPT !.ticking = FALSE]
  <2>1. Len(s) \in DOMAIN s /\ s[Len(s)] \in Screen
    BY <1>1, <1>3
  <2>2. StillThe(s[Len(s)], stopped) /\ ~stopped.ticking
    BY Zenon, <2>1 DEF Screen, StillThe
  <2>3. Hidden(s) = [s EXCEPT ![Len(s)] = stopped]
    BY <1>3 DEF Hidden
  <2> HIDE DEF stopped
  <2>4. SameChats(s, Hidden(s))
    <3>1. SameChats(s, [s EXCEPT ![Len(s)] = stopped])
      BY <2>1, <2>2, ChangedChats
    <3> QED
      BY Zenon, <2>3, <3>1
  <2>5. \A i \in DOMAIN s : Hidden(s)[i] = IF i = Len(s) THEN stopped ELSE s[i]
    BY <1>1, <2>1, <2>3
  <2> QED
    BY <2>2, <2>4, <2>5 DEF UnseenOf
<1> QED
  BY <1>2, <1>3

(* A push covers the screens, and leaves no timer behind *)
LEMMA PushedChats ==
  ASSUME NEW s, StackOK(s), NEW screen
  PROVE  /\ Len(Pushed(s, screen)) = Len(s) + 1
         /\ \A i \in DOMAIN s :
              /\ i \in DOMAIN Pushed(s, screen)
              /\ Pushed(s, screen)[i].kind = s[i].kind
              /\ ModelAt(Pushed(s, screen), i).uid = ModelAt(s, i).uid
         /\ ~screen.ticking => \A d : UnseenOf(Pushed(s, screen), d) \subseteq UnseenOf(s, dropped)
<1> DEFINE h == Hidden(s)
           t == Pushed(s, screen)
<1>1. s \in Seq(Screen) /\ DOMAIN s = 1 .. Len(s) /\ Len(s) \in Nat
  BY DEF StackOK
<1>2. h \in Seq(Screen) /\ SameChats(s, h) /\ DOMAIN h = 1 .. Len(s)
  BY <1>1, HiddenShape, HiddenChats DEF SameChats
<1>3. /\ DOMAIN t = 1 .. Len(s) + 1 /\ t[Len(s) + 1] = screen /\ Len(t) = Len(s) + 1
      /\ \A i \in DOMAIN s : t[i] = h[i]
  BY <1>1, <1>2 DEF Pushed, SameChats
<1>4. ASSUME NEW i \in DOMAIN s
      PROVE  /\ i \in DOMAIN t /\ t[i].kind = s[i].kind
             /\ ModelAt(t, i).uid = ModelAt(s, i).uid
  <2>1. Owner(s, i) \in DOMAIN s /\ ModelAt(h, i).uid = ModelAt(s, i).uid
    BY <1>2, ModelAtType, SameModels
  <2>2. Owner(h, i) = Owner(s, i) /\ Owner(t, i) = Owner(h, i) /\ t[i].kind = s[i].kind
    BY <1>2, <1>3 DEF Owner, SameChats, StillThe
  <2> QED
    BY <1>1, <1>3, <2>1, <2>2 DEF ModelAt
<1>5. ASSUME ~screen.ticking, NEW d, NEW i \in UnseenOf(t, d) PROVE i \in UnseenOf(s, dropped)
  <2>1. i \in DOMAIN t /\ t[i].ticking
    BY <1>5 DEF UnseenOf
  <2>2. i \in DOMAIN s
    BY <1>1, <1>3, <1>5, <2>1
  <2> QED
    BY <1>3, <2>1, <2>2, HiddenChats
<1> QED
  BY <1>3, <1>4, <1>5

(* The end of a pop starts none *)
LEMMA FrontTimers ==
  ASSUME NEW s, StackOK(s), s # <<>>, NEW d
  PROVE  UnseenOf(Front(s), d) \subseteq UnseenOf(s, d)
<1>1. s \in Seq(Screen) /\ Len(s) \in Nat \ {0} /\ DOMAIN s = 1 .. Len(s)
  BY DEF StackOK
<1>2. /\ DOMAIN Front(s) = 1 .. Len(s) - 1
      /\ \A i \in 1 .. Len(s) - 1 : Front(s)[i] = s[i]
  BY <1>1 DEF Front
<1>3. ASSUME NEW i \in 1 .. Len(s) - 1 PROVE i \in DOMAIN s /\ i # Len(s)
  <2> DEFINE n == Len(s)
  <2>1. n \in Nat \ {0} /\ DOMAIN s = 1 .. n /\ i \in 1 .. n - 1
    BY <1>1
  <2> HIDE DEF n
  <2>2. i \in 1 .. n /\ i # n
    BY <2>1
  <2> QED
    BY <2>1, <2>2 DEF n
<1> QED
  BY <1>2, <1>3 DEF UnseenOf

(* A screen that lies on the same screen has the same chat *)
LEMMA SamePlace ==
  ASSUME NEW s, NEW i, NEW t, NEW j, t[j] = s[i], s[i].shared => t[j - 1] = s[i - 1]
  PROVE  ModelAt(t, j) = ModelAt(s, i)
BY DEF ModelAt, Owner

(* removeControllerWithName: screens keep their chats where they move to *)
LEMMA RemovedChats ==
  ASSUME NEW s, StackOK(s), NEW d \in DOMAIN s, s[d].kind = "forward",
         NEW i \in DOMAIN s \ {d}
  PROVE  ModelAt(RemoveAt(s, d), Shifted(i, d)) = ModelAt(s, i)
<1> DEFINE t == RemoveAt(s, d)
           j == Shifted(i, d)
<1>1. /\ s \in Seq(Screen) /\ DOMAIN s = 1 .. Len(s) /\ Len(s) \in Nat
      /\ d \in Nat /\ i \in Nat /\ i # d
  BY DEF StackOK
<1>2. \A k \in DOMAIN s \ {d} : Shifted(k, d) \in DOMAIN t /\ t[Shifted(k, d)] = s[k]
  BY RemovedShape
<1>3. ASSUME s[i].shared PROVE t[j - 1] = s[i - 1]
  <2>1. i > 1 /\ s[i - 1].kind = "info" /\ i - 1 \in DOMAIN s
    BY <1>1, <1>3 DEF StackOK
  <2>2. i - 1 \in DOMAIN s \ {d}
    BY <2>1
  <2>3. Shifted(i - 1, d) = j - 1
    BY <1>1, <2>1, <2>2 DEF Shifted
  <2> HIDE DEF t, j
  <2> QED
    BY <1>2, <2>2, <2>3
<1>4. t[j] = s[i]
  BY <1>2
<1> QED
  BY <1>3, <1>4, SamePlace

(* A timer that runs unseen ran unseen where its room was before *)
LEMMA RemovedTimers ==
  ASSUME NEW s, StackOK(s), NEW d \in DOMAIN s, s[d].kind = "forward",
         NEW e \in Nat, d > e, NEW j \in UnseenOf(RemoveAt(s, d), e)
  PROVE  \E i \in UnseenOf(s, e) : Shifted(i, d) = j
<1> DEFINE t == RemoveAt(s, d)
<1>1. /\ s \in Seq(Screen) /\ DOMAIN s = 1 .. Len(s) /\ Len(s) \in Nat /\ d \in Nat
  BY DEF StackOK
<1>2. /\ \A k \in DOMAIN s \ {d} : Shifted(k, d) \in DOMAIN t /\ t[Shifted(k, d)] = s[k]
      /\ t \in Seq(Screen) /\ DOMAIN t = 1 .. Len(t)
  BY RemovedShape DEF StackOK
<1>3. Len(t) = Len(s) - 1
  BY RemovedShape
<1>4. j \in DOMAIN t /\ t[j].ticking /\ ~(j = Len(t) /\ j > e)
  BY DEF UnseenOf
<1> HIDE DEF t
<1>5. PICK i \in DOMAIN s \ {d} : Shifted(i, d) = j
  <2>1. CASE j < d
    BY <1>1, <1>2, <1>3, <1>4, <2>1 DEF Shifted
  <2>2. CASE ~(j < d)
    <3>1. j + 1 \in DOMAIN s \ {d} /\ Shifted(j + 1, d) = j
      BY <1>1, <1>2, <1>3, <1>4, <2>2 DEF Shifted
    <3> QED
      BY <3>1
  <2> QED
    BY <2>1, <2>2
<1>6. s[i].ticking
  BY <1>2, <1>4, <1>5
<1>7. ~(i = Len(s) /\ i > e)
  BY <1>1, <1>3, <1>4, <1>5 DEF Shifted
<1>8. i \in UnseenOf(s, e)
  BY <1>6, <1>7 DEF UnseenOf
<1> QED
  BY <1>5, <1>8

-----------------------------------------------------------------------------
(* Steps that change screens in place *)

(* reloadChatData shows messages *)
LEMMA ReloadChats ==
  ASSUME NEW stk, StackOK(stk), NEW i \in DOMAIN stk, NEW n, reloadChatData(stk, i, n)
  PROVE  SameChats(stk, stack')
<1> DEFINE items == stk[i].items \cup {[id |-> 0, stamp |-> s] : s \in sent + 1 .. sent + n}
<1>1. stack' = [stk EXCEPT ![i].items = items]
  BY DEF reloadChatData
<1> HIDE DEF items
<1> QED
  BY <1>1, UpdatedChats

(* The deferred write changes a badge and a chat object *)
LEMMA StoringChats ==
  ASSUME IInv, beginCacheMessage
  PROVE  SameChats(stack, stack')
<1> DEFINE r     == Head(outbox).room
           o     == Owner(stack, r)
           badge == stack[r].badge + 1
           chat  == [ModelAt(stack, r) EXCEPT !.unReadCount = badge]
           mid   == [stack EXCEPT ![r].badge = badge]
           last  == [mid EXCEPT ![o].model = chat]
<1>1. /\ StackOK(stack) /\ stack \in Seq(Screen) /\ r \in DOMAIN stack
      /\ stack[r] \in Screen
  <2>1. /\ StackOK(stack) /\ OutboxOK(outbox, stack) /\ outbox # <<>>
        /\ stack \in Seq(Screen)
    BY DEF IInv, IndicesOK, StackOK, beginCacheMessage
  <2>2. r \in DOMAIN stack
    BY <2>1 DEF OutboxOK
  <2> QED
    BY <2>1, <2>2
<1> HIDE DEF r
<1>2. o \in DOMAIN stack /\ ModelAt(stack, r) \in ChatModel
  BY <1>1, ModelAtType
<1>3. chat.uid = ModelAt(stack, r).uid /\ chat.chatType = ModelAt(stack, r).chatType
  <2> HIDE DEF badge
  <2> QED
    BY <1>2 DEF ChatModel
<1>4. ModelAt(stack, r) = stack[o].model
  BY DEF ModelAt
<1>5. SameChats(stack, mid)
  <2> HIDE DEF badge
  <2> QED
    BY <1>1, UpdatedChats
<1>6. mid \in Seq(Screen) /\ SameShape(stack, mid) /\ StackOK(mid)
  <2>1. badge \in Nat /\ {} \in SUBSET Item /\ EmptyChat \in ChatModel
    BY <1>1, EmptyChatType DEF Screen
  <2>2. mid \in Seq(Screen) /\ SameShape(stack, mid)
    <3> HIDE DEF badge
    <3> QED
      BY <1>1, <2>1, UpdatedStack
  <2> HIDE DEF mid
  <2> QED
    BY <1>1, <2>2, ShapeIsEnough
<1>7. o \in DOMAIN mid /\ mid[o].model.uid = stack[o].model.uid
      /\ mid[o].model.chatType = stack[o].model.chatType
  BY <1>2, <1>5 DEF SameChats, StillThe
<1>8. SameChats(mid, last)
  <2> HIDE DEF mid, chat, o
  <2> QED
    BY <1>3, <1>4, <1>6, <1>7, UpdatedChats
<1>9. stack' = mid \/ stack' = last
  BY DEF beginCacheMessage, r
<1> HIDE DEF mid, last
<1> QED
  BY <1>5, <1>8, <1>9, ChangedTwice

(* Deleting a message changes the items of a room *)
LEMMA DeletingChats ==
  ASSUME IInv, NEW item, didMenuDelete(item)
  PROVE  SameChats(stack, stack')
<1> DEFINE items == loadCacheData(db', ModelAt(stack, Top), stack[Top].items \ {item})
<1>1. StackOK(stack) /\ Top \in DOMAIN stack
  BY OnTopOK DEF IInv, IndicesOK, didMenuDelete
<1>2. stack' = [stack EXCEPT ![Top].items = items]
  BY DEF didMenuDelete
<1> HIDE DEF items
<1> QED
  BY <1>1, <1>2, UpdatedChats

(* Saving a nickname changes the chat object beneath *)
LEMMA SavingChats ==
  ASSUME IInv, NEW name, saveEditing(name)
  PROVE  SameChats(stack, stack')
<1> DEFINE o     == Owner(stack, Top)
           model == [ModelAt(stack, Top) EXCEPT !.nickName = name]
<1>1. StackOK(stack) /\ Top \in DOMAIN stack
  BY OnTopOK DEF IInv, IndicesOK, saveEditing
<1>2. o \in DOMAIN stack /\ ModelAt(stack, Top) \in ChatModel
  BY <1>1, ModelAtType
<1>3. ModelAt(stack, Top) = stack[o].model
  BY DEF ModelAt
<1>4. model.uid = stack[o].model.uid /\ model.chatType = stack[o].model.chatType
  BY <1>2, <1>3 DEF ChatModel
<1>5. stack' = [stack EXCEPT ![o].model = model]
  BY DEF saveEditing
<1> HIDE DEF o, model
<1> QED
  BY <1>1, <1>2, <1>4, <1>5, UpdatedChats

-----------------------------------------------------------------------------
(* The kinds of steps *)

(* A screen is pushed that has no timer *)
CoveringStep ==
  \E screen : ~screen.ticking /\ stack' = Pushed(stack, screen)

(* New rooms and other new screens have none *)
LEMMA NewScreensRest ==
  ASSUME NEW store \in Store, NEW model
  PROVE  /\ \A kind : ~NewScreen(kind, model).ticking
         /\ ~NewRoom(store, model).ticking
BY DEF NewScreen, NewRoom

(* The steps that push a screen *)
LEMMA Covering ==
  ASSUME IInv,
         \/ \E uid : didSelectRow(uid) \/ pushChatInfo(uid)
         \/ openWidgetChat \/ messageForward \/ didTapAvatar
         \/ sendButton \/ editNickName
         \/ \E b \in delayed : forwardFires(b) /\ b.host # 0
  PROVE  CoveringStep
<1>1. db \in Store
  BY DEF IInv
<1>2. CASE \/ \E uid : didSelectRow(uid) \/ pushChatInfo(uid)
           \/ openWidgetChat \/ didTapAvatar
  BY <1>1, <1>2, NewScreensRest
  DEF CoveringStep, didSelectRow, pushChatInfo, openWidgetChat, didTapAvatar, PushScreen
<1>3. CASE messageForward
  <2> DEFINE chatType == ModelAt(stack, Top).chatType
             listed   == {c.uid : c \in qureyFromChatsWithType(db, chatType)}
             blank    == NewScreen("forward", [EmptyChat EXCEPT !.chatType = chatType])
             screen   == [blank EXCEPT !.targets = listed]
  <2>1. stack' = Pushed(stack, screen)
    BY <1>3 DEF messageForward
  <2>2. ~screen.ticking
    BY DEF NewScreen
  <2> HIDE DEF screen
  <2> QED
    BY <2>1, <2>2 DEF CoveringStep
<1>4. CASE sendButton
  <2> DEFINE screen == [NewRoom(db, ModelAt(stack, Top)) EXCEPT !.shared = TRUE,
                                                                !.model = EmptyChat]
  <2>1. stack' = Pushed(stack, screen)
    BY <1>4 DEF sendButton, PushScreen
  <2>2. ~screen.ticking
    BY DEF NewRoom, NewScreen
  <2> HIDE DEF screen
  <2> QED
    BY <2>1, <2>2 DEF CoveringStep
<1>5. CASE editNickName
  <2> DEFINE screen == [NewScreen("edit", EmptyChat) EXCEPT !.shared = TRUE]
  <2>1. stack' = Pushed(stack, screen)
    BY <1>5 DEF editNickName, PushScreen
  <2>2. ~screen.ticking
    BY DEF NewScreen
  <2> HIDE DEF screen
  <2> QED
    BY <2>1, <2>2 DEF CoveringStep
<1>6. CASE \E b \in delayed : forwardFires(b) /\ b.host # 0
  <2>1. PICK b \in delayed : forwardFires(b) /\ b.host # 0
    BY <1>6
  <2> DEFINE chat   == qureyFromChatId(db, b.target)
             items  == loadCacheData(db, chat, {[id |-> 0, stamp |-> sent + 1]})
             screen == [NewScreen("room", chat) EXCEPT !.items = items]
  <2>2. stack' = Pushed(stack, screen)
    BY <2>1 DEF forwardFires
  <2>3. ~screen.ticking
    BY DEF NewScreen
  <2> HIDE DEF screen
  <2> QED
    BY <2>2, <2>3 DEF CoveringStep
<1> QED
  BY <1>2, <1>3, <1>4, <1>5, <1>6

(* A room that sends may start its timer, and no other *)
LEMMA SendingChats ==
  ASSUME IInv, NEW i \in DOMAIN stack, stack[i].kind = "room", makeChatMessage(i)
  PROVE  /\ Len(stack') = Len(stack)
         /\ \A j \in DOMAIN stack :
              /\ j \in DOMAIN stack' /\ stack'[j].kind = stack[j].kind
              /\ ModelAt(stack', j).uid = ModelAt(stack, j).uid
         /\ OnScreen(i) => UnseenOf(stack', dropped) \subseteq UnseenOf(stack, dropped)
<1> DEFINE started == [stack[i] EXCEPT !.isTimered = TRUE, !.ticking = TRUE]
           stk     == [stack EXCEPT ![i] = started]
<1>1. StackOK(stack) /\ stack \in Seq(Screen) /\ DOMAIN stack = 1 .. Len(stack)
  BY DEF IInv, IndicesOK, StackOK
<1>2. stack[i] \in Screen
  BY <1>1
<1>3. reloadChatData(stack, i, 1) \/ reloadChatData(stk, i, 2)
  <2>1. stk = [stack EXCEPT ![i].isTimered = TRUE, ![i].ticking = TRUE]
    BY <1>1
  <2> QED
    BY <2>1 DEF makeChatMessage
<1>4. CASE reloadChatData(stack, i, 1)
  <2>1. SameChats(stack, stack')
    BY <1>1, <1>4, ReloadChats
  <2>2. \A j \in DOMAIN stack : ModelAt(stack', j).uid = ModelAt(stack, j).uid
    BY <1>1, <2>1, SameModels
  <2>3. UnseenOf(stack', dropped) \subseteq UnseenOf(stack, dropped)
    BY <2>1, SameTimers
  <2> QED
    BY <2>1, <2>2, <2>3 DEF SameChats, StillThe
<1>5. CASE reloadChatData(stk, i, 2)
  <2>1. /\ started.kind = stack[i].kind /\ started.shared = stack[i].shared
        /\ started.model = stack[i].model /\ started \in Screen
    BY Zenon, <1>2 DEF Screen
  <2>2. StackOK(stk)
    <3>1. ScreenOK(started)
      BY <2>1 DEF ScreenOK
    <3>2. stk \in Seq(Screen) /\ SameShape(stack, stk)
      <4> HIDE DEF started
      <4> QED
        BY <1>1, <2>1, <3>1, ChangedScreenShape
    <3> HIDE DEF stk
    <3> QED
      BY <1>1, <3>2, ShapeIsEnough
  <2> HIDE DEF started
  <2>3. /\ DOMAIN stk = DOMAIN stack /\ Len(stk) = Len(stack)
        /\ \A j \in DOMAIN stack : stk[j] = IF j = i THEN started ELSE stack[j]
    BY <1>1
  <2> HIDE DEF stk
  <2>4. \A j \in DOMAIN stack : /\ stk[j].kind = stack[j].kind
                                /\ stk[j].shared = stack[j].shared
                                /\ stk[j].model = stack[j].model
    BY <2>1, <2>3
  <2>5. ASSUME NEW j \in DOMAIN stack PROVE ModelAt(stk, j) = ModelAt(stack, j)
    <3>1. Owner(stack, j) \in DOMAIN stack /\ Owner(stk, j) = Owner(stack, j)
      BY <1>1, <2>4, ModelAtType DEF Owner
    <3> QED
      BY <2>4, <3>1 DEF ModelAt
  <2>6. SameChats(stk, stack')
    BY <1>5, <2>2, <2>3, ReloadChats
  <2>7. \A j \in DOMAIN stack : ModelAt(stack', j).uid = ModelAt(stack, j).uid
    BY <2>2, <2>3, <2>5, <2>6, SameModels
  <2>8. OnScreen(i) => UnseenOf(stack', dropped) \subseteq UnseenOf(stack, dropped)
    <3>1. UnseenOf(stack', dropped) \subseteq UnseenOf(stk, dropped)
      BY <2>6, SameTimers
    <3>2. OnScreen(i) => UnseenOf(stk, dropped) \subseteq UnseenOf(stack, dropped)
      BY <2>3 DEF UnseenOf, OnScreen, Top
    <3> QED
      BY <3>1, <3>2
  <2> QED
    BY <2>3, <2>4, <2>6, <2>7, <2>8 DEF SameChats, StillThe
<1> QED
  BY <1>3, <1>4, <1>5

(* Leaving a group stops the timer of its room *)
LEMMA LeavingChats ==
  ASSUME IInv, ModalOK, exitGroupChat
  PROVE  SameChats(stack, stack')
<1> DEFINE room    == modal.room
           stopped == [stack[room] EXCEPT !.ticking = FALSE]
<1>1. StackOK(stack) /\ room \in DOMAIN stack /\ stack[room] \in Screen
  BY DEF IInv, IndicesOK, StackOK, exitGroupChat, ModalOK, NoModal
<1>2. StillThe(stack[room], stopped)
  BY Zenon, <1>1 DEF Screen, StillThe
<1>3. stack' = [stack EXCEPT ![room] = stopped]
  BY <1>1 DEF exitGroupChat
<1> HIDE DEF stopped
<1> QED
  BY <1>1, <1>2, <1>3, ChangedChats

(* The rest of the taps, and the timer, leave every screen where it is *)
LEMMA StayingChats ==
  ASSUME IInv, ModalOK, User \/ \E i \in DOMAIN stack : makeGroupAutoSend(i)
  PROVE  \/ SameChats(stack, stack') \/ CoveringStep
         \/ keyboardDidFinish \/ didFinishPickingPhotos
<1>1. StackOK(stack)
  BY DEF IInv, IndicesOK
<1>2. CASE \E i \in DOMAIN stack : makeGroupAutoSend(i)
  BY <1>1, <1>2, ReloadChats DEF makeGroupAutoSend
<1>3. CASE (\E i : didMenuDelete(i)) \/ (\E name \in NickNames : saveEditing(name))
  BY <1>3, DeletingChats, SavingChats
<1>4. CASE exitGroupChat \/ openImagePicker
  <2>1. openImagePicker => stack' = stack \/ stack' = Hidden(stack)
    BY DEF openImagePicker
  <2> QED
    BY <1>1, <1>4, <2>1, LeavingChats, HiddenChats, Unchanged
<1>5. CASE UNCHANGED stack
  BY <1>5, Unchanged
<1>6. CASE \/ \E uid : didSelectRow(uid) \/ pushChatInfo(uid)
           \/ messageForward \/ didTapAvatar \/ sendButton \/ editNickName
  BY <1>6, Covering
<1> QED
  BY <1>2, <1>3, <1>4, <1>5, <1>6
  DEF User, handleDeleteSesstionAtRow, forwardAction, popViewController, readAllAction,
      exitGroupAlert, cancel

-----------------------------------------------------------------------------
(* The screens off the stack, and what is presented *)

(* Every screen stays where it is *)
KeepsScreens ==
  /\ Len(stack') >= Len(stack)
  /\ \A i \in DOMAIN stack : i \in DOMAIN stack' /\ stack'[i].kind = stack[i].kind

(* The steps after which screens may be gone, or be somewhere else *)
Reordering ==
  \/ popEnds \/ deinit \/ relaunch
  \/ \E b \in delayed : b.host # 0 /\ (forwardRemoved(b) \/ poppedToRoot(b))

(* In all others, they stay *)
LEMMA ScreensStay ==
  ASSUME IInv, ModalOK, [Next]_vars, ~Reordering
  PROVE  KeepsScreens /\ UNCHANGED dropped
<1>1. StackOK(stack) /\ stack \in Seq(Screen) /\ Len(stack) \in Nat
  BY DEF IInv, IndicesOK, StackOK
<1>2. UNCHANGED dropped
  BY DEF Reordering, Next, Running, User, System, vars, didSelectRow, pushChatInfo,
     handleDeleteSesstionAtRow, didMenuDelete, forwardAction, saveEditing,
     keyboardDidFinish, makeChatMessage, openImagePicker, didFinishPickingPhotos,
     exitGroupAlert, exitGroupChat, cancel, messageForward, popViewController,
     didTapAvatar, sendButton, editNickName, readAllAction, beginCacheMessage,
     showSessionBadge, forwardFires, forwardRemoved, poppedToRoot, openWidgetChat,
     makeGroupAutoSend, PushScreen
<1>3. CASE SameChats(stack, stack')
  BY <1>1, <1>2, <1>3 DEF SameChats, StillThe, KeepsScreens
<1>4. CASE CoveringStep
  <2>1. PICK screen : stack' = Pushed(stack, screen)
    BY <1>4 DEF CoveringStep
  <2>2. /\ Len(stack') = Len(stack) + 1 /\ Len(stack) \in Nat
        /\ \A i \in DOMAIN stack : i \in DOMAIN stack' /\ stack'[i].kind = stack[i].kind
    BY <1>1, <2>1, PushedChats
  <2> QED
    BY <1>2, <2>2 DEF KeepsScreens
<1>5. CASE Sending
  BY <1>1, <1>2, <1>5, SendingChats DEF Sending, KeepsScreens
<1>6. CASE User \/ \E i \in DOMAIN stack : makeGroupAutoSend(i)
  BY <1>3, <1>4, <1>5, <1>6, StayingChats, SendersAreRooms
<1>7. CASE beginCacheMessage
  BY <1>3, <1>7, StoringChats
<1>8. CASE openWidgetChat \/ \E b \in delayed : forwardFires(b) /\ b.host # 0
  BY <1>4, <1>8, Covering
<1>9. CASE UNCHANGED stack
  BY <1>3, <1>9, Unchanged
<1> QED
  BY <1>2, <1>6, <1>7, <1>8, <1>9
  DEF Next, Running, System, Reordering, showSessionBadge, forwardFires, forwardRemoved,
      poppedToRoot, vars

(* A popped screen's blocks have no host, the others are as they were *)
LEMMA UnhostedHosts ==
  ASSUME NEW blocks, \A b \in blocks : b \in Block, NEW d, NEW c \in Unhosted(blocks, d)
  PROVE  c.host = 0 \/ c \in blocks
<1>1. PICK b \in blocks : c = IF b.host = d THEN [b EXCEPT !.host = 0] ELSE b
  BY DEF Unhosted
<1>2. b \in Block
  OBVIOUS
<1>3. [b EXCEPT !.host = 0].host = 0
  BY <1>2 DEF Block
<1> QED
  BY <1>1, <1>3

(* A new block belongs to the screen on top *)
LEMMA DelayedHosts ==
  ASSUME NEW kind, NEW target, NEW chatType, Delay(delayed, kind, Top, target, chatType),
         NEW c \in delayed'
  PROVE  c.host = Top \/ c \in delayed
BY DEF Delay

(* Those steps keep what refers to the screens *)
LEMMA ReferencesStay ==
  ASSUME IInv, DroppedOK, ModalOK, [Next]_vars, ~Reordering
  PROVE  /\ \A c \in delayed' : c.host = 0 \/ c.host > dropped
         /\ popping' => Len(stack) > dropped /\ modal' = NoModal
         /\ \/ modal' = modal \/ modal' = NoModal
            \/ /\ Top \in DOMAIN stack /\ stack[Top].kind = "room"
               /\ modal' \in Modal /\ modal'.room = Top
<1>1. CASE UNCHANGED <<modal, popping, delayed>>
  BY <1>1 DEF DroppedOK
<1>2. CASE openImagePicker \/ exitGroupAlert \/ cancel \/ didFinishPickingPhotos
  <2>1. UNCHANGED <<popping, delayed>>
    BY <1>2 DEF openImagePicker, exitGroupAlert, cancel, didFinishPickingPhotos, makeChatMessage
  <2>2. CASE cancel \/ didFinishPickingPhotos
    <3>1. modal' = NoModal
      BY <2>2 DEF cancel, didFinishPickingPhotos
    <3> QED
      BY <2>1, <3>1 DEF DroppedOK
  <2>3. CASE openImagePicker \/ exitGroupAlert
    <3>1. OnTop("room") /\ \E k \in {"picker", "alert"} : modal' = [kind |-> k, room |-> Top]
      BY <2>3 DEF openImagePicker, exitGroupAlert
    <3>2. popping = FALSE /\ Top \in DOMAIN stack /\ stack[Top].kind = "room" /\ Top \in Nat
      BY <3>1, OnTopOK
    <3>3. modal' \in Modal /\ modal'.room = Top
      BY <3>1, <3>2 DEF Modal
    <3> QED
      BY <2>1, <3>2, <3>3 DEF DroppedOK
  <2> QED
    BY <1>2, <2>2, <2>3
<1>3. CASE (\E uid : forwardAction(uid)) \/ (\E name : saveEditing(name))
  <2>1. PICK kind, target, chatType :
          /\ OnTop("forward") \/ OnTop("edit")
          /\ Delay(delayed, kind, Top, target, chatType) /\ UNCHANGED <<modal, popping>>
    BY <1>3 DEF forwardAction, saveEditing
  <2>2. Top > dropped /\ popping = FALSE
    BY <2>1, OnTopOK
  <2> QED
    BY <2>1, <2>2, DelayedHosts DEF DroppedOK
<1>4. CASE popViewController
  <2>1. /\ Top > dropped /\ modal = NoModal /\ modal' = modal
        /\ delayed' = Unhosted(delayed, Top)
    BY <1>4 DEF popViewController, Touchable
  <2>2. \A b \in delayed : b \in Block
    BY DEF IInv, IndicesOK, DelayedOK
  <2> QED
    BY <2>1, <2>2, UnhostedHosts DEF DroppedOK, Top
<1>5. CASE exitGroupChat
  <2>1. /\ modal' = NoModal /\ popping' = (modal.room > dropped)
        /\ delayed' = IF modal.room > dropped THEN Unhosted(delayed, Top) ELSE delayed
        /\ modal.room \in DOMAIN stack
    BY <1>5 DEF exitGroupChat, ModalOK, NoModal
  <2>2. \A b \in delayed : b \in Block
    BY DEF IInv, IndicesOK, DelayedOK
  <2>3. \A c \in delayed' : c.host = 0 \/ c \in delayed
    BY <2>1, <2>2, UnhostedHosts
  <2>4. modal.room > dropped => Len(stack) > dropped
    BY <2>1, OnTopOK
  <2>5. popping' => modal.room > dropped
    BY Zenon, <2>1
  <2> QED
    BY <2>1, <2>3, <2>4, <2>5 DEF DroppedOK
<1>6. CASE \E b \in delayed : forwardFires(b)
  <2>1. PICK b \in delayed : forwardFires(b)
    BY <1>6
  <2>2. b \in Block /\ UNCHANGED <<modal, popping>>
    BY <2>1 DEF IInv, IndicesOK, DelayedOK, forwardFires
  <2> DEFINE moved == [b EXCEPT !.kind = "remove"]
  <2>3. moved.host = b.host
    BY <2>2 DEF Block
  <2>4. delayed' \subseteq delayed \cup {moved}
    BY <2>1 DEF forwardFires
  <2> HIDE DEF moved
  <2> QED
    BY <2>1, <2>2, <2>3, <2>4 DEF DroppedOK
<1>7. CASE \E b \in delayed : delayed' = delayed \ {b} /\ UNCHANGED <<modal, popping>>
  BY <1>7 DEF DroppedOK
<1>8. CASE User
  BY <1>1, <1>2, <1>3, <1>4, <1>5, <1>8
  DEF User, didSelectRow, pushChatInfo, handleDeleteSesstionAtRow, didMenuDelete,
      keyboardDidFinish, makeChatMessage, messageForward, didTapAvatar, sendButton,
      editNickName, readAllAction, PushScreen
<1>9. CASE System
  BY <1>1, <1>6, <1>7, <1>9
  DEF System, Reordering, beginCacheMessage, showSessionBadge, forwardRemoved, poppedToRoot
<1>10. CASE openWidgetChat \/ (\E i \in DOMAIN stack : makeGroupAutoSend(i)) \/ UNCHANGED vars
  BY <1>1, <1>10 DEF openWidgetChat, makeGroupAutoSend, vars
<1> QED
  BY <1>8, <1>9, <1>10 DEF Next, Running, Reordering

(* removeControllerWithName moves what is presented, and the hosts *)
LEMMA RemovedReferences ==
  ASSUME IInv, DroppedOK, ModalOK, NEW b \in delayed, b.host # 0, forwardRemoved(b)
  PROVE  DroppedOK' /\ ModalOK'
<1>1. /\ StackOK(stack) /\ DelayedOK(delayed, stack) /\ dropped \in Nat
      /\ stack \in Seq(Screen) /\ DOMAIN stack = 1 .. Len(stack) /\ Len(stack) \in Nat
  BY DEF IInv, IndicesOK, StackOK, ScalarsOK
<1>2. PICK d \in DOMAIN stack :
        /\ d > dropped /\ stack[d].kind = "forward"
        /\ stack' = RemoveAt(stack, d)
        /\ modal' = [modal EXCEPT !.room = Shifted(@, d)]
        /\ delayed' = {[c EXCEPT !.host = Shifted(@, d)] : c \in Unhosted(delayed \ {b}, d)}
  BY DEF forwardRemoved, IsFirstForward
<1>3. popping' = popping /\ dropped' = dropped /\ popping = FALSE
  BY DEF forwardRemoved, IInv, ScalarsOK
<1>4. /\ Len(stack') = Len(stack) - 1
      /\ \A i \in DOMAIN stack \ {d} :
           Shifted(i, d) \in DOMAIN stack' /\ stack'[Shifted(i, d)] = stack[i]
  BY <1>1, <1>2, RemovedShape
<1>5. dropped' \in 0 .. Len(stack')
  BY <1>1, <1>2, <1>3, <1>4
<1>6. ASSUME NEW e \in delayed' PROVE e.host = 0 \/ e.host > dropped
  <2> DEFINE left == Unhosted(delayed \ {b}, d)
  <2>1. PICK c \in left : e = [c EXCEPT !.host = Shifted(@, d)]
    BY <1>2
  <2>2. DelayedOK(delayed \ {b}, stack) /\ d \in Nat \ {0}
    BY <1>1 DEF DelayedOK
  <2>3. c \in Block /\ c.host # d
    <3>1. DelayedOK(left, stack) /\ \A l \in left : l.host # d
      BY <2>2, UnhostedOK
    <3> QED
      BY <3>1 DEF DelayedOK
  <2>4. c.host = 0 \/ c \in delayed \ {b}
    BY <2>2, UnhostedHosts DEF DelayedOK
  <2>5. c.host \in Nat /\ e.host = Shifted(c.host, d)
    BY <2>1, <2>3 DEF Block
  <2>6. c.host = 0 \/ c.host > dropped
    BY <2>4 DEF DroppedOK
  <2> QED
    BY <1>1, <1>2, <2>2, <2>3, <2>5, <2>6 DEF Shifted
<1>7. ModalOK'
  <2>1. modal \in Modal /\ modal.room \in Nat
    BY DEF ModalOK, Modal
  <2>2. CASE modal = NoModal
    <3>1. Shifted(0, d) = 0
      BY <1>1 DEF Shifted
    <3>2. modal' = NoModal
      BY <1>2, <2>2, <3>1 DEF NoModal
    <3> QED
      BY <2>1, <2>2, <3>2 DEF ModalOK
  <2>3. CASE modal # NoModal
    <3>1. modal.room \in DOMAIN stack \ {d} /\ stack[modal.room].kind = "room"
      BY <1>2, <2>3 DEF ModalOK
    <3>2. /\ Shifted(modal.room, d) \in DOMAIN stack'
          /\ stack'[Shifted(modal.room, d)].kind = "room"
      BY <1>4, <3>1
    <3>3. Shifted(modal.room, d) \in Nat
      BY <1>1, <3>1 DEF Shifted
    <3>4. modal' \in Modal /\ modal'.room = Shifted(modal.room, d)
      BY <1>2, <2>1, <3>3 DEF Modal
    <3> QED
      BY <3>2, <3>4 DEF ModalOK
  <2> QED
    BY <2>2, <2>3
<1> QED
  BY <1>3, <1>5, <1>6, <1>7 DEF DroppedOK

(* Every step *)
LEMMA NextScreensOK == IInv /\ DroppedOK /\ ModalOK /\ [Next]_vars => DroppedOK' /\ ModalOK'
<1> SUFFICES ASSUME IInv, DroppedOK, ModalOK, [Next]_vars PROVE DroppedOK' /\ ModalOK'
  OBVIOUS
<1>1. /\ StackOK(stack) /\ stack \in Seq(Screen) /\ DOMAIN stack = 1 .. Len(stack)
      /\ Len(stack) \in Nat /\ dropped \in Nat /\ popping \in BOOLEAN
      /\ \A b \in delayed : b.host \in Nat
  BY DEF IInv, IndicesOK, StackOK, ScalarsOK, DelayedOK, Block
<1>2. CASE ~Reordering
  <2>1. KeepsScreens /\ dropped' = dropped
    BY <1>2, ScreensStay
  <2>2. StackOK(stack') /\ stack' \in Seq(Screen) /\ Len(stack') \in Nat
    BY NextIInv DEF IInv, IndicesOK, StackOK
  <2>3. DroppedOK'
    BY <1>1, <1>2, <2>1, <2>2, ReferencesStay DEF DroppedOK, KeepsScreens
  <2>4. NoModal \in Modal
    BY DEF NoModal, Modal
  <2>5. ModalOK'
    BY <1>2, <2>1, <2>4, ReferencesStay DEF ModalOK, KeepsScreens
  <2> QED
    BY <2>3, <2>5
<1>3. CASE popEnds
  <2>1. /\ popping = TRUE /\ popping' = FALSE /\ stack' = Front(stack)
        /\ UNCHANGED <<dropped, modal, delayed>>
    BY <1>1, <1>3 DEF popEnds
  <2>2. Len(stack) > dropped /\ modal = NoModal
    BY <2>1 DEF DroppedOK
  <2>3. Len(stack') = Len(stack) - 1
    BY <1>1, <2>1, <2>2 DEF Front
  <2> QED
    BY <1>1, <2>1, <2>2, <2>3 DEF DroppedOK, ModalOK
<1>4. CASE deinit
  <2>1. /\ stack' = <<>> /\ dropped' = 0 /\ modal = NoModal
        /\ UNCHANGED <<modal, popping, delayed>>
    BY <1>4, NothingHeld DEF deinit
  <2>2. popping = FALSE
    BY <1>1, <1>4 DEF DroppedOK, deinit, Top
  <2> QED
    BY <1>1, <2>1, <2>2 DEF DroppedOK, ModalOK
<1>5. CASE relaunch
  <2>1. NoModal \in Modal
    BY DEF NoModal, Modal
  <2> QED
    BY <1>5, <2>1 DEF relaunch, DroppedOK, ModalOK
<1>6. ASSUME NEW b \in delayed, b.host # 0, forwardRemoved(b) PROVE DroppedOK' /\ ModalOK'
  BY <1>6, RemovedReferences
<1>7. ASSUME NEW b \in delayed, b.host # 0, poppedToRoot(b) PROVE DroppedOK' /\ ModalOK'
  <2>1. /\ popping = FALSE /\ UNCHANGED <<popping, modal>> /\ dropped' = Len(stack')
        /\ delayed' = {[c EXCEPT !.host = 0] : c \in delayed \ {b}}
        /\ \/ stack' = Hidden(stack)
           \/ stack' = <<>> /\ modal = NoModal
    BY <1>1, <1>7, NothingHeld DEF poppedToRoot
  <2>2. SameChats(stack, Hidden(stack))
    BY <1>1, HiddenChats
  <2>3. ModalOK'
    BY <2>1, <2>2 DEF ModalOK, SameChats, StillThe
  <2>4. Len(stack') \in Nat
    BY <1>1, <2>1, <2>2 DEF SameChats
  <2>5. \A c \in delayed : c \in Block /\ [c EXCEPT !.host = 0].host = 0
    BY DEF IInv, IndicesOK, DelayedOK, Block
  <2>6. \A c \in delayed' : c.host = 0
    BY <2>1, <2>5
  <2> QED
    BY <2>1, <2>3, <2>4, <2>6 DEF DroppedOK
<1> QED
  BY <1>2, <1>3, <1>4, <1>5, <1>6, <1>7 DEF Reordering

(* No index dangles and one row per uid, together, hold in every behaviour *)
LEMMA IInvHolds == Spec => [](IInv /\ DroppedOK /\ ModalOK)
<1>1. Init => DroppedOK /\ ModalOK
  <2>1. Init => stack = <<>> /\ dropped = 0 /\ modal = NoModal /\ popping = FALSE /\ delayed = {}
    BY DEF Init
  <2>2. NoModal \in Modal
    BY DEF NoModal, Modal
  <2> QED
    BY <2>1, <2>2 DEF DroppedOK, ModalOK
<1> QED
  BY <1>1, InitIInv, NextIInv, NextScreensOK, PTL DEF Spec

(* TypeOK: no deferred write, no delayed block and no shared chat object    *)
(* ever refers to a screen that is not there, however screens are pushed,  *)
(* popped and removed from the middle of the stack.                        *)
THEOREM TypeCorrect == Spec => []TypeOK
BY IInvHolds, IInvIsTypeOK, PTL

(* OneChatPerUid: whatever chat objects the rooms, the badge and the edit   *)
(* screen write back, a uid keeps naming one row of the chat table.        *)
THEOREM ChatsKeepOneRow == Spec => []OneChatPerUid
BY IInvHolds, IInvIsTypeOK, PTL

-----------------------------------------------------------------------------
(* Messages are stored in the order they were sent, whatever the rooms, the *)
(* timers, the forwards and the deletions do in between.                   *)

(* StoredInSendOrder is not inductive: the next row must follow all others, *)
(* so the outbox must be sorted and later than every row, nothing may be    *)
(* later than "sent", and no key may be later than the counter.            *)
OrderInv ==
  /\ StoredInSendOrder
  /\ \A r \in db.message : r.id <= db.messageSeq /\ r.stamp <= sent
  /\ \A k \in DOMAIN outbox :
       /\ outbox[k].stamp <= sent
       /\ \A r \in db.message : r.stamp < outbox[k].stamp
       /\ \A l \in DOMAIN outbox : k < l => outbox[k].stamp < outbox[l].stamp

-----------------------------------------------------------------------------
(* Three kinds of steps *)

(* Rows are deleted, and the outbox is kept, moved with its rooms or lost *)
LEMMA LosingStep ==
  ASSUME OrderInv, IInv, sent' \in Nat, sent <= sent',
         db'.message \subseteq db.message, db'.messageSeq = db.messageSeq,
         DOMAIN outbox' \subseteq DOMAIN outbox,
         \A k \in DOMAIN outbox' : outbox'[k].stamp = outbox[k].stamp
  PROVE  OrderInv'
<1>1. /\ db \in Store /\ sent \in Nat /\ outbox \in Seq(Task)
  BY DEF IInv, ScalarsOK, IndicesOK, OutboxOK
<1>2. \A r \in db.message : r.stamp \in Nat
  BY <1>1 DEF Store, MessageRow
<1>3. ASSUME NEW k \in DOMAIN outbox PROVE outbox[k].stamp \in Nat
  <2>1. outbox[k] \in Task
    BY <1>1
  <2> QED
    BY <2>1 DEF Task
<1>4. \A r \in db'.message : r.id <= db'.messageSeq /\ r.stamp <= sent'
  BY <1>1, <1>2 DEF OrderInv
<1>5. StoredInSendOrder'
  BY DEF OrderInv, StoredInSendOrder
<1>6. ASSUME NEW k \in DOMAIN outbox'
      PROVE  /\ outbox'[k].stamp <= sent'
             /\ \A r \in db'.message : r.stamp < outbox'[k].stamp
             /\ \A l \in DOMAIN outbox' : k < l => outbox'[k].stamp < outbox'[l].stamp
  BY <1>1, <1>3 DEF OrderInv
<1> QED
  BY <1>4, <1>5, <1>6 DEF OrderInv

(* n new messages are created and put at the end of the outbox *)
LEMMA SendingStep ==
  ASSUME OrderInv, IInv, NEW n \in Nat, NEW tasks \in Seq(Task), Len(tasks) = n,
         \A k \in 1 .. n : tasks[k].stamp = sent + k,
         sent' = sent + n, outbox' = Deferred(tasks), UNCHANGED db
  PROVE  OrderInv'
<1> DEFINE len == Len(outbox)
<1>1. /\ outbox \in Seq(Task) /\ sent \in Nat /\ len \in Nat /\ DOMAIN outbox = 1 .. len
  BY DEF IInv, IndicesOK, OutboxOK, ScalarsOK
<1>2. /\ DOMAIN outbox' = 1 .. len + n
      /\ \A k \in 1 .. len + n :
           outbox'[k] = IF k <= len THEN outbox[k] ELSE tasks[k - len]
  BY <1>1, ConcatProperties DEF Deferred
<1> HIDE DEF len
<1>3. ASSUME NEW k \in DOMAIN outbox', k <= len
      PROVE  /\ k \in DOMAIN outbox /\ outbox'[k] = outbox[k]
             /\ outbox[k].stamp \in Nat /\ outbox[k].stamp <= sent
  <2>1. k \in DOMAIN outbox /\ outbox'[k] = outbox[k]
    BY <1>1, <1>2, <1>3
  <2>2. outbox[k] \in Task
    BY <1>1, <2>1
  <2> QED
    BY <2>1, <2>2 DEF Task, OrderInv
<1>4. ASSUME NEW k \in DOMAIN outbox', k > len
      PROVE  outbox'[k].stamp = sent + (k - len) /\ k - len \in 1 .. n
  <2>1. k - len \in 1 .. n /\ ~(k <= len)
    BY <1>1, <1>2, <1>4
  <2>2. outbox'[k] = tasks[k - len]
    BY <1>2, <2>1
  <2> QED
    BY <2>1, <2>2
<1>5. \A r \in db.message : r.stamp \in Nat /\ r.stamp <= sent
  BY DEF OrderInv, IInv, Store, MessageRow
<1>6. ASSUME NEW k \in DOMAIN outbox'
      PROVE  /\ outbox'[k].stamp <= sent'
             /\ \A r \in db'.message : r.stamp < outbox'[k].stamp
             /\ \A l \in DOMAIN outbox' : k < l => outbox'[k].stamp < outbox'[l].stamp
  <2>1. k \in Nat /\ \A l \in DOMAIN outbox' : l \in Nat
    BY <1>1, <1>2
  <2>2. CASE k <= len
    <3>1. /\ k \in DOMAIN outbox /\ outbox'[k] = outbox[k]
          /\ outbox[k].stamp \in Nat /\ outbox[k].stamp <= sent
      BY <1>3, <2>2
    <3>2. \A r \in db.message : r.stamp < outbox[k].stamp
      BY <3>1 DEF OrderInv
    <3>3. ASSUME NEW l \in DOMAIN outbox', k < l
          PROVE  outbox'[k].stamp < outbox'[l].stamp
      <4>1. CASE l <= len
        <5>1. l \in DOMAIN outbox /\ outbox'[l] = outbox[l]
          BY <1>3, <4>1
        <5> QED
          BY <3>1, <3>3, <5>1 DEF OrderInv
      <4>2. CASE l > len
        <5>1. outbox'[l].stamp = sent + (l - len) /\ l - len \in 1 .. n
          BY <1>4, <4>2
        <5> QED
          BY <1>1, <3>1, <5>1
      <4> QED
        BY <1>1, <2>1, <4>1, <4>2
    <3> QED
      BY <1>1, <3>1, <3>2, <3>3
  <2>3. CASE k > len
    <3>1. outbox'[k].stamp = sent + (k - len) /\ k - len \in 1 .. n
      BY <1>4, <2>3
    <3>2. ASSUME NEW l \in DOMAIN outbox', k < l
          PROVE  outbox'[k].stamp < outbox'[l].stamp
      <4>1. outbox'[l].stamp = sent + (l - len) /\ l \in Nat
        BY <1>1, <1>4, <2>1, <2>3, <3>2
      <4> QED
        BY <1>1, <2>1, <3>1, <3>2, <4>1
    <3> QED
      BY <1>1, <1>5, <3>1, <3>2
  <2> QED
    BY <1>1, <2>1, <2>2, <2>3
<1>7. StoredInSendOrder' /\ \A r \in db'.message : r.id <= db'.messageSeq /\ r.stamp <= sent'
  BY <1>1, <1>5 DEF OrderInv, StoredInSendOrder
<1> QED
  BY <1>6, <1>7 DEF OrderInv

(* The oldest message of the outbox becomes the last row *)
LEMMA StoringStep ==
  ASSUME OrderInv, IInv, beginCacheMessage
  PROVE  OrderInv'
<1> DEFINE task   == Head(outbox)
           stored == insertFromMessage(db, task.chatId, task.chatType, task.stamp)
           row    == [id |-> db.messageSeq + 1, chatId |-> task.chatId,
                      chatType |-> task.chatType, stamp |-> task.stamp]
<1>1. /\ outbox \in Seq(Task) /\ outbox # <<>> /\ sent \in Nat /\ db \in Store
      /\ outbox' = Tail(outbox) /\ sent' = sent
  BY DEF IInv, IndicesOK, OutboxOK, ScalarsOK, beginCacheMessage
<1>2. /\ task = outbox[1] /\ task \in Task /\ 1 \in DOMAIN outbox
      /\ \A k \in DOMAIN outbox' : /\ k \in Nat \ {0} /\ k + 1 \in DOMAIN outbox
                                   /\ outbox'[k] = outbox[k + 1]
  BY <1>1
<1>3. stored.message = db.message \cup {row} /\ stored.messageSeq = db.messageSeq + 1
  BY <1>1, InsertAddsLast
<1>4. db'.message = db.message \cup {row} /\ db'.messageSeq = db.messageSeq + 1
  <2>1. stored \in Store
    BY <1>1, <1>2, InsertFromMessageType DEF Task
  <2>2. \/ db' = stored
        \/ \E chat : db' = updateFromChatModel(stored, chat, chat.uid)
    BY DEF beginCacheMessage
  <2> HIDE DEF stored
  <2> QED
    BY <1>3, <2>1, <2>2, UpdateKeepsMessages
<1>5. row.id = db.messageSeq + 1 /\ row.stamp = task.stamp
  OBVIOUS
<1>6. /\ task.stamp \in Nat /\ db.messageSeq \in Nat
      /\ \A r \in db.message : r.id \in Nat /\ r.stamp \in Nat
  BY <1>1, <1>2 DEF Task, Store, MessageRow
<1>7. /\ task.stamp <= sent /\ \A r \in db.message : r.stamp < task.stamp
      /\ \A r \in db.message : r.id <= db.messageSeq /\ r.stamp <= sent
  BY <1>2 DEF OrderInv
<1> HIDE DEF task, stored, row
<1>8. StoredInSendOrder'
  BY <1>4, <1>5, <1>6, <1>7 DEF OrderInv, StoredInSendOrder
<1>9. \A r \in db'.message : r.id <= db'.messageSeq /\ r.stamp <= sent'
  BY <1>1, <1>4, <1>5, <1>6, <1>7
<1>10. ASSUME NEW k \in DOMAIN outbox'
       PROVE  /\ outbox'[k].stamp <= sent'
              /\ \A r \in db'.message : r.stamp < outbox'[k].stamp
              /\ \A l \in DOMAIN outbox' : k < l => outbox'[k].stamp < outbox'[l].stamp
  <2>1. outbox'[k] = outbox[k + 1] /\ k + 1 \in DOMAIN outbox /\ 1 < k + 1
    BY <1>2
  <2>2. /\ outbox[k + 1].stamp <= sent
        /\ \A r \in db.message : r.stamp < outbox[k + 1].stamp
        /\ outbox[1].stamp < outbox[k + 1].stamp
    BY <1>2, <2>1 DEF OrderInv
  <2>3. ASSUME NEW l \in DOMAIN outbox', k < l
        PROVE  outbox'[k].stamp < outbox'[l].stamp
    <3>1. outbox'[l] = outbox[l + 1] /\ l + 1 \in DOMAIN outbox /\ k + 1 < l + 1
      BY <1>2, <2>3
    <3> QED
      BY <2>1, <3>1 DEF OrderInv
  <2> QED
    BY <1>1, <1>2, <1>4, <1>5, <2>1, <2>2, <2>3
<1> QED
  BY <1>8, <1>9, <1>10 DEF OrderInv

-----------------------------------------------------------------------------
(* The steps of the model *)

(* reloadChatData sends, from whatever stack it is given *)
LEMMA ReloadSends ==
  ASSUME OrderInv, IInv, NEW stk, StackOK(stk), NEW i \in DOMAIN stk, NEW n \in {1, 2},
         reloadChatData(stk, i, n), UNCHANGED db
  PROVE  OrderInv'
<1> DEFINE model == ModelAt(stk, i)
           tasks == [k \in 1 .. n |-> [room |-> i, stamp |-> sent + k,
                       chatId |-> model.uid, chatType |-> model.chatType,
                       unseen |-> ~OnScreen(i)]]
<1>1. model \in ChatModel /\ i \in Nat /\ sent \in Nat
  BY ModelAtType DEF StackOK, IInv, ScalarsOK
<1>2. ASSUME NEW k \in 1 .. n PROVE tasks[k] \in Task
  <2> HIDE DEF model
  <2>1. sent + k \in Nat
    BY <1>1
  <2>2. model.uid \in Nat /\ model.chatType \in 0 .. 2
    BY <1>1 DEF ChatModel
  <2>3. (~OnScreen(i)) \in BOOLEAN
    BY Zenon
  <2> QED
    BY Zenon, <1>1, <2>1, <2>2, <2>3 DEF Task
<1>3. tasks \in Seq(Task) /\ Len(tasks) = n /\ \A k \in 1 .. n : tasks[k].stamp = sent + k
  BY <1>2
<1>4. sent' = sent + n /\ outbox' = Deferred(tasks)
  BY DEF reloadChatData
<1> HIDE DEF tasks
<1> QED
  BY <1>3, <1>4, SendingStep

(* A message typed by the user, or sent by the timer of a group, is sent by *)
(* reloadChatData from a well-formed stack                                  *)
LEMMA MessagesComeFromRooms ==
  ASSUME IInv, Sending \/ \E i \in DOMAIN stack : makeGroupAutoSend(i)
  PROVE  \E stk, i, n : /\ StackOK(stk) /\ i \in DOMAIN stk /\ n \in {1, 2}
                        /\ reloadChatData(stk, i, n)
<1>1. StackOK(stack) /\ stack \in Seq(Screen)
  BY DEF IInv, IndicesOK, StackOK
<1>2. CASE \E i \in DOMAIN stack : makeGroupAutoSend(i)
  BY <1>1, <1>2 DEF makeGroupAutoSend
<1>3. CASE Sending
  <2> PICK i \in DOMAIN stack : stack[i].kind = "room" /\ makeChatMessage(i)
    BY <1>3 DEF Sending
  <2> DEFINE started == [stack[i] EXCEPT !.isTimered = TRUE, !.ticking = TRUE]
             stk     == [stack EXCEPT ![i] = started]
  <2>1. stack[i] \in Screen
    BY <1>1
  <2>2. reloadChatData(stack, i, 1) \/ reloadChatData(stk, i, 2)
    <3>1. stk = [stack EXCEPT ![i].isTimered = TRUE, ![i].ticking = TRUE]
      BY <1>1
    <3> QED
      BY <3>1 DEF makeChatMessage
  <2>3. StackOK(stk) /\ i \in DOMAIN stk
    <3>1. /\ started \in Screen /\ ScreenOK(started)
          /\ started.kind = stack[i].kind /\ started.shared = stack[i].shared
      BY Zenon, <2>1 DEF Screen, ScreenOK
    <3> HIDE DEF started
    <3>2. stk \in Seq(Screen) /\ SameShape(stack, stk)
      BY <1>1, <3>1, ChangedScreenShape
    <3> HIDE DEF stk
    <3> QED
      BY <1>1, <3>2, ShapeIsEnough DEF SameShape
  <2> HIDE DEF stk
  <2> QED
    BY <1>1, <2>2, <2>3
<1> QED
  BY <1>2, <1>3

(* Such a message goes last *)
LEMMA MakeChatMessageInOrder ==
  ASSUME OrderInv, IInv, Sending \/ \E i \in DOMAIN stack : makeGroupAutoSend(i)
  PROVE  OrderInv'
<1>1. UNCHANGED db
  BY DEF Sending, makeChatMessage, makeGroupAutoSend
<1> QED
  BY <1>1, MessagesComeFromRooms, ReloadSends

(* So does a forwarded message, whatever is still pending *)
LEMMA ForwardFiresInOrder ==
  ASSUME OrderInv, IInv, NEW b \in delayed, forwardFires(b)
  PROVE  OrderInv'
<1> DEFINE tasks == <<[room |-> Top + 1, stamp |-> sent + 1, chatId |-> b.target,
                       chatType |-> b.chatType, unseen |-> FALSE]>>
<1>1. /\ b \in Block /\ sent \in Nat /\ Top \in Nat
      /\ sent' = sent + 1 /\ UNCHANGED db
  BY DEF IInv, IndicesOK, DelayedOK, StackOK, ScalarsOK, forwardFires, Top
<1>2. CASE UNCHANGED outbox
  BY <1>1, <1>2, LosingStep
<1>3. CASE outbox' = Deferred(tasks)
  <2>1. tasks[1] \in Task /\ tasks[1].stamp = sent + 1
    BY <1>1 DEF Task, Block
  <2>2. /\ tasks \in Seq(Task) /\ Len(tasks) = 1
        /\ \A k \in 1 .. 1 : tasks[k].stamp = sent + k
    BY <2>1
  <2> HIDE DEF tasks
  <2> QED
    BY <1>1, <1>3, <2>2, SendingStep
<1> QED
  BY <1>2, <1>3 DEF forwardFires

(* Steps that write neither the messages nor the outbox *)
QuietStep ==
  /\ UNCHANGED <<outbox, sent>>
  /\ db'.message \subseteq db.message /\ db'.messageSeq = db.messageSeq

(* A step that writes neither keeps the order *)
LEMMA QuietInOrder ==
  ASSUME OrderInv, IInv, QuietStep
  PROVE  OrderInv'
<1>1. sent \in Nat /\ sent <= sent'
  BY DEF IInv, ScalarsOK, QuietStep
<1> QED
  BY <1>1, LosingStep DEF QuietStep

(* clearCurrentBadge leaves the messages alone *)
LEMMA ClearKeepsMessages ==
  ASSUME NEW store \in Store, NEW user
  PROVE  /\ clearCurrentBadge(store, user).message = store.message
         /\ clearCurrentBadge(store, user).messageSeq = store.messageSeq
BY UpdateKeepsMessages DEF clearCurrentBadge

(* The taps that send nothing *)
LEMMA UserIsQuiet ==
  ASSUME IInv, User, ~keyboardDidFinish, ~didFinishPickingPhotos
  PROVE  QuietStep
<1>1. db \in Store
  BY DEF IInv
<1>2. ASSUME NEW uid \in Uids, didSelectRow(uid) PROVE QuietStep
  <2>1. db' = clearCurrentBadge(db, qureyFromChatId(db, uid)) /\ UNCHANGED <<outbox, sent>>
    BY <1>2 DEF didSelectRow
  <2> QED
    BY <1>1, <2>1, ClearKeepsMessages DEF QuietStep
<1>3. ASSUME NEW uid \in Uids, pushChatInfo(uid) PROVE QuietStep
  BY <1>3 DEF pushChatInfo, PushScreen, QuietStep
<1>4. ASSUME NEW uid \in Uids, handleDeleteSesstionAtRow(uid) PROVE QuietStep
  <2> DEFINE store == deleteFromMesssageWithId(db, uid)
  <2>1. /\ store \in Store /\ store.message \subseteq db.message
        /\ store.messageSeq = db.messageSeq
    BY <1>1, DeleteMessagesType, DeleteLeavesRows
  <2>2. /\ db' = clearCurrentBadge(store, qureyFromChatId(store, uid))
        /\ UNCHANGED <<outbox, sent>>
    BY <1>4 DEF handleDeleteSesstionAtRow
  <2> HIDE DEF store
  <2> QED
    BY <2>1, <2>2, ClearKeepsMessages DEF QuietStep
<1>5. ASSUME NEW item, didMenuDelete(item) PROVE QuietStep
  <2>1. /\ db' = db \/ db' = deleteFromMessageId(db, item.id)
        /\ UNCHANGED <<outbox, sent>>
    BY <1>5 DEF didMenuDelete
  <2> QED
    BY <1>1, <2>1, DeleteLeavesRows DEF QuietStep
<1>6. ASSUME NEW uid \in Uids, forwardAction(uid) PROVE QuietStep
  BY <1>6 DEF forwardAction, QuietStep
<1>7. ASSUME NEW name \in NickNames, saveEditing(name) PROVE QuietStep
  <2>1. /\ \E chat : db' = updateFromChatModel(db, chat, chat.uid)
        /\ UNCHANGED <<outbox, sent>>
    BY <1>7 DEF saveEditing
  <2> QED
    BY <1>1, <2>1, UpdateKeepsMessages DEF QuietStep
<1>8. CASE exitGroupChat
  <2> DEFINE uid   == ModelAt(stack, modal.room).uid
             store == deleteFromChatWithId(db, uid)
  <2>1. /\ store \in Store /\ store.message = db.message
        /\ store.messageSeq = db.messageSeq
    BY <1>1, DeleteChatsType, DeleteChatKeepsMessages
  <2>2. db' = deleteFromMesssageWithId(store, uid) /\ UNCHANGED <<outbox, sent>>
    BY <1>8 DEF exitGroupChat
  <2> HIDE DEF store, uid
  <2> QED
    BY <2>1, <2>2, DeleteLeavesRows DEF QuietStep
<1>9. CASE readAllAction
  BY <1>1, <1>9 DEF readAllAction, QuietStep, Store
<1>10. CASE messageForward \/ popViewController
  BY <1>10 DEF messageForward, popViewController, QuietStep
<1>11. CASE didTapAvatar \/ sendButton \/ editNickName
  BY <1>11 DEF didTapAvatar, sendButton, editNickName, PushScreen, QuietStep
<1>12. CASE openImagePicker \/ exitGroupAlert \/ cancel
  BY <1>12 DEF openImagePicker, exitGroupAlert, cancel, QuietStep
<1> QED
  BY <1>2, <1>3, <1>4, <1>5, <1>6, <1>7, <1>8, <1>9, <1>10, <1>11, <1>12 DEF User

(* removeControllerWithName moves the pending messages with their rooms, a  *)
(* killed process loses them: neither changes their order.                 *)
LEMMA MovedOrLostInOrder ==
  ASSUME OrderInv, IInv,
         relaunch \/ \E b \in delayed : forwardRemoved(b) \/ poppedToRoot(b)
  PROVE  OrderInv'
<1>1. /\ sent \in Nat /\ UNCHANGED <<db, sent>> /\ outbox \in Seq(Task)
  BY DEF IInv, IndicesOK, OutboxOK, ScalarsOK, relaunch, forwardRemoved, poppedToRoot
<1>2. sent' \in Nat /\ sent <= sent'
  BY <1>1
<1>3. CASE outbox' = <<>>
  BY <1>1, <1>2, <1>3, LosingStep
<1>4. CASE UNCHANGED outbox
  BY <1>1, <1>2, <1>4, LosingStep
<1>5. CASE \E d : outbox' = [k \in DOMAIN outbox |->
                              [outbox[k] EXCEPT !.room = Shifted(@, d)]]
  <2>1. DOMAIN outbox' = DOMAIN outbox
    BY <1>5
  <2>2. ASSUME NEW k \in DOMAIN outbox
        PROVE  outbox'[k].stamp = outbox[k].stamp
    <3>1. outbox[k] \in Task
      BY <1>1
    <3> QED
      BY <1>5, <3>1 DEF Task
  <2> QED
    BY <1>1, <1>2, <2>1, <2>2, LosingStep
<1> QED
  BY <1>3, <1>4, <1>5 DEF relaunch, forwardRemoved, poppedToRoot

(* There is nothing to order at the start *)
LEMMA InitOrderInv == Init => OrderInv
<1> SUFFICES ASSUME Init PROVE OrderInv
  OBVIOUS
<1>1. db.message = {} /\ outbox = <<>>
  BY DEF Init
<1> QED
  BY <1>1 DEF OrderInv, StoredInSendOrder

(* Every step keeps the order *)
LEMMA NextOrderInv == OrderInv /\ IInv /\ ModalOK /\ [Next]_vars => OrderInv'
<1> SUFFICES ASSUME OrderInv, IInv, ModalOK, [Next]_vars PROVE OrderInv'
  OBVIOUS
<1>1. CASE User
  BY <1>1, UserIsQuiet, QuietInOrder, SendersAreRooms, MakeChatMessageInOrder
<1>2. CASE beginCacheMessage
  BY <1>2, StoringStep
<1>3. CASE showSessionBadge \/ popEnds \/ deinit \/ openWidgetChat \/ UNCHANGED vars
  <2>1. QuietStep
    BY <1>3 DEF QuietStep, showSessionBadge, popEnds, deinit, openWidgetChat, vars
  <2> QED
    BY <2>1, QuietInOrder
<1>4. ASSUME NEW b \in delayed, forwardFires(b) PROVE OrderInv'
  BY <1>4, ForwardFiresInOrder
<1>5. CASE relaunch \/ \E b \in delayed : forwardRemoved(b) \/ poppedToRoot(b)
  BY <1>5, MovedOrLostInOrder
<1>6. CASE \E i \in DOMAIN stack : makeGroupAutoSend(i)
  BY <1>6, MakeChatMessageInOrder
<1> QED
  BY <1>1, <1>2, <1>3, <1>4, <1>5, <1>6 DEF Next, Running, System

(* StoredInSendOrder: the keys of the message table follow the order in     *)
(* which the messages were sent, whichever rooms, timers and forwards sent *)
(* them, and no message is stored twice.                                   *)
THEOREM MessagesKeepTheirOrder == Spec => []StoredInSendOrder
<1>1. OrderInv => StoredInSendOrder
  BY DEF OrderInv
<1> QED
  BY InitOrderInv, NextOrderInv, IInvHolds, <1>1, PTL DEF Spec

-----------------------------------------------------------------------------
(* ChatRoom implements Messaging: its initial state is one of Messaging,    *)
(* and each of its steps is a step of Messaging or leaves the messages     *)
(* alone.                                                                  *)

Waiting == {Abstracted(outbox[k]) : k \in DOMAIN outbox}
Kept    == {Abstracted(r) : r \in db.message}

(* A step of Messaging, under the mapping *)
MessagingStep == Messages!Next \/ UNCHANGED <<sent, Waiting, Kept>>

-----------------------------------------------------------------------------
(* Steps that write neither the outbox nor new rows *)
LEMMA QuietKeeps ==
  ASSUME QuietStep
  PROVE  MessagingStep
<1>1. Kept' \subseteq Kept
  BY DEF QuietStep, Kept
<1>2. Waiting' = Waiting /\ sent' = sent
  BY DEF QuietStep, Waiting
<1> QED
  BY <1>1, <1>2 DEF MessagingStep, Messages!Next, Messages!Delete, Waiting, Kept

(* n new messages of one chat, put at the end of the outbox *)
LEMMA SendingKeeps ==
  ASSUME OrderInv, IInv, NEW n \in {1, 2}, NEW tasks \in Seq(Task), Len(tasks) = n,
         \A k \in 1 .. n : tasks[k].stamp = sent + k,
         \A k, l \in 1 .. n : tasks[k].chatId = tasks[l].chatId,
         sent' = sent + n, outbox' = Deferred(tasks), UNCHANGED db
  PROVE  MessagingStep
<1> DEFINE len == Len(outbox)
           new == {Abstracted(tasks[k]) : k \in 1 .. n}
<1>1. /\ outbox \in Seq(Task) /\ sent \in Nat /\ len \in Nat /\ DOMAIN outbox = 1 .. len
  BY DEF IInv, IndicesOK, OutboxOK, ScalarsOK
<1>2. /\ DOMAIN outbox' = 1 .. len + n
      /\ \A k \in 1 .. len + n :
           outbox'[k] = IF k <= len THEN outbox[k] ELSE tasks[k - len]
  BY <1>1, ConcatProperties DEF Deferred
<1> HIDE DEF len
<1>3. Waiting' = Waiting \cup new
  <2>1. ASSUME NEW k \in DOMAIN outbox' PROVE Abstracted(outbox'[k]) \in Waiting \cup new
    <3>1. CASE k <= len
      <4>1. k \in DOMAIN outbox /\ outbox'[k] = outbox[k]
        BY <1>1, <1>2, <3>1
      <4> QED
        BY <4>1 DEF Waiting
    <3>2. CASE ~(k <= len)
      <4>1. k - len \in 1 .. n /\ outbox'[k] = tasks[k - len]
        BY <1>1, <1>2, <3>2
      <4> QED
        BY <4>1
    <3> QED
      BY <3>1, <3>2
  <2>2. ASSUME NEW k \in DOMAIN outbox PROVE Abstracted(outbox[k]) \in Waiting'
    <3>1. k \in DOMAIN outbox' /\ outbox'[k] = outbox[k]
      BY <1>1, <1>2
    <3> QED
      BY <3>1 DEF Waiting
  <2>3. ASSUME NEW k \in 1 .. n PROVE Abstracted(tasks[k]) \in Waiting'
    <3>1. len + k \in DOMAIN outbox' /\ outbox'[len + k] = tasks[k]
      BY <1>1, <1>2
    <3> QED
      BY <3>1 DEF Waiting
  <2>4. Waiting' \subseteq Waiting \cup new
    BY <2>1 DEF Waiting
  <2>5. Waiting \subseteq Waiting'
    BY <2>2 DEF Waiting
  <2>6. new \subseteq Waiting'
    BY <2>3
  <2> QED
    BY Zenon, <2>4, <2>5, <2>6
<1>4. ASSUME NEW m \in Waiting PROVE m.stamp \in Nat /\ m.stamp <= sent
  <2>1. PICK k \in DOMAIN outbox : m = Abstracted(outbox[k])
    BY DEF Waiting
  <2>2. outbox[k] \in Task
    BY <1>1
  <2> QED
    BY <2>1, <2>2 DEF OrderInv, Abstracted, Task
<1>5. \A m \in new : \E k \in 1 .. n : m.stamp = sent + k /\ m.chatId = tasks[k].chatId
  BY DEF Abstracted
<1>6. Waiting' \ Waiting = new
  BY <1>1, <1>3, <1>4, <1>5
<1>7. {m.stamp : m \in new} = sent + 1 .. sent'
  <2>1. \A k \in 1 .. n : Abstracted(tasks[k]).stamp = sent + k
    BY DEF Abstracted
  <2>2. ASSUME NEW s \in sent + 1 .. sent' PROVE \E m \in new : s = m.stamp
    <3>1. s - sent \in 1 .. n /\ s = sent + (s - sent)
      BY <1>1, <2>2
    <3> QED
      BY <2>1, <3>1
  <2>3. ASSUME NEW m \in new PROVE m.stamp \in sent + 1 .. sent'
    BY <1>1, <1>5
  <2> QED
    BY <2>2, <2>3
<1>8. \A m, o \in new : m.chatId = o.chatId
  BY <1>5
<1> HIDE DEF new
<1>9. Kept' = Kept /\ sent' \in {sent + 1, sent + 2}
  BY DEF Kept
<1>10. Messages!Send
  BY <1>3, <1>6, <1>7, <1>8, <1>9 DEF Messages!Send, Waiting, Kept
<1> QED
  BY <1>10 DEF MessagingStep, Messages!Next

(* The oldest message of the outbox becomes a row *)
LEMMA StoringKeeps ==
  ASSUME OrderInv, IInv, beginCacheMessage
  PROVE  MessagingStep
<1> DEFINE task   == Head(outbox)
           stored == insertFromMessage(db, task.chatId, task.chatType, task.stamp)
           row    == [id |-> db.messageSeq + 1, chatId |-> task.chatId,
                      chatType |-> task.chatType, stamp |-> task.stamp]
           m      == Abstracted(task)
<1>1. /\ outbox \in Seq(Task) /\ outbox # <<>> /\ db \in Store
      /\ outbox' = Tail(outbox) /\ sent' = sent
  BY DEF IInv, IndicesOK, OutboxOK, beginCacheMessage
<1>2. /\ task = outbox[1] /\ task \in Task /\ 1 \in DOMAIN outbox
      /\ \A k \in DOMAIN outbox' : /\ k \in Nat \ {0} /\ k + 1 \in DOMAIN outbox
                                   /\ outbox'[k] = outbox[k + 1]
      /\ \A k \in DOMAIN outbox : k # 1 => /\ k - 1 \in DOMAIN outbox'
                                           /\ outbox'[k - 1] = outbox[k]
  BY <1>1
<1>3. db'.message = db.message \cup {row}
  <2>1. stored.message = db.message \cup {row}
    BY <1>1, InsertAddsLast
  <2>2. stored \in Store
    BY <1>1, <1>2, InsertFromMessageType DEF Task
  <2>3. \/ db' = stored
        \/ \E chat : db' = updateFromChatModel(stored, chat, chat.uid)
    BY DEF beginCacheMessage
  <2> HIDE DEF stored, row
  <2> QED
    BY <2>1, <2>2, <2>3, UpdateKeepsMessages
<1>4. Abstracted(row) = m
  BY DEF Abstracted
<1> HIDE DEF task, stored, row
<1>5. Kept' = Kept \cup {m}
  BY <1>3, <1>4 DEF Kept
<1>6. ASSUME NEW k \in DOMAIN outbox, k # 1 PROVE outbox[1].stamp < outbox[k].stamp
  <2>1. k \in Nat /\ 1 < k
    BY <1>1, <1>6
  <2> QED
    BY <1>2, <2>1 DEF OrderInv
<1>7. ASSUME NEW k \in DOMAIN outbox PROVE outbox[k].stamp \in Nat
  <2>1. outbox[k] \in Task
    BY <1>1
  <2> QED
    BY <2>1 DEF Task
<1>8. \A k \in DOMAIN outbox : Abstracted(outbox[k]).stamp = outbox[k].stamp
  BY DEF Abstracted
<1>9. m \in Waiting /\ m.stamp = outbox[1].stamp
  BY <1>2 DEF Waiting, Abstracted
<1>10. \A o \in Waiting : m.stamp <= o.stamp
  BY <1>6, <1>7, <1>8, <1>9, <1>2 DEF Waiting
<1>11. \A o \in Kept : o.stamp < m.stamp
  BY <1>2, <1>9 DEF Kept, OrderInv, Abstracted
<1>12. Waiting' = Waiting \ {m}
  <2>1. ASSUME NEW k \in DOMAIN outbox'
        PROVE  Abstracted(outbox'[k]) \in Waiting \ {m}
    <3>1. k + 1 \in DOMAIN outbox /\ k + 1 # 1 /\ outbox'[k] = outbox[k + 1]
      BY <1>2
    <3>2. outbox[1].stamp < outbox[k + 1].stamp
      BY <1>6, <3>1
    <3> QED
      BY <1>2, <1>7, <1>8, <1>9, <3>1, <3>2 DEF Waiting
  <2>2. ASSUME NEW k \in DOMAIN outbox, Abstracted(outbox[k]) # m
        PROVE  Abstracted(outbox[k]) \in Waiting'
    <3>1. k # 1
      BY <1>2, <2>2
    <3> QED
      BY <1>2, <3>1 DEF Waiting
  <2>3. Waiting' \subseteq Waiting \ {m}
    BY <2>1 DEF Waiting
  <2> QED
    BY <2>2, <2>3 DEF Waiting
<1>13. Messages!Store
  BY <1>1, <1>5, <1>9, <1>10, <1>11, <1>12 DEF Messages!Store, Waiting, Kept
<1> QED
  BY <1>13 DEF MessagingStep, Messages!Next

-----------------------------------------------------------------------------
(* reloadChatData sends, from whatever stack it is given *)
LEMMA ReloadKeeps ==
  ASSUME OrderInv, IInv, NEW stk, StackOK(stk), NEW i \in DOMAIN stk, NEW n \in {1, 2},
         reloadChatData(stk, i, n), UNCHANGED db
  PROVE  MessagingStep
<1> DEFINE model == ModelAt(stk, i)
           tasks == [k \in 1 .. n |-> [room |-> i, stamp |-> sent + k,
                       chatId |-> model.uid, chatType |-> model.chatType,
                       unseen |-> ~OnScreen(i)]]
<1>1. model \in ChatModel /\ i \in Nat /\ sent \in Nat
  BY ModelAtType DEF StackOK, IInv, ScalarsOK
<1>2. ASSUME NEW k \in 1 .. n PROVE tasks[k] \in Task
  <2> HIDE DEF model
  <2>1. sent + k \in Nat
    BY <1>1
  <2>2. model.uid \in Nat /\ model.chatType \in 0 .. 2
    BY <1>1 DEF ChatModel
  <2>3. (~OnScreen(i)) \in BOOLEAN
    BY Zenon
  <2> QED
    BY Zenon, <1>1, <2>1, <2>2, <2>3 DEF Task
<1>3. /\ tasks \in Seq(Task) /\ Len(tasks) = n
      /\ \A k \in 1 .. n : tasks[k].stamp = sent + k
      /\ \A k, l \in 1 .. n : tasks[k].chatId = tasks[l].chatId
  BY <1>2
<1>4. sent' = sent + n /\ outbox' = Deferred(tasks)
  BY DEF reloadChatData
<1> HIDE DEF tasks
<1> QED
  BY <1>3, <1>4, SendingKeeps

(* A message typed by the user, or sent by the timer of a group *)
LEMMA MakeChatMessageKeeps ==
  ASSUME OrderInv, IInv, Sending \/ \E i \in DOMAIN stack : makeGroupAutoSend(i)
  PROVE  MessagingStep
<1>1. UNCHANGED db
  BY DEF Sending, makeChatMessage, makeGroupAutoSend
<1>2. \E stk, i, n : /\ StackOK(stk) /\ i \in DOMAIN stk /\ n \in {1, 2}
                     /\ reloadChatData(stk, i, n)
  BY MessagesComeFromRooms
<1> QED
  BY <1>1, <1>2, ReloadKeeps

(* A forwarded message, or one whose forward screen has gone *)
LEMMA ForwardFiresKeeps ==
  ASSUME OrderInv, IInv, NEW b \in delayed, forwardFires(b)
  PROVE  MessagingStep
<1> DEFINE tasks == <<[room |-> Top + 1, stamp |-> sent + 1, chatId |-> b.target,
                       chatType |-> b.chatType, unseen |-> FALSE]>>
<1>1. /\ b \in Block /\ sent \in Nat /\ Top \in Nat
      /\ sent' = sent + 1 /\ UNCHANGED db
  BY DEF IInv, IndicesOK, DelayedOK, StackOK, ScalarsOK, forwardFires, Top
<1>2. CASE UNCHANGED outbox
  <2>1. Messages!SendInVain
    BY <1>1, <1>2 DEF Messages!SendInVain
  <2> QED
    BY <2>1 DEF MessagingStep, Messages!Next
<1>3. CASE outbox' = Deferred(tasks)
  <2>1. tasks[1] \in Task /\ tasks[1].stamp = sent + 1
    BY <1>1 DEF Task, Block
  <2>2. /\ tasks \in Seq(Task) /\ Len(tasks) = 1
        /\ \A k \in 1 .. 1 : tasks[k].stamp = sent + k
        /\ \A k, l \in 1 .. 1 : tasks[k].chatId = tasks[l].chatId
    BY <2>1
  <2> HIDE DEF tasks
  <2> QED
    BY <1>1, <1>3, <2>2, SendingKeeps
<1> QED
  BY <1>2, <1>3 DEF forwardFires

(* removeControllerWithName moves what waits, a killed process loses it *)
LEMMA MovedOrLostKeeps ==
  ASSUME IInv, relaunch \/ \E b \in delayed : forwardRemoved(b) \/ poppedToRoot(b)
  PROVE  MessagingStep
<1>1. UNCHANGED <<db, sent>> /\ outbox \in Seq(Task)
  BY DEF IInv, IndicesOK, OutboxOK, relaunch, forwardRemoved, poppedToRoot
<1>2. Kept' = Kept
  BY <1>1 DEF Kept
<1>3. CASE outbox' = <<>>
  <2>1. Waiting' = {}
    BY <1>3 DEF Waiting
  <2>2. Messages!Lose
    BY <1>1, <1>2, <2>1 DEF Messages!Lose, Waiting, Kept
  <2> QED
    BY <2>2 DEF MessagingStep, Messages!Next
<1>4. CASE UNCHANGED outbox
  <2>1. Waiting' = Waiting
    BY <1>4 DEF Waiting
  <2> QED
    BY <1>1, <1>2, <2>1 DEF MessagingStep
<1>5. CASE \E d : outbox' = [k \in DOMAIN outbox |->
                              [outbox[k] EXCEPT !.room = Shifted(@, d)]]
  <2>1. DOMAIN outbox' = DOMAIN outbox
    BY <1>5
  <2>2. ASSUME NEW k \in DOMAIN outbox
        PROVE  Abstracted(outbox'[k]) = Abstracted(outbox[k])
    <3>1. outbox[k] \in Task
      BY <1>1
    <3> QED
      BY <1>5, <3>1 DEF Task, Abstracted
  <2>3. Waiting' = Waiting
    BY <2>1, <2>2 DEF Waiting
  <2> QED
    BY <1>1, <1>2, <2>3 DEF MessagingStep
<1> QED
  BY <1>3, <1>4, <1>5 DEF relaunch, forwardRemoved, poppedToRoot

(* Nothing is sent, waiting or kept at the start *)
LEMMA InitKeeps == Init => Messages!Init
<1> SUFFICES ASSUME Init PROVE Messages!Init
  OBVIOUS
<1>1. db.message = {} /\ outbox = <<>> /\ sent = 0
  BY DEF Init
<1> QED
  BY <1>1 DEF Messages!Init

(* Every step *)
LEMMA NextKeeps ==
  OrderInv /\ IInv /\ ModalOK /\ [Next]_vars => [Messages!Next]_(Messages!vars)
<1> SUFFICES ASSUME OrderInv, IInv, ModalOK, [Next]_vars
             PROVE  MessagingStep
  BY DEF MessagingStep, Messages!vars, Waiting, Kept
<1>1. CASE User
  BY <1>1, UserIsQuiet, QuietKeeps, SendersAreRooms, MakeChatMessageKeeps
<1>2. CASE beginCacheMessage
  BY <1>2, StoringKeeps
<1>3. CASE showSessionBadge \/ popEnds \/ deinit \/ openWidgetChat \/ UNCHANGED vars
  <2>1. QuietStep
    BY <1>3 DEF QuietStep, showSessionBadge, popEnds, deinit, openWidgetChat, vars
  <2> QED
    BY <2>1, QuietKeeps
<1>4. ASSUME NEW b \in delayed, forwardFires(b) PROVE MessagingStep
  BY <1>4, ForwardFiresKeeps
<1>5. CASE relaunch \/ \E b \in delayed : forwardRemoved(b) \/ poppedToRoot(b)
  BY <1>5, MovedOrLostKeeps
<1>6. CASE \E i \in DOMAIN stack : makeGroupAutoSend(i)
  BY <1>6, MakeChatMessageKeeps
<1> QED
  BY <1>1, <1>2, <1>3, <1>4, <1>5, <1>6 DEF Next, Running, System

(* KeepsMessages: ChatRoom, with its screens, timers and tables, implements *)
(* Messaging; every message goes once, in its turn, to the chat it was sent *)
(* to, and none is lost unless the process is killed.                       *)
THEOREM ChatRoomKeepsMessages == Spec => KeepsMessages
<1>1. Spec => [](OrderInv /\ IInv /\ ModalOK)
  BY InitOrderInv, NextOrderInv, IInvHolds, PTL DEF Spec
<1> QED
  BY InitKeeps, NextKeeps, <1>1, PTL DEF Spec, KeepsMessages, Messages!Spec

-----------------------------------------------------------------------------
(***************************************************************************)
(* What the steps do to the chat table and to the screens of the stack.    *)
(*                                                                         *)
(* A chat that was deleted stays deleted: every write of a chat object     *)
(* goes through UPDATE, and none inserts.  The badge on the tab is behind  *)
(* only while it is being redrawn.  No timer is left running unseen but by *)
(* the completion of a picker, and a write that refreshes nothing is a     *)
(* write of a message that no chat of the table has.                       *)
(***************************************************************************)

(* The chat table.                                                         *)

(* Every row of the second store has a uid of the first *)
NoNewUid(store, new) ==
  \A e \in new.chat : \E c \in store.chat : c.uid = e.uid

(* An update brings no uid back *)
LEMMA UpdateBringsNoUid ==
  ASSUME NEW store \in Store, NEW chat
  PROVE  NoNewUid(store, updateFromChatModel(store, chat, chat.uid))
<1> DEFINE hits == queryChatFromAllChats(store, chat.uid)
           new  == updateFromChatModel(store, chat, chat.uid)
<1>1. CASE new = store
  BY <1>1 DEF NoNewUid
<1>2. CASE hits # {} /\ new = [store EXCEPT !.chat = (@ \ hits) \cup {chat}]
  <2>1. new.chat = (store.chat \ hits) \cup {chat}
    BY <1>2 DEF Store
  <2>2. \E c \in store.chat : c.uid = chat.uid
    BY <1>2 DEF queryChatFromAllChats
  <2> QED
    BY <2>1, <2>2 DEF NoNewUid
<1>3. \/ new = store
      \/ hits # {} /\ new = [store EXCEPT !.chat = (@ \ hits) \cup {chat}]
  BY DEF updateFromChatModel
<1> QED
  BY <1>1, <1>2, <1>3

(* Nor does clearing a badge *)
LEMMA ClearBringsNoUid ==
  ASSUME NEW store \in Store, NEW user \in ChatModel
  PROVE  NoNewUid(store, clearCurrentBadge(store, user))
<1>1. NoNewUid(store, updateFromChatModel(store, Read(user), user.uid))
  BY ReadType, UpdateBringsNoUid
<1> QED
  BY <1>1 DEF clearCurrentBadge, NoNewUid

(* Storing and deleting messages leaves the chats alone *)
LEMMA MessagesLeaveChats ==
  ASSUME NEW store \in Store, NEW x, NEW y, NEW z
  PROVE  /\ insertFromMessage(store, x, y, z).chat = store.chat
         /\ deleteFromMessageId(store, x).chat = store.chat
         /\ deleteFromMesssageWithId(store, x).chat = store.chat
BY DEF insertFromMessage, deleteFromMessageId, deleteFromMesssageWithId, Store

(* The taps *)
LEMMA UserBringsNoUid ==
  ASSUME IInv, User
  PROVE  NoNewUid(db, db')
<1>1. db \in Store /\ OneRowPerUid(db)
  BY DEF IInv
<1>2. ASSUME NEW uid \in Uids, didSelectRow(uid) PROVE NoNewUid(db, db')
  <2>1. db' = clearCurrentBadge(db, qureyFromChatId(db, uid))
    BY <1>2 DEF didSelectRow
  <2> QED
    BY <1>1, <2>1, QureyFromChatIdType, ClearBringsNoUid
<1>3. ASSUME NEW uid \in Uids, handleDeleteSesstionAtRow(uid) PROVE NoNewUid(db, db')
  <2> DEFINE store == deleteFromMesssageWithId(db, uid)
             user  == qureyFromChatId(store, uid)
  <2>1. store \in Store /\ OneRowPerUid(store) /\ store.chat = db.chat
    BY <1>1, DeleteMessagesType, DeleteKeepsOneRow, MessagesLeaveChats
  <2>2. user \in ChatModel
    <3> HIDE DEF store
    <3> QED
      BY <2>1, QureyFromChatIdType
  <2>3. db' = clearCurrentBadge(store, user)
    BY <1>3 DEF handleDeleteSesstionAtRow
  <2> HIDE DEF store, user
  <2>4. NoNewUid(store, db')
    BY <2>1, <2>2, <2>3, ClearBringsNoUid
  <2> QED
    BY <2>1, <2>4 DEF NoNewUid
<1>4. ASSUME NEW item, didMenuDelete(item) PROVE NoNewUid(db, db')
  <2>1. db' = db \/ db' = deleteFromMessageId(db, item.id)
    BY <1>4 DEF didMenuDelete
  <2> QED
    BY <1>1, <2>1, MessagesLeaveChats DEF NoNewUid
<1>5. ASSUME NEW name \in NickNames, saveEditing(name) PROVE NoNewUid(db, db')
  <2>1. \E chat : db' = updateFromChatModel(db, chat, chat.uid)
    BY <1>5 DEF saveEditing
  <2> QED
    BY <1>1, <2>1, UpdateBringsNoUid
<1>6. CASE exitGroupChat
  <2> DEFINE uid   == ModelAt(stack, modal.room).uid
             store == deleteFromChatWithId(db, uid)
  <2>1. store \in Store /\ store.chat \subseteq db.chat
    BY <1>1, DeleteChatsType DEF deleteFromChatWithId, Store
  <2>2. db' = deleteFromMesssageWithId(store, uid)
    BY <1>6 DEF exitGroupChat
  <2> HIDE DEF store, uid
  <2>3. db'.chat = store.chat
    BY <2>1, <2>2, MessagesLeaveChats
  <2> QED
    BY <2>1, <2>3 DEF NoNewUid
<1>7. CASE readAllAction
  <2> DEFINE kept(c) == IF ReadBack(db, c) THEN Read(c) ELSE c
  <2>1. db' = [db EXCEPT !.chat = {kept(c) : c \in @}]
    BY <1>7 DEF readAllAction
  <2>2. \A c \in db.chat : kept(c).uid = c.uid
    BY <1>1, ReadType DEF Store
  <2>3. db'.chat = {kept(c) : c \in db.chat}
    BY <1>1, <2>1 DEF Store
  <2> HIDE DEF kept
  <2> QED
    BY <2>2, <2>3 DEF NoNewUid
<1>8. CASE UNCHANGED db
  BY <1>8 DEF NoNewUid
<1>9. \/ UNCHANGED db
      \/ \E uid \in Uids : didSelectRow(uid) \/ handleDeleteSesstionAtRow(uid)
      \/ \E item : didMenuDelete(item)
      \/ \E name \in NickNames : saveEditing(name)
      \/ exitGroupChat \/ readAllAction
  BY DEF User, pushChatInfo, forwardAction, keyboardDidFinish, openImagePicker,
         didFinishPickingPhotos, makeChatMessage, exitGroupAlert, cancel,
         messageForward, popViewController, didTapAvatar, sendButton,
         editNickName, PushScreen
<1> QED
  BY <1>2, <1>3, <1>4, <1>5, <1>6, <1>7, <1>8, <1>9

(* The deferred write of a message *)
LEMMA StoringBringsNoUid ==
  ASSUME IInv, beginCacheMessage
  PROVE  NoNewUid(db, db')
<1> DEFINE task   == Head(outbox)
           stored == insertFromMessage(db, task.chatId, task.chatType, task.stamp)
<1>1. db \in Store /\ task \in Task
  BY DEF IInv, IndicesOK, OutboxOK, beginCacheMessage
<1>2. stored \in Store /\ stored.chat = db.chat
  <2>1. task.chatId \in Nat /\ task.chatType \in 0 .. 2 /\ task.stamp \in Nat
    BY <1>1 DEF Task
  <2> HIDE DEF task
  <2>2. stored \in Store
    BY <1>1, <2>1, InsertFromMessageType
  <2>3. stored.chat = db.chat
    BY <1>1, MessagesLeaveChats
  <2> QED
    BY <2>2, <2>3
<1>3. db' = stored \/ \E chat : db' = updateFromChatModel(stored, chat, chat.uid)
  BY DEF beginCacheMessage
<1> HIDE DEF stored
<1>4. NoNewUid(stored, db')
  BY <1>2, <1>3, UpdateBringsNoUid DEF NoNewUid
<1> QED
  BY <1>2, <1>4 DEF NoNewUid

(* Every step *)
LEMMA NextBringsNoUid == IInv /\ [Next]_vars => NoNewUid(db, db')
<1> SUFFICES ASSUME IInv, [Next]_vars PROVE NoNewUid(db, db')
  OBVIOUS
<1>1. CASE User
  BY <1>1, UserBringsNoUid
<1>2. CASE beginCacheMessage
  BY <1>2, StoringBringsNoUid
<1>3. CASE UNCHANGED db
  BY <1>3 DEF NoNewUid
<1>4. User \/ beginCacheMessage \/ UNCHANGED db
  BY DEF Next, Running, System, showSessionBadge, popEnds, deinit, forwardFires,
         forwardRemoved, poppedToRoot, openWidgetChat, makeGroupAutoSend,
         relaunch, vars
<1> QED
  BY <1>1, <1>2, <1>3, <1>4

(* ChatStaysGone: no step of any room, edit screen or list brings back the  *)
(* chat of a group that was left, although they all keep copies of it.     *)
THEOREM DeletedChatsStayGone == Spec => ChatStaysGone
<1>1. IInv /\ [Next]_vars =>
        [\A uid \in Uids : queryChatFromAllChats(db, uid) = {} =>
                             queryChatFromAllChats(db', uid) = {}]_vars
  BY NextBringsNoUid DEF NoNewUid, queryChatFromAllChats
<1> QED
  BY IInvHolds, <1>1, PTL DEF Spec, ChatStaysGone

-----------------------------------------------------------------------------
(* The badge *)

(* A step that keeps the badge up: it asks for a redraw, or redraws, or     *)
(* writes neither the chats nor the badge                                  *)
BadgeStep ==
  \/ badgeDue'
  \/ tabBadge' = queryFromSesstionsUnReadCount(db')
  \/ UNCHANGED <<badgeDue, tabBadge>> /\ db'.chat = db.chat

(* The taps *)
LEMMA UserKeepsBadge ==
  ASSUME IInv, User
  PROVE  BadgeStep
<1>1. ASSUME NEW uid \in Uids, didSelectRow(uid) PROVE BadgeStep
  BY <1>1 DEF didSelectRow, clearCurrentBadge, reloadSesstionData, BadgeStep
<1>2. CASE \/ \E uid \in Uids : handleDeleteSesstionAtRow(uid)
           \/ \E i \in (IF Top = dropped THEN {} ELSE stack[Top].items) : didMenuDelete(i)
           \/ \E name \in NickNames : saveEditing(name)
           \/ exitGroupChat \/ readAllAction
  BY <1>2 DEF handleDeleteSesstionAtRow, didMenuDelete, saveEditing, exitGroupChat,
              readAllAction, reloadSesstionData, BadgeStep
<1>3. CASE \/ \E uid \in Uids : pushChatInfo(uid) \/ forwardAction(uid)
           \/ keyboardDidFinish \/ openImagePicker \/ didFinishPickingPhotos
           \/ exitGroupAlert \/ cancel \/ messageForward \/ popViewController
           \/ didTapAvatar \/ sendButton \/ editNickName
  BY <1>3 DEF pushChatInfo, forwardAction, keyboardDidFinish, openImagePicker,
              didFinishPickingPhotos, makeChatMessage, exitGroupAlert, cancel,
              messageForward, popViewController, didTapAvatar, sendButton,
              editNickName, PushScreen, BadgeStep
<1> QED
  BY <1>1, <1>2, <1>3 DEF User

(* The deferred write asks for a redraw, unless the room has no chat: then  *)
(* it writes a message and no chat                                         *)
LEMMA StoringKeepsBadge ==
  ASSUME IInv, beginCacheMessage
  PROVE  BadgeStep
<1> DEFINE task   == Head(outbox)
           stored == insertFromMessage(db, task.chatId, task.chatType, task.stamp)
<1>1. stored.chat = db.chat
  BY MessagesLeaveChats DEF IInv
<1>2. \/ badgeDue'
      \/ db' = stored /\ UNCHANGED <<badgeDue, tabBadge>>
  BY DEF beginCacheMessage, reloadSesstionData
<1> HIDE DEF stored
<1> QED
  BY <1>1, <1>2 DEF BadgeStep

(* Every step *)
LEMMA NextKeepsBadge == IInv /\ [Next]_vars => BadgeStep
<1> SUFFICES ASSUME IInv, [Next]_vars PROVE BadgeStep
  OBVIOUS
<1>1. CASE User
  BY <1>1, UserKeepsBadge
<1>2. CASE beginCacheMessage
  BY <1>2, StoringKeepsBadge
<1>3. CASE showSessionBadge \/ relaunch
  BY <1>3 DEF showSessionBadge, relaunch, reloadSesstionData, BadgeStep
<1>4. CASE UNCHANGED <<db, badgeDue, tabBadge>>
  BY <1>4 DEF BadgeStep
<1>5. \/ User \/ beginCacheMessage \/ showSessionBadge \/ relaunch
      \/ UNCHANGED <<db, badgeDue, tabBadge>>
  BY DEF Next, Running, System, popEnds, deinit, forwardFires, forwardRemoved,
         poppedToRoot, openWidgetChat, makeGroupAutoSend, vars
<1> QED
  BY <1>1, <1>2, <1>3, <1>4, <1>5

(* The total counts the chats, not the messages *)
LEMMA CountOfChats ==
  ASSUME NEW store, NEW new, new.chat = store.chat
  PROVE  queryFromSesstionsUnReadCount(new) = queryFromSesstionsUnReadCount(store)
BY Zenon DEF queryFromSesstionsUnReadCount

(* BadgeMirrorsTables: whichever screen writes an unread count, the badge   *)
(* on the tab is the total of the table or a redraw is on the main queue.  *)
THEOREM BadgeNeverForgotten == Spec => []BadgeMirrorsTables
<1>1. Init => BadgeMirrorsTables
  BY DEF Init, BadgeMirrorsTables
<1>2. BadgeMirrorsTables /\ IInv /\ [Next]_vars => BadgeMirrorsTables'
  BY NextKeepsBadge, CountOfChats DEF BadgeStep, BadgeMirrorsTables
<1> QED
  BY <1>1, <1>2, IInvHolds, PTL DEF Spec

-----------------------------------------------------------------------------
(* The timers that nobody sees *)

(* The rooms a step leaves ticking unseen were unseen before it *)
TimersStep == UnseenOf(stack', dropped') \subseteq UnseenOf(stack, dropped)

(* Popping to the root stops the timer on top, and drops the screens, or    *)
(* keeps those below as they were.                                         *)
LEMMA PoppedTimers ==
  ASSUME IInv, NEW b \in delayed, poppedToRoot(b)
  PROVE  TimersStep
<1>1. StackOK(stack)
  BY DEF IInv, IndicesOK
<1>2. CASE UNCHANGED <<stack, dropped>>
  BY <1>2 DEF TimersStep
<1>3. CASE stack' = <<>>
  BY <1>3 DEF TimersStep, UnseenOf
<1>4. CASE stack' = Hidden(stack)
  <2>1. /\ DOMAIN Hidden(stack) = DOMAIN stack
        /\ \A i \in DOMAIN stack : Hidden(stack)[i].ticking => i \in UnseenOf(stack, dropped)
    BY <1>1, HiddenChats DEF SameChats
  <2> QED
    BY <1>4, <2>1 DEF TimersStep, UnseenOf
<1> QED
  BY <1>2, <1>3, <1>4 DEF poppedToRoot

(* Every step but the removal of a screen and the completion of a picker *)
LEMMA NextTimers ==
  ASSUME IInv, ModalOK, [Next]_vars, ~didFinishPickingPhotos,
         ~ \E b \in delayed : forwardRemoved(b) /\ b.host # 0
  PROVE  TimersStep
<1>1. StackOK(stack)
  BY DEF IInv, IndicesOK
<1>2. CASE UNCHANGED dropped /\ SameChats(stack, stack')
  BY <1>2, SameTimers DEF TimersStep
<1>3. CASE UNCHANGED dropped /\ CoveringStep
  <2>1. PICK screen : ~screen.ticking /\ stack' = Pushed(stack, screen)
    BY <1>3 DEF CoveringStep
  <2>2. UnseenOf(Pushed(stack, screen), dropped) \subseteq UnseenOf(stack, dropped)
    BY <1>1, <2>1, PushedChats
  <2> QED
    BY Zenon, <1>3, <2>1, <2>2 DEF TimersStep
<1>4. CASE UNCHANGED <<stack, dropped>>
  BY <1>4 DEF TimersStep
<1>5. CASE keyboardDidFinish
  <2>1. Top \in DOMAIN stack /\ stack[Top].kind = "room" /\ OnScreen(Top)
    BY <1>5, OnTopOK DEF keyboardDidFinish, OnScreen
  <2>2. makeChatMessage(Top) /\ UNCHANGED dropped
    BY <1>5 DEF keyboardDidFinish, makeChatMessage
  <2>3. UnseenOf(stack', dropped) \subseteq UnseenOf(stack, dropped)
    BY <2>1, <2>2, SendingChats
  <2> QED
    BY <2>2, <2>3 DEF TimersStep
<1>6. CASE User \/ \E i \in DOMAIN stack : makeGroupAutoSend(i)
  <2>1. UNCHANGED dropped
    BY <1>6 DEF User, didSelectRow, pushChatInfo, PushScreen, handleDeleteSesstionAtRow,
         didMenuDelete, forwardAction, saveEditing, keyboardDidFinish, openImagePicker,
         didFinishPickingPhotos, makeChatMessage, exitGroupAlert, exitGroupChat, cancel,
         messageForward, popViewController, didTapAvatar, sendButton, editNickName,
         readAllAction, makeGroupAutoSend
  <2> QED
    BY <1>2, <1>3, <1>5, <1>6, <2>1, StayingChats
<1>7. CASE beginCacheMessage
  BY <1>2, <1>7, StoringChats DEF beginCacheMessage
<1>8. CASE openWidgetChat \/ \E b \in delayed : forwardFires(b) /\ b.host # 0
  BY <1>3, <1>8, Covering DEF openWidgetChat, forwardFires
<1>9. CASE popEnds
  <2>1. stack # <<>> /\ stack' = Front(stack) /\ dropped' = dropped
    BY <1>9 DEF popEnds, IInv, IndicesOK
  <2> QED
    BY <1>1, <2>1, FrontTimers DEF TimersStep
<1>10. CASE deinit \/ relaunch
  BY <1>10 DEF deinit, relaunch, TimersStep, UnseenOf
<1>11. CASE \E b \in delayed : poppedToRoot(b)
  BY <1>11, PoppedTimers
<1>12. CASE \E b \in delayed : (forwardFires(b) \/ forwardRemoved(b)) /\ b.host = 0
  BY <1>4, <1>12 DEF forwardFires, forwardRemoved
<1>13. CASE showSessionBadge \/ UNCHANGED vars
  BY <1>4, <1>13 DEF showSessionBadge, vars
<1> QED
  BY <1>6, <1>7, <1>8, <1>9, <1>10, <1>11, <1>12, <1>13 DEF Next, Running, System

(* There are finitely many screens *)
LEMMA FiniteTimers ==
  ASSUME NEW s \in Seq(Screen), NEW d
  PROVE  IsFiniteSet(UnseenOf(s, d))
<1>1. UnseenOf(s, d) \subseteq 1 .. Len(s) /\ Len(s) \in Nat
  BY DEF UnseenOf
<1>2. IsFiniteSet(1 .. Len(s))
  BY <1>1, FS_Interval
<1> QED
  BY <1>1, <1>2, FS_Subset

(* removeControllerWithName moves the rooms above the screen it takes out,  *)
(* each with its timer: no more of them tick unseen than before.           *)
LEMMA MovedTimers ==
  ASSUME IInv, NEW b \in delayed, forwardRemoved(b), b.host # 0
  PROVE  Cardinality(UnseenOf(stack', dropped')) <= Cardinality(UnseenOf(stack, dropped))
<1>1. PICK d \in DOMAIN stack :
        d > dropped /\ stack[d].kind = "forward" /\ stack' = RemoveAt(stack, d)
  BY DEF forwardRemoved, IsFirstForward
<1>2. StackOK(stack) /\ stack \in Seq(Screen) /\ dropped \in Nat /\ dropped' = dropped
  BY DEF IInv, IndicesOK, StackOK, ScalarsOK, forwardRemoved
<1> DEFINE old  == UnseenOf(stack, dropped)
           new  == UnseenOf(stack', dropped)
           move == [i \in old |-> Shifted(i, d)]
           come == {move[i] : i \in old}
<1>3. IsFiniteSet(old)
  BY <1>2, FiniteTimers
<1>4. new \subseteq come
  <2>1. ASSUME NEW j \in new PROVE j \in come
    <3>1. \E i \in old : Shifted(i, d) = j
      BY <1>1, <1>2, RemovedTimers
    <3> QED
      BY <3>1
  <2> QED
    BY <2>1
<1>5. move \in Surjection(old, come)
  BY DEF Surjection
<1> HIDE DEF old, new, move, come
<1>6. IsFiniteSet(come) /\ Cardinality(come) <= Cardinality(old)
  BY <1>3, <1>5, FS_Surjection
<1>7. /\ IsFiniteSet(new) /\ Cardinality(new) <= Cardinality(come)
      /\ Cardinality(new) \in Nat /\ Cardinality(come) \in Nat /\ Cardinality(old) \in Nat
  BY <1>3, <1>4, <1>6, FS_Subset, FS_CardinalityType
<1> QED
  BY <1>2, <1>6, <1>7 DEF old, new

(* OnlyPickersTickUnseen: covered, uncovered, popped, moved down, left or   *)
(* dropped all at once, no screen leaves a running timer behind; only the  *)
(* completion of a picker starts one where nobody sees it.                 *)
THEOREM OnlyPickersLeaveTimers == Spec => OnlyPickersTickUnseen
<1>1. /\ Unseen = UnseenOf(stack, dropped)
      /\ Unseen' = UnseenOf(stack', dropped')
  BY DEF Unseen, UnseenOf, OnScreen, Top
<1>2. ASSUME IInv, ModalOK, [Next]_vars, ~didFinishPickingPhotos
      PROVE  ~(Cardinality(Unseen') > Cardinality(Unseen))
  <2>1. stack \in Seq(Screen) /\ IsFiniteSet(Unseen) /\ Cardinality(Unseen) \in Nat
    <3>1. stack \in Seq(Screen)
      BY <1>2 DEF IInv, IndicesOK, StackOK
    <3> QED
      BY <1>1, <3>1, FiniteTimers, FS_CardinalityType
  <2>2. CASE TimersStep
    <3>1. Unseen' \subseteq Unseen
      BY <1>1, <2>2 DEF TimersStep
    <3>2. Cardinality(Unseen') <= Cardinality(Unseen) /\ Cardinality(Unseen') \in Nat
      BY <2>1, <3>1, FS_Subset, FS_CardinalityType
    <3> QED
      BY <2>1, <3>2
  <2>3. CASE \E b \in delayed : forwardRemoved(b) /\ b.host # 0
    <3>1. Cardinality(Unseen') <= Cardinality(Unseen)
      BY <1>1, <1>2, <2>3, MovedTimers
    <3>2. stack' \in Seq(Screen)
      BY <1>2, <2>3, ForwardRemoved DEF IInv, IndicesOK, StackOK
    <3>3. Cardinality(Unseen') \in Nat
      BY <1>1, <3>2, FiniteTimers, FS_CardinalityType
    <3> QED
      BY <2>1, <3>1, <3>3
  <2> QED
    BY <1>2, <2>2, <2>3, NextTimers
<1>3. IInv /\ ModalOK /\ [Next]_vars =>
        [Cardinality(Unseen') > Cardinality(Unseen) => didFinishPickingPhotos]_vars
  BY <1>2
<1> QED
  BY IInvHolds, <1>3, PTL DEF Spec, OnlyPickersTickUnseen

-----------------------------------------------------------------------------
(* Messages without a session *)

(* No chat of the table lists a message of this chatId *)
Sessionless(store, chatId) ==
  chatId = 0 \/ \A c \in store.chat : c.uid # chatId

(* A write that will refresh nothing, since its room has no chat, is the    *)
(* write of a message that no session shows                                *)
Orphans(store, stk, tasks) ==
  \A k \in DOMAIN tasks :
    ModelAt(stk, tasks[k].room).uid = 0 => Sessionless(store, tasks[k].chatId)

(* No chat comes back that could list it *)
LEMMA StaysSessionless ==
  ASSUME NEW store, NEW new, NoNewUid(store, new), NEW chatId, Sessionless(store, chatId)
  PROVE  Sessionless(new, chatId)
BY DEF NoNewUid, Sessionless

(* Storing it changes no session *)
LEMMA NoSessionChanges ==
  ASSUME NEW store \in Store, NEW chatId, NEW chatType, NEW stamp,
         Sessionless(store, chatId)
  PROVE  qureyFromLastSesstions(insertFromMessage(store, chatId, chatType, stamp)) =
         qureyFromLastSesstions(store)
<1> DEFINE row == [id |-> store.messageSeq + 1, chatId |-> chatId,
                   chatType |-> chatType, stamp |-> stamp]
           new == insertFromMessage(store, chatId, chatType, stamp)
<1>1. new.message = store.message \cup {row} /\ new.chat = store.chat
  BY InsertAddsLast, MessagesLeaveChats
<1>2. row.chatId = chatId
  OBVIOUS
<1> HIDE DEF row, new
<1>3. ASSUME NEW c \in store.chat
      PROVE  qureyFromMessagesWithChatId(new, c.uid) = qureyFromMessagesWithChatId(store, c.uid)
  <2>1. row.chatId # c.uid \/ c.uid = 0
    BY <1>2 DEF Sessionless
  <2> QED
    BY <1>1, <2>1 DEF qureyFromMessagesWithChatId
<1>4. qureyFromLastSesstions(new) = qureyFromLastSesstions(store)
  BY Zenon, <1>1, <1>3 DEF qureyFromLastSesstions
<1> QED
  BY <1>4 DEF new

(* An object without a uid was read for a chat that is not there *)
LEMMA NotFound ==
  ASSUME NEW store \in Store, OneRowPerUid(store), NEW uid,
         qureyFromChatId(store, uid).uid = 0
  PROVE  Sessionless(store, uid)
<1> DEFINE dbData == queryChatFromAllChats(store, uid)
<1>1. CASE dbData = {}
  BY <1>1 DEF queryChatFromAllChats, Sessionless
<1>2. CASE dbData # {}
  <2>1. PICK c \in dbData : TRUE
    BY <1>2
  <2>2. c.id \in Nat /\ \A e \in dbData : e = c
    BY <2>1 DEF OneRowPerUid, queryChatFromAllChats, Store, ChatModel
  <2>3. \A e \in dbData : c.id <= e.id
    BY <2>2
  <2>4. qureyFromChatId(store, uid) \in dbData
    BY <1>2, <2>3 DEF qureyFromChatId
  <2> QED
    BY <2>4 DEF queryChatFromAllChats, Sessionless
<1> QED
  BY <1>1, <1>2

(* Writes that wait for the same rooms, wherever these are now *)
LEMMA MovedOrphans ==
  ASSUME NEW store, NEW stk, NEW tasks, Orphans(store, stk, tasks),
         NEW new, NoNewUid(store, new), NEW s, NEW t,
         \A k \in DOMAIN t : \E l \in DOMAIN tasks :
           /\ t[k].chatId = tasks[l].chatId
           /\ ModelAt(s, t[k].room).uid = ModelAt(stk, tasks[l].room).uid
  PROVE  Orphans(new, s, t)
BY StaysSessionless DEF Orphans

(* The same writes, and the same chats in the stack *)
LEMMA SameOrphans ==
  ASSUME IInv, Orphans(db, stack, outbox), NoNewUid(db, db'),
         \A i \in DOMAIN stack : ModelAt(stack', i).uid = ModelAt(stack, i).uid
  PROVE  Orphans(db', stack', outbox)
<1>1. \A k \in DOMAIN outbox : outbox[k].room \in DOMAIN stack
  BY DEF IInv, IndicesOK, OutboxOK
<1> QED
  BY <1>1, MovedOrphans

(* And new ones behind them *)
LEMMA MoreOrphans ==
  ASSUME IInv, Orphans(db', stack', outbox), NEW tasks \in Seq(Task),
         outbox' = Deferred(tasks),
         \A k \in DOMAIN tasks :
           ModelAt(stack', tasks[k].room).uid = 0 => Sessionless(db', tasks[k].chatId)
  PROVE  Orphans(db', stack', outbox')
<1>1. outbox \in Seq(Task)
  BY DEF IInv, IndicesOK, OutboxOK
<1>2. /\ DOMAIN outbox' = 1 .. Len(outbox) + Len(tasks)
      /\ \A k \in 1 .. Len(outbox) + Len(tasks) :
           outbox'[k] = IF k <= Len(outbox) THEN outbox[k] ELSE tasks[k - Len(outbox)]
  BY <1>1, ConcatProperties DEF Deferred
<1>3. ASSUME NEW k \in DOMAIN outbox'
      PROVE  \/ k \in DOMAIN outbox /\ outbox'[k] = outbox[k]
             \/ k - Len(outbox) \in DOMAIN tasks /\ outbox'[k] = tasks[k - Len(outbox)]
  BY <1>1, <1>2
<1> QED
  BY <1>3 DEF Orphans

-----------------------------------------------------------------------------
(* Steps that change the outbox *)

(* A room writes its messages under the uid of its chat *)
LEMMA SendingOrphans ==
  ASSUME IInv, Orphans(db, stack, outbox),
         Sending \/ \E i \in DOMAIN stack : makeGroupAutoSend(i)
  PROVE  Orphans(db', stack', outbox')
<1>1. db' = db /\ NoNewUid(db, db')
  BY DEF Sending, makeChatMessage, makeGroupAutoSend, NoNewUid
<1>2. StackOK(stack)
  BY DEF IInv, IndicesOK
<1>3. \A i \in DOMAIN stack : ModelAt(stack', i).uid = ModelAt(stack, i).uid
  <2>1. CASE Sending
    BY <2>1, SendingChats DEF Sending
  <2>2. CASE \E i \in DOMAIN stack : makeGroupAutoSend(i)
    <3>1. SameChats(stack, stack')
      BY <1>2, <2>2, ReloadChats DEF makeGroupAutoSend
    <3> QED
      BY <1>2, <3>1, SameModels
  <2> QED
    BY <2>1, <2>2
<1>4. Orphans(db', stack', outbox)
  BY <1>1, <1>3, SameOrphans
<1>5. PICK stk, i, n : /\ StackOK(stk) /\ i \in DOMAIN stk /\ n \in {1, 2}
                       /\ reloadChatData(stk, i, n)
  BY MessagesComeFromRooms
<1> DEFINE model == ModelAt(stk, i)
           tasks == [k \in 1 .. n |-> [room |-> i, stamp |-> sent + k,
                       chatId |-> model.uid, chatType |-> model.chatType,
                       unseen |-> ~OnScreen(i)]]
<1>6. ModelAt(stack', i).uid = model.uid
  BY <1>5, ReloadChats, SameModels
<1>7. model \in ChatModel /\ i \in Nat /\ sent \in Nat
  BY <1>5, ModelAtType DEF StackOK, IInv, ScalarsOK
<1>8. ASSUME NEW k \in 1 .. n PROVE tasks[k] \in Task
  <2> HIDE DEF model
  <2>1. sent + k \in Nat
    BY <1>7
  <2>2. model.uid \in Nat /\ model.chatType \in 0 .. 2
    BY <1>7 DEF ChatModel
  <2>3. (~OnScreen(i)) \in BOOLEAN
    BY Zenon
  <2> QED
    BY Zenon, <1>7, <2>1, <2>2, <2>3 DEF Task
<1>9. /\ tasks \in Seq(Task) /\ DOMAIN tasks = 1 .. n
      /\ \A k \in 1 .. n : tasks[k].room = i /\ tasks[k].chatId = model.uid
  BY <1>5, <1>8
<1>10. outbox' = Deferred(tasks)
  BY <1>5 DEF reloadChatData
<1> HIDE DEF tasks, model
<1>11. \A k \in DOMAIN tasks :
         ModelAt(stack', tasks[k].room).uid = 0 => Sessionless(db', tasks[k].chatId)
  BY <1>6, <1>9 DEF Sessionless
<1> QED
  BY <1>4, <1>9, <1>10, <1>11, MoreOrphans

(* A forward reads its chat again: if it has gone, nobody lists its messages *)
LEMMA ForwardFiresOrphans ==
  ASSUME IInv, Orphans(db, stack, outbox), NEW b \in delayed, forwardFires(b)
  PROVE  Orphans(db', stack', outbox')
<1>1. CASE UNCHANGED <<db, stack, outbox>>
  BY <1>1 DEF Orphans
<1>2. CASE b.host # 0
  <2> DEFINE chat  == qureyFromChatId(db, b.target)
             items == loadCacheData(db, chat, {[id |-> 0, stamp |-> sent + 1]})
             room  == [NewScreen("room", chat) EXCEPT !.items = items]
             task  == [room |-> Top + 1, stamp |-> sent + 1, chatId |-> b.target,
                       chatType |-> b.chatType, unseen |-> FALSE]
  <2>1. /\ StackOK(stack) /\ stack \in Seq(Screen) /\ Top \in Nat /\ sent \in Nat
        /\ b \in Block /\ db \in Store /\ OneRowPerUid(db)
    BY DEF IInv, IndicesOK, StackOK, DelayedOK, ScalarsOK, Top
  <2>2. stack' = Pushed(stack, room) /\ outbox' = Deferred(<<task>>) /\ db' = db
    BY <1>2 DEF forwardFires
  <2>3. ~room.shared /\ room.model = chat
    <3> HIDE DEF items, chat
    <3> QED
      BY DEF NewScreen
  <2>4. <<task>> \in Seq(Task) /\ task.room = Top + 1 /\ task.chatId = b.target
    BY <2>1 DEF Task, Block
  <2> HIDE DEF items, room, task
  <2>5. Pushed(stack, room)[Top + 1] = room
    <3>1. Hidden(stack) \in Seq(Screen) /\ Len(Hidden(stack)) = Top
      BY <2>1, HiddenShape DEF SameShape, Top
    <3> QED
      BY <2>1, <3>1 DEF Pushed
  <2>6. ModelAt(stack', Top + 1) = chat
    BY <2>2, <2>3, <2>5 DEF ModelAt, Owner
  <2>7. Orphans(db', stack', outbox)
    <3>1. \A i \in DOMAIN stack : ModelAt(stack', i).uid = ModelAt(stack, i).uid
      BY <2>1, <2>2, PushedChats
    <3> QED
      BY <2>2, <3>1, SameOrphans DEF NoNewUid
  <2>8. ModelAt(stack', task.room).uid = 0 => Sessionless(db', task.chatId)
    BY <2>1, <2>2, <2>4, <2>6, NotFound
  <2>9. \A k \in DOMAIN <<task>> : <<task>>[k] = task
    OBVIOUS
  <2> QED
    BY <2>2, <2>4, <2>7, <2>8, <2>9, MoreOrphans
<1> QED
  BY <1>1, <1>2 DEF forwardFires

(* Rooms above the removed screen move down, and their writes with them *)
LEMMA ForwardRemovedOrphans ==
  ASSUME IInv, Orphans(db, stack, outbox), NEW b \in delayed, forwardRemoved(b)
  PROVE  Orphans(db', stack', outbox')
<1>1. CASE UNCHANGED <<db, stack, outbox>>
  BY <1>1 DEF Orphans
<1>2. CASE b.host # 0
  <2>1. PICK d \in DOMAIN stack :
          /\ stack[d].kind = "forward" /\ stack' = RemoveAt(stack, d)
          /\ outbox' = [k \in DOMAIN outbox |-> [outbox[k] EXCEPT !.room = Shifted(@, d)]]
    BY <1>2 DEF forwardRemoved, IsFirstForward
  <2>2. StackOK(stack) /\ OutboxOK(outbox, stack) /\ db' = db
    BY DEF IInv, IndicesOK, forwardRemoved
  <2>3. ASSUME NEW k \in DOMAIN outbox
        PROVE  /\ outbox'[k].chatId = outbox[k].chatId
               /\ ModelAt(stack', outbox'[k].room).uid = ModelAt(stack, outbox[k].room).uid
    <3>1. outbox[k] \in Task /\ outbox[k].room \in DOMAIN stack \ {d}
      BY <2>1, <2>2 DEF OutboxOK
    <3>2. outbox'[k].chatId = outbox[k].chatId /\ outbox'[k].room = Shifted(outbox[k].room, d)
      BY <2>1, <3>1 DEF Task
    <3> QED
      BY <2>1, <2>2, <3>1, <3>2, RemovedChats
  <2>4. DOMAIN outbox' = DOMAIN outbox
    BY <2>1
  <2> QED
    BY <2>2, <2>3, <2>4, MovedOrphans DEF NoNewUid
<1> QED
  BY <1>1, <1>2 DEF forwardRemoved

(* The screen that goes waits for no write, and those below it stay *)
LEMMA PoppedOrphans ==
  ASSUME IInv, Orphans(db, stack, outbox), popEnds
  PROVE  Orphans(db', stack', outbox')
<1>1. /\ StackOK(stack) /\ OutboxOK(outbox, stack) /\ stack # <<>> /\ Top = Len(stack)
      /\ db' = db /\ outbox' = outbox /\ stack' = Front(stack)
  BY DEF IInv, IndicesOK, popEnds, Top
<1>2. ASSUME NEW k \in DOMAIN outbox
      PROVE  ModelAt(stack', outbox[k].room) = ModelAt(stack, outbox[k].room)
  <2> DEFINE r == outbox[k].room
  <2>1. r \in 1 .. Len(stack) - 1
    BY <1>1 DEF popEnds, Drained, OutboxOK, StackOK
  <2>2. stack[r].shared => r - 1 \in 1 .. Len(stack) - 1
    BY <1>1, <2>1 DEF StackOK
  <2>3. \A i \in 1 .. Len(stack) - 1 : stack'[i] = stack[i]
    BY <1>1 DEF Front, StackOK
  <2> QED
    BY <2>1, <2>2, <2>3, SamePlace
<1> QED
  BY <1>1, <1>2, MovedOrphans DEF NoNewUid

(* The oldest write is done *)
LEMMA StoringOrphans ==
  ASSUME IInv, Orphans(db, stack, outbox), beginCacheMessage
  PROVE  Orphans(db', stack', outbox')
<1>1. /\ StackOK(stack) /\ OutboxOK(outbox, stack) /\ outbox # <<>>
      /\ outbox' = Tail(outbox)
  BY DEF IInv, IndicesOK, beginCacheMessage
<1>2. \A i \in DOMAIN stack : ModelAt(stack', i).uid = ModelAt(stack, i).uid
  BY <1>1, StoringChats, SameModels
<1>3. NoNewUid(db, db')
  BY StoringBringsNoUid
<1>4. Orphans(db', stack', outbox)
  BY <1>2, <1>3, SameOrphans
<1>5. \A k \in DOMAIN outbox' : k + 1 \in DOMAIN outbox /\ outbox'[k] = outbox[k + 1]
  BY <1>1 DEF OutboxOK
<1> QED
  BY <1>4, <1>5 DEF Orphans

(* Every step *)
LEMMA NextOrphans ==
  Orphans(db, stack, outbox) /\ IInv /\ ModalOK /\ [Next]_vars
    => Orphans(db', stack', outbox')
<1> SUFFICES ASSUME Orphans(db, stack, outbox), IInv, ModalOK, [Next]_vars
             PROVE  Orphans(db', stack', outbox')
  OBVIOUS
<1>1. StackOK(stack) /\ NoNewUid(db, db')
  BY NextBringsNoUid DEF IInv, IndicesOK
<1>2. CASE outbox' = <<>>
  BY <1>2 DEF Orphans
<1>3. CASE UNCHANGED outbox /\ (SameChats(stack, stack') \/ CoveringStep)
  <2>1. \A i \in DOMAIN stack : ModelAt(stack', i).uid = ModelAt(stack, i).uid
    <3>1. CASE SameChats(stack, stack')
      BY <1>1, <3>1, SameModels
    <3>2. CASE CoveringStep
      <4>1. PICK screen : stack' = Pushed(stack, screen)
        BY <3>2 DEF CoveringStep
      <4>2. \A i \in DOMAIN stack :
              ModelAt(Pushed(stack, screen), i).uid = ModelAt(stack, i).uid
        BY <1>1, PushedChats
      <4> QED
        BY Zenon, <4>1, <4>2
    <3> QED
      BY <1>3, <3>1, <3>2
  <2> QED
    BY <1>1, <1>3, <2>1, SameOrphans
<1>4. CASE Sending \/ \E i \in DOMAIN stack : makeGroupAutoSend(i)
  BY <1>4, SendingOrphans
<1>5. CASE User
  <2>1. Sending \/ (~keyboardDidFinish /\ ~didFinishPickingPhotos /\ UNCHANGED outbox)
    BY <1>5, UserIsQuiet, SendersAreRooms DEF QuietStep
  <2> QED
    BY <1>3, <1>4, <1>5, <2>1, StayingChats
<1>6. CASE beginCacheMessage
  BY <1>6, StoringOrphans
<1>7. CASE openWidgetChat
  BY <1>3, <1>7, Covering DEF openWidgetChat
<1>8. CASE UNCHANGED <<stack, outbox>>
  BY <1>3, <1>8, Unchanged
<1>9. CASE \E b \in delayed : forwardFires(b) \/ forwardRemoved(b)
  BY <1>9, ForwardFiresOrphans, ForwardRemovedOrphans
<1>10. CASE popEnds
  BY <1>10, PoppedOrphans
<1>11. CASE relaunch \/ deinit
  BY <1>2, <1>11, NothingHeld DEF relaunch, deinit
<1>12. CASE \E b \in delayed : poppedToRoot(b)
  <2>1. \/ UNCHANGED <<stack, outbox>>
        \/ UNCHANGED outbox /\ stack' = Hidden(stack)
        \/ UNCHANGED outbox /\ ~Held(Hidden(stack))
    BY <1>12 DEF poppedToRoot
  <2> QED
    BY <1>1, <1>2, <1>3, <1>8, <2>1, HiddenChats, NothingHeld
<1> QED
  BY <1>4, <1>5, <1>6, <1>7, <1>8, <1>9, <1>10, <1>11, <1>12
  DEF Next, Running, System, showSessionBadge, vars

-----------------------------------------------------------------------------
(* The session list *)

(* The list is read again, or what it is read from stays, or a message is   *)
(* stored that no session shows                                            *)
LEMMA NextSessions ==
  Orphans(db, stack, outbox) /\ SessionsMirrorTables /\ IInv /\ [Next]_vars
    => SessionsMirrorTables'
<1> SUFFICES ASSUME Orphans(db, stack, outbox), SessionsMirrorTables, IInv, [Next]_vars
             PROVE  SessionsMirrorTables'
  OBVIOUS
<1>1. CASE sessions' = qureyFromLastSesstions(db')
  BY <1>1 DEF SessionsMirrorTables
<1>2. CASE UNCHANGED <<db, sessions>>
  BY <1>2 DEF SessionsMirrorTables
<1>3. CASE beginCacheMessage
  <2> DEFINE task   == Head(outbox)
             stored == insertFromMessage(db, task.chatId, task.chatType, task.stamp)
             chat   == [ModelAt(stack, task.room) EXCEPT
                          !.unReadCount = stack[task.room].badge + 1]
  <2>1. /\ db \in Store /\ StackOK(stack) /\ OutboxOK(outbox, stack) /\ outbox # <<>>
    BY <1>3 DEF IInv, IndicesOK, beginCacheMessage
  <2>2. task = outbox[1] /\ 1 \in DOMAIN outbox /\ task.room \in DOMAIN stack
    BY <2>1 DEF OutboxOK
  <2>3. chat.uid = ModelAt(stack, task.room).uid
    <3>1. ModelAt(stack, task.room) \in ChatModel
      BY <2>1, <2>2, ModelAtType
    <3> QED
      BY <3>1 DEF ChatModel
  <2>4. \/ sessions' = qureyFromLastSesstions(db')
        \/ chat.uid = 0 /\ db' = stored /\ UNCHANGED sessions
    BY <1>3 DEF beginCacheMessage, reloadSesstionData
  <2> HIDE DEF chat
  <2>5. CASE chat.uid = 0 /\ db' = stored /\ UNCHANGED sessions
    <3>1. Sessionless(db, task.chatId)
      BY <2>2, <2>3, <2>5 DEF Orphans
    <3>2. qureyFromLastSesstions(stored) = qureyFromLastSesstions(db)
      BY <2>1, <3>1, NoSessionChanges
    <3> HIDE DEF stored
    <3> QED
      BY <2>5, <3>2 DEF SessionsMirrorTables
  <2> QED
    BY <1>1, <2>4, <2>5
<1>4. ASSUME NEW uid, didSelectRow(uid) PROVE SessionsMirrorTables'
  BY <1>1, <1>2, <1>4 DEF didSelectRow, clearCurrentBadge, reloadSesstionData
<1>5. CASE \/ \E uid : handleDeleteSesstionAtRow(uid) \/ \E item : didMenuDelete(item)
           \/ \E name : saveEditing(name)
           \/ exitGroupChat \/ readAllAction \/ relaunch
  <2>1. CASE relaunch
    BY <1>1, <2>1 DEF relaunch, reloadSesstionData
  <2>2. CASE ~relaunch
    BY <1>1, <1>5, <2>2 DEF handleDeleteSesstionAtRow, didMenuDelete, saveEditing,
                            exitGroupChat, readAllAction, reloadSesstionData
  <2> QED
    BY <2>1, <2>2
<1>6. \/ UNCHANGED <<db, sessions>> \/ beginCacheMessage \/ \E uid : didSelectRow(uid)
      \/ \E uid : handleDeleteSesstionAtRow(uid) \/ \E item : didMenuDelete(item)
      \/ \E name : saveEditing(name)
      \/ exitGroupChat \/ readAllAction \/ relaunch
  BY DEF Next, Running, User, System, PushScreen, pushChatInfo, forwardAction,
         keyboardDidFinish, openImagePicker, didFinishPickingPhotos, makeChatMessage,
         exitGroupAlert, cancel, messageForward, popViewController, didTapAvatar,
         sendButton, editNickName, showSessionBadge, popEnds, deinit, forwardFires,
         forwardRemoved, poppedToRoot, openWidgetChat, makeGroupAutoSend, vars
<1> QED
  BY <1>2, <1>3, <1>4, <1>5, <1>6

(* At the start there is no message, hence no session *)
LEMMA InitSessions == Init => SessionsMirrorTables /\ Orphans(db, stack, outbox)
<1> SUFFICES ASSUME Init PROVE SessionsMirrorTables /\ Orphans(db, stack, outbox)
  OBVIOUS
<1>1. db.message = {} /\ outbox = <<>> /\ sessions = {}
  BY DEF Init
<1>2. \A uid : qureyFromMessagesWithChatId(db, uid) = {}
  BY <1>1 DEF qureyFromMessagesWithChatId
<1>3. qureyFromLastSesstions(db) = {}
  BY Zenon, <1>2 DEF qureyFromLastSesstions
<1> QED
  BY <1>1, <1>3 DEF SessionsMirrorTables, Orphans

(* SessionsMirrorTables: the list is the tables after every turn.  A room   *)
(* whose chat has gone posts no notification when it writes a message, and *)
(* needs none: no chat of the table can list that message any more.        *)
THEOREM SessionsNeverStale == Spec => []SessionsMirrorTables
<1> DEFINE Inv == SessionsMirrorTables /\ Orphans(db, stack, outbox)
<1>1. Init => Inv
  BY InitSessions
<1>2. Inv /\ IInv /\ ModalOK /\ [Next]_vars => Inv'
  <2>1. Orphans(db, stack, outbox) /\ IInv /\ ModalOK /\ [Next]_vars
          => Orphans(db, stack, outbox)'
    BY NextOrphans DEF Orphans, ModelAt, Owner, Sessionless
  <2> QED
    BY <2>1, NextSessions
<1>3. Inv => SessionsMirrorTables
  OBVIOUS
<1> HIDE DEF Inv
<1> QED
  BY <1>1, <1>2, <1>3, IInvHolds, PTL DEF Spec

-----------------------------------------------------------------------------
(* The items that rooms show *)

Shown(stk) == UNION {stk[i].items : i \in DOMAIN stk}

Loaded(store) == {[id |-> r.id, stamp |-> r.stamp] : r \in store.message}

(* An item knows no key that was not given, and none of another message *)
ItemOK(store, item) ==
  /\ item.id <= store.messageSeq
  /\ \A r \in store.message : item.id = r.id => item.stamp = r.stamp

ItemsOK(store, stk) == \A item \in Shown(stk) : ItemOK(store, item)

(* A room that is read again shows rows of the table *)
LEMMA LoadedItems ==
  ASSUME NEW store, NEW model, NEW items
  PROVE  loadCacheData(store, model, items) \subseteq items \cup Loaded(store)
BY DEF loadCacheData, qureyFromMessagesWithChatId, Loaded

(* One screen of the stack has changed *)
LEMMA ChangedItems ==
  ASSUME NEW s, NEW i \in DOMAIN s, NEW screen
  PROVE  Shown([s EXCEPT ![i] = screen]) \subseteq Shown(s) \cup screen.items
BY DEF Shown

(* It shows other items, or it shows the same *)
LEMMA UpdatedItems ==
  ASSUME NEW s, StackOK(s), NEW i \in DOMAIN s, NEW x
  PROVE  /\ Shown([s EXCEPT ![i].items = x]) \subseteq Shown(s) \cup x
         /\ Shown([s EXCEPT ![i].badge = x]) \subseteq Shown(s)
         /\ Shown([s EXCEPT ![i].model = x]) \subseteq Shown(s)
<1> DEFINE screen == s[i]
<1>1. screen \in Screen
  BY DEF StackOK
<1>2. /\ [screen EXCEPT !.items = x].items = x
      /\ [screen EXCEPT !.badge = x].items = screen.items
      /\ [screen EXCEPT !.model = x].items = screen.items
  <2> HIDE DEF screen
  <2> QED
    BY Zenon, <1>1 DEF Screen
<1>3. screen.items \subseteq Shown(s)
  BY DEF Shown
<1>4. /\ Shown([s EXCEPT ![i] = [screen EXCEPT !.items = x]]) \subseteq Shown(s) \cup x
      /\ Shown([s EXCEPT ![i] = [screen EXCEPT !.badge = x]]) \subseteq Shown(s)
      /\ Shown([s EXCEPT ![i] = [screen EXCEPT !.model = x]]) \subseteq Shown(s)
  <2> HIDE DEF screen
  <2> QED
    BY <1>2, <1>3, ChangedItems
<1> QED
  BY <1>4

(* viewDidDisappear *)
LEMMA HiddenItems ==
  ASSUME NEW s, StackOK(s)
  PROVE  Shown(Hidden(s)) \subseteq Shown(s)
<1>1. CASE s = <<>> \/ Len(s) = dropped
  <2>1. Hidden(s) = s
    <3>1. CASE s = <<>> /\ Len(s) # dropped
      <4>1. \A x : [<<>> EXCEPT ![0].ticking = x] = <<>>
        OBVIOUS
      <4> QED
        BY <3>1, <4>1 DEF Hidden
    <3> QED
      BY <1>1, <3>1 DEF Hidden
  <2> QED
    BY <2>1
<1>2. CASE s # <<>> /\ Len(s) # dropped
  <2> DEFINE stopped == [s[Len(s)] EXCEPT !.ticking = FALSE]
  <2>1. Len(s) \in DOMAIN s /\ s[Len(s)] \in Screen
    BY <1>2 DEF StackOK
  <2>2. stopped.items = s[Len(s)].items /\ s[Len(s)].items \subseteq Shown(s)
    BY Zenon, <2>1 DEF Screen, Shown
  <2>3. Hidden(s) = [s EXCEPT ![Len(s)] = stopped]
    BY <1>2 DEF Hidden
  <2> HIDE DEF stopped
  <2>4. Shown([s EXCEPT ![Len(s)] = stopped]) \subseteq Shown(s)
    BY <2>1, <2>2, ChangedItems
  <2> QED
    BY Zenon, <2>3, <2>4
<1> QED
  BY <1>1, <1>2

(* A push *)
LEMMA PushedItems ==
  ASSUME NEW s, StackOK(s), NEW screen
  PROVE  Shown(Pushed(s, screen)) \subseteq Shown(s) \cup screen.items
<1> DEFINE h == Hidden(s)
           t == Pushed(s, screen)
<1>1. h \in Seq(Screen) /\ Shown(h) \subseteq Shown(s)
  BY HiddenShape, HiddenItems
<1>2. \A i \in DOMAIN t : \/ t[i] = screen
                          \/ i \in DOMAIN h /\ t[i] = h[i]
  BY <1>1 DEF Pushed
<1> QED
  BY <1>1, <1>2 DEF Shown

(* A pop *)
LEMMA FrontItems ==
  ASSUME NEW s, StackOK(s), s # <<>>
  PROVE  Shown(Front(s)) \subseteq Shown(s)
<1>1. s \in Seq(Screen)
  BY DEF StackOK
<1>2. \A i \in DOMAIN Front(s) : i \in DOMAIN s /\ Front(s)[i] = s[i]
  BY <1>1 DEF Front
<1> QED
  BY <1>2 DEF Shown

(* removeControllerWithName *)
LEMMA RemovedItems ==
  ASSUME NEW s, StackOK(s), NEW d \in DOMAIN s
  PROVE  Shown(RemoveAt(s, d)) \subseteq Shown(s)
<1> DEFINE below == SubSeq(s, 1, d - 1)
           above == SubSeq(s, d + 1, Len(s))
<1>1. s \in Seq(Screen) /\ Len(s) \in Nat /\ d \in 1 .. Len(s)
  BY DEF StackOK
<1>2. /\ below \in Seq(Screen) /\ \A i \in DOMAIN below : i \in DOMAIN s /\ below[i] = s[i]
      /\ above \in Seq(Screen)
      /\ \A i \in DOMAIN above : d + i \in DOMAIN s /\ above[i] = s[d + i]
  BY <1>1
<1>3. RemoveAt(s, d) = below \o above
  BY DEF RemoveAt
<1> HIDE DEF below, above
<1>4. \A i \in DOMAIN (below \o above) :
        \/ i \in DOMAIN below /\ (below \o above)[i] = below[i]
        \/ /\ i - Len(below) \in DOMAIN above
           /\ (below \o above)[i] = above[i - Len(below)]
  BY <1>2
<1> QED
  BY <1>2, <1>3, <1>4 DEF Shown

-----------------------------------------------------------------------------
(* Where items come from *)

(* A step shows what was shown, rows of the table, and new messages *)
ItemsStep ==
  \A item \in Shown(stack') :
    item \in Shown(stack) \cup Loaded(db) \cup Loaded(db') \/ item.id = 0

(* It gives the rows it adds new keys *)
RowsStep ==
  /\ db'.messageSeq >= db.messageSeq
  /\ \A r \in db'.message : r \in db.message \/ r.id > db.messageSeq

(* The rows of a table in order know their own keys *)
LEMMA LoadedOK ==
  ASSUME NEW store \in Store, \A r \in store.message : r.id <= store.messageSeq,
         \A r, e \in store.message : r.id < e.id <=> r.stamp < e.stamp
  PROVE  \A item \in Loaded(store) : ItemOK(store, item)
<1>1. ASSUME NEW r \in store.message PROVE r.id \in Nat /\ r.stamp \in Nat
  BY DEF Store, MessageRow
<1>2. ASSUME NEW r \in store.message, NEW e \in store.message, r.id = e.id
      PROVE  r.stamp = e.stamp
  <2>1. ~(r.id < e.id) /\ ~(e.id < r.id)
    BY <1>1, <1>2
  <2>2. ~(r.stamp < e.stamp) /\ ~(e.stamp < r.stamp)
    BY <2>1
  <2> QED
    BY <1>1, <2>2
<1>3. ASSUME NEW item \in Loaded(store)
      PROVE  \E r \in store.message : item.id = r.id /\ item.stamp = r.stamp
  BY DEF Loaded
<1> QED
  BY <1>2, <1>3 DEF ItemOK

(* Together they keep the items right *)
LEMMA ItemsKept ==
  ASSUME IInv, OrderInv, IInv', OrderInv', ItemsOK(db, stack), ItemsStep, RowsStep
  PROVE  ItemsOK(db', stack')
<1> SUFFICES ASSUME NEW item \in Shown(stack') PROVE ItemOK(db', item)
  BY DEF ItemsOK
<1>1. /\ db \in Store /\ db' \in Store
      /\ db.messageSeq \in Nat /\ db'.messageSeq \in Nat
      /\ \A r \in db'.message : r.id \in Nat \ {0}
  BY DEF IInv, Store, MessageRow
<1>2. \A old \in Loaded(db) : ItemOK(db, old)
  BY <1>1, LoadedOK DEF OrderInv, StoredInSendOrder
<1>3. \A new \in Loaded(db') : ItemOK(db', new)
  BY <1>1, LoadedOK DEF OrderInv, StoredInSendOrder
<1>4. CASE item.id = 0
  BY <1>1, <1>4 DEF ItemOK
<1>5. CASE ItemOK(db, item) /\ item \in Shown(stack')
  <2>1. item.id \in Nat
    <3>1. PICK i \in DOMAIN stack' : item \in (stack'[i]).items
      BY DEF Shown
    <3>2. stack'[i] \in Screen
      BY DEF IInv, IndicesOK, StackOK
    <3> QED
      BY <3>1, <3>2 DEF Screen, Item
  <2>2. item.id <= db'.messageSeq
    BY <1>1, <1>5, <2>1 DEF ItemOK, RowsStep
  <2>3. ASSUME NEW r \in db'.message, item.id = r.id PROVE item.stamp = r.stamp
    <3>1. ~(r.id > db.messageSeq)
      BY <1>1, <1>5, <2>3 DEF ItemOK
    <3> QED
      BY <1>5, <2>3, <3>1 DEF ItemOK, RowsStep
  <2> QED
    BY <2>2, <2>3 DEF ItemOK
<1> QED
  BY <1>2, <1>3, <1>4, <1>5 DEF ItemsStep, ItemsOK

(* A screen is pushed that shows rows, or nothing *)
LEMMA PushedStepItems ==
  ASSUME IInv, NEW screen, stack' = Pushed(stack, screen),
         \A item \in screen.items : item \in Loaded(db) \/ item.id = 0
  PROVE  ItemsStep
<1>1. Shown(stack') \subseteq Shown(stack) \cup screen.items
  BY PushedItems DEF IInv, IndicesOK
<1> QED
  BY <1>1 DEF ItemsStep

(* The screens that are pushed *)
LEMMA CoveringItems ==
  ASSUME IInv,
         \/ \E uid : didSelectRow(uid) \/ pushChatInfo(uid)
         \/ openWidgetChat \/ messageForward \/ didTapAvatar
         \/ sendButton \/ editNickName
         \/ \E b \in delayed : forwardFires(b) /\ b.host # 0
  PROVE  ItemsStep
<1>1. \A kind, model : NewScreen(kind, model).items = {}
  BY DEF NewScreen
<1>2. \A model : NewRoom(db, model).items \subseteq Loaded(db)
  <2> SUFFICES ASSUME NEW model PROVE NewRoom(db, model).items \subseteq Loaded(db)
    OBVIOUS
  <2> DEFINE items == loadCacheData(db, model, {})
  <2>1. NewRoom(db, model).items = items
    <3> HIDE DEF items
    <3>1. [NewScreen("room", model) EXCEPT !.items = items].items = items
      BY DEF NewScreen
    <3> QED
      BY <3>1 DEF NewRoom, items
  <2> QED
    BY <2>1, LoadedItems
<1>3. CASE \/ \E uid : didSelectRow(uid) \/ pushChatInfo(uid)
           \/ openWidgetChat \/ didTapAvatar
  <2>1. \/ \E kind, model : stack' = Pushed(stack, NewScreen(kind, model))
        \/ \E model : stack' = Pushed(stack, NewRoom(db, model))
    BY Zenon, <1>3 DEF didSelectRow, pushChatInfo, openWidgetChat, didTapAvatar, PushScreen
  <2> QED
    BY <1>1, <1>2, <2>1, PushedStepItems
<1>4. CASE messageForward
  <2> DEFINE chatType == ModelAt(stack, Top).chatType
             listed   == {c.uid : c \in qureyFromChatsWithType(db, chatType)}
             blank    == NewScreen("forward", [EmptyChat EXCEPT !.chatType = chatType])
             screen   == [blank EXCEPT !.targets = listed]
  <2>1. stack' = Pushed(stack, screen)
    BY <1>4 DEF messageForward
  <2>2. screen.items = {}
    BY DEF NewScreen
  <2> HIDE DEF screen
  <2> QED
    BY <2>1, <2>2, PushedStepItems
<1>5. CASE sendButton
  <2> DEFINE room   == NewRoom(db, ModelAt(stack, Top))
             screen == [room EXCEPT !.shared = TRUE, !.model = EmptyChat]
  <2>1. stack' = Pushed(stack, screen)
    BY <1>5 DEF sendButton, PushScreen
  <2>2. screen.items = room.items
    BY DEF NewRoom, NewScreen
  <2>3. room.items \subseteq Loaded(db)
    BY <1>2
  <2> HIDE DEF room, screen
  <2> QED
    BY <2>1, <2>2, <2>3, PushedStepItems
<1>6. CASE editNickName
  <2> DEFINE screen == [NewScreen("edit", EmptyChat) EXCEPT !.shared = TRUE]
  <2>1. stack' = Pushed(stack, screen)
    BY <1>6 DEF editNickName, PushScreen
  <2>2. screen.items = {}
    BY DEF NewScreen
  <2> HIDE DEF screen
  <2> QED
    BY <2>1, <2>2, PushedStepItems
<1>7. CASE \E b \in delayed : forwardFires(b) /\ b.host # 0
  <2>1. PICK b \in delayed : forwardFires(b) /\ b.host # 0
    BY <1>7
  <2> DEFINE chat   == qureyFromChatId(db, b.target)
             new    == [id |-> 0, stamp |-> sent + 1]
             items  == loadCacheData(db, chat, {new})
             screen == [NewScreen("room", chat) EXCEPT !.items = items]
  <2>2. stack' = Pushed(stack, screen)
    BY <2>1 DEF forwardFires
  <2>3. items \subseteq {new} \cup Loaded(db) /\ new.id = 0
    BY LoadedItems
  <2> HIDE DEF items, new
  <2>4. screen.items = items
    BY DEF NewScreen
  <2> HIDE DEF screen
  <2> QED
    BY <2>2, <2>3, <2>4, PushedStepItems
<1> QED
  BY <1>3, <1>4, <1>5, <1>6, <1>7

(* New messages have no key *)
LEMMA SendingItems ==
  ASSUME IInv, Sending \/ \E i \in DOMAIN stack : makeGroupAutoSend(i)
  PROVE  ItemsStep
<1>1. StackOK(stack)
  BY DEF IInv, IndicesOK
<1>2. ASSUME NEW stk, StackOK(stk), Shown(stk) \subseteq Shown(stack),
             NEW i \in DOMAIN stk, NEW n, reloadChatData(stk, i, n)
      PROVE  ItemsStep
  <2> DEFINE new   == {[id |-> 0, stamp |-> s] : s \in sent + 1 .. sent + n}
             items == stk[i].items \cup new
  <2>1. stack' = [stk EXCEPT ![i].items = items]
    BY <1>2 DEF reloadChatData
  <2>2. (\A item \in new : item.id = 0) /\ stk[i].items \subseteq Shown(stk)
    BY DEF Shown
  <2>3. Shown([stk EXCEPT ![i].items = items]) \subseteq Shown(stk) \cup items
    <3> HIDE DEF items
    <3> QED
      BY <1>2, UpdatedItems
  <2>4. Shown(stack') \subseteq Shown(stk) \cup items
    BY Zenon, <2>1, <2>3
  <2> HIDE DEF new
  <2> QED
    BY <1>2, <2>2, <2>4 DEF ItemsStep
<1>3. CASE \E i \in DOMAIN stack : makeGroupAutoSend(i)
  BY <1>1, <1>2, <1>3 DEF makeGroupAutoSend
<1>4. CASE Sending
  <2> PICK i \in DOMAIN stack : stack[i].kind = "room" /\ makeChatMessage(i)
    BY <1>4 DEF Sending
  <2> DEFINE started == [stack[i] EXCEPT !.isTimered = TRUE, !.ticking = TRUE]
             stk     == [stack EXCEPT ![i] = started]
  <2>1. stack[i] \in Screen /\ ScreenOK(stack[i]) /\ stack \in Seq(Screen)
    BY <1>1 DEF StackOK
  <2>2. reloadChatData(stack, i, 1) \/ reloadChatData(stk, i, 2)
    <3>1. stk = [stack EXCEPT ![i].isTimered = TRUE, ![i].ticking = TRUE]
      BY <2>1
    <3> QED
      BY <3>1 DEF makeChatMessage
  <2>3. /\ started \in Screen /\ ScreenOK(started) /\ started.kind = stack[i].kind
        /\ started.shared = stack[i].shared /\ started.items = stack[i].items
    BY Zenon, <2>1 DEF Screen, ScreenOK
  <2> HIDE DEF started
  <2>4. stk \in Seq(Screen) /\ SameShape(stack, stk)
    BY <1>1, <2>1, <2>3, ChangedScreenShape
  <2>5. Shown(stk) \subseteq Shown(stack)
    <3>1. started.items \subseteq Shown(stack)
      BY <2>3 DEF Shown
    <3> QED
      BY <3>1, ChangedItems
  <2>6. i \in DOMAIN stk
    BY <2>1
  <2> HIDE DEF stk
  <2>7. StackOK(stk)
    BY <1>1, <2>4, ShapeIsEnough
  <2> QED
    BY <1>1, <1>2, <2>2, <2>5, <2>6, <2>7
<1> QED
  BY <1>3, <1>4

(* The deferred write changes no items *)
LEMMA StoringItems ==
  ASSUME IInv, beginCacheMessage
  PROVE  ItemsStep
<1> DEFINE r     == Head(outbox).room
           o     == Owner(stack, r)
           badge == stack[r].badge + 1
           chat  == [ModelAt(stack, r) EXCEPT !.unReadCount = badge]
           mid   == [stack EXCEPT ![r].badge = badge]
           last  == [mid EXCEPT ![o].model = chat]
<1>1. StackOK(stack) /\ stack \in Seq(Screen) /\ r \in DOMAIN stack /\ stack[r] \in Screen
  <2>1. /\ StackOK(stack) /\ OutboxOK(outbox, stack) /\ outbox # <<>>
        /\ stack \in Seq(Screen)
    BY DEF IInv, IndicesOK, StackOK, beginCacheMessage
  <2>2. r \in DOMAIN stack
    BY <2>1 DEF OutboxOK
  <2> QED
    BY <2>1, <2>2
<1> HIDE DEF r
<1>2. o \in DOMAIN stack
  BY <1>1, ModelAtType
<1>3. mid \in Seq(Screen) /\ SameShape(stack, mid)
  <2>1. badge \in Nat /\ {} \in SUBSET Item /\ EmptyChat \in ChatModel
    BY <1>1, EmptyChatType DEF Screen
  <2> HIDE DEF badge
  <2> QED
    BY <1>1, <2>1, UpdatedStack
<1>4. Shown(mid) \subseteq Shown(stack) /\ o \in DOMAIN mid
  <2> HIDE DEF badge, o
  <2> QED
    BY <1>1, <1>2, UpdatedItems
<1>5. stack' = mid \/ stack' = last
  BY DEF beginCacheMessage, r
<1> HIDE DEF mid, o, chat
<1>6. StackOK(mid)
  BY <1>1, <1>3, ShapeIsEnough
<1>7. Shown(last) \subseteq Shown(mid)
  BY <1>4, <1>6, UpdatedItems
<1> HIDE DEF last
<1> QED
  BY <1>4, <1>5, <1>7 DEF ItemsStep

(* Deleting a message reads the table again *)
LEMMA DeletingItems ==
  ASSUME IInv, NEW item, didMenuDelete(item)
  PROVE  ItemsStep
<1> DEFINE kept  == stack[Top].items \ {item}
           items == loadCacheData(db', ModelAt(stack, Top), kept)
<1>1. StackOK(stack) /\ Top \in DOMAIN stack
  BY OnTopOK DEF IInv, IndicesOK, didMenuDelete
<1>2. stack' = [stack EXCEPT ![Top].items = items]
  BY DEF didMenuDelete
<1>3. items \subseteq kept \cup Loaded(db') /\ kept \subseteq Shown(stack)
  BY <1>1, LoadedItems DEF Shown
<1> HIDE DEF items, kept
<1>4. Shown(stack') \subseteq Shown(stack) \cup items
  BY <1>1, <1>2, UpdatedItems
<1> QED
  BY <1>3, <1>4 DEF ItemsStep

(* Saving a nickname changes a model *)
LEMMA SavingItems ==
  ASSUME IInv, NEW name, saveEditing(name)
  PROVE  ItemsStep
<1> DEFINE o     == Owner(stack, Top)
           model == [ModelAt(stack, Top) EXCEPT !.nickName = name]
<1>1. StackOK(stack) /\ Top \in DOMAIN stack
  BY OnTopOK DEF IInv, IndicesOK, saveEditing
<1>2. o \in DOMAIN stack /\ stack' = [stack EXCEPT ![o].model = model]
  BY <1>1, ModelAtType DEF saveEditing
<1> HIDE DEF o, model
<1>3. Shown(stack') \subseteq Shown(stack)
  BY <1>1, <1>2, UpdatedItems
<1> QED
  BY <1>3 DEF ItemsStep

(* Every step *)
LEMMA NextItemsStep == IInv /\ ModalOK /\ [Next]_vars => ItemsStep
<1> SUFFICES ASSUME IInv, ModalOK, [Next]_vars PROVE ItemsStep
  OBVIOUS
<1>1. StackOK(stack)
  BY DEF IInv, IndicesOK
<1>2. CASE Shown(stack') \subseteq Shown(stack)
  BY <1>2 DEF ItemsStep
<1>3. CASE UNCHANGED stack \/ stack' = <<>> \/ stack' = Hidden(stack)
  <2>1. Shown(<<>>) = {}
    BY DEF Shown
  <2> QED
    BY <1>1, <1>2, <1>3, <2>1, HiddenItems
<1>4. CASE exitGroupChat
  <2> DEFINE room    == modal.room
             stopped == [stack[room] EXCEPT !.ticking = FALSE]
  <2>1. room \in DOMAIN stack /\ stack[room] \in Screen
    BY <1>1, <1>4 DEF exitGroupChat, ModalOK, NoModal, StackOK
  <2>2. stopped.items = stack[room].items /\ stack[room].items \subseteq Shown(stack)
    BY Zenon, <2>1 DEF Screen, Shown
  <2>3. stack' = [stack EXCEPT ![room] = stopped]
    BY <1>4 DEF exitGroupChat
  <2> HIDE DEF stopped, room
  <2> QED
    BY <1>2, <2>1, <2>2, <2>3, ChangedItems
<1>5. CASE popEnds
  <2>1. stack # <<>> /\ stack' = Front(stack)
    BY <1>5 DEF popEnds, IInv, IndicesOK
  <2> QED
    BY <1>1, <1>2, <2>1, FrontItems
<1>6. CASE \E b \in delayed : forwardRemoved(b) /\ b.host # 0
  <2>1. \E d \in DOMAIN stack : stack' = RemoveAt(stack, d)
    BY <1>6 DEF forwardRemoved
  <2> QED
    BY <1>1, <1>2, <2>1, RemovedItems
<1>7. CASE \/ beginCacheMessage \/ keyboardDidFinish \/ didFinishPickingPhotos
           \/ \E i \in DOMAIN stack : makeGroupAutoSend(i)
  BY <1>7, StoringItems, SendingItems, SendersAreRooms
<1>8. CASE (\E item : didMenuDelete(item)) \/ (\E name : saveEditing(name))
  BY <1>8, DeletingItems, SavingItems
<1>9. CASE \/ \E uid : didSelectRow(uid) \/ pushChatInfo(uid)
           \/ openWidgetChat \/ messageForward \/ didTapAvatar
           \/ sendButton \/ editNickName
           \/ \E b \in delayed : forwardFires(b) /\ b.host # 0
  BY <1>9, CoveringItems
<1>10. CASE User
  BY <1>3, <1>4, <1>7, <1>8, <1>9, <1>10
  DEF User, handleDeleteSesstionAtRow, forwardAction, popViewController, readAllAction,
      openImagePicker, exitGroupAlert, cancel
<1>11. CASE \/ showSessionBadge \/ deinit \/ relaunch \/ UNCHANGED vars
            \/ \E b \in delayed : poppedToRoot(b)
  BY <1>3, <1>11 DEF showSessionBadge, deinit, relaunch, poppedToRoot, vars
<1>12. CASE \E b \in delayed : (forwardFires(b) \/ forwardRemoved(b)) /\ b.host = 0
  BY <1>3, <1>12 DEF forwardFires, forwardRemoved
<1> QED
  BY <1>6, <1>7, <1>9, <1>10, <1>5, <1>11, <1>12 DEF Next, Running, System

-----------------------------------------------------------------------------
(* Keys *)

LEMMA NextRowsStep == IInv /\ [Next]_vars => RowsStep
<1> SUFFICES ASSUME IInv, [Next]_vars PROVE RowsStep
  OBVIOUS
<1>1. db \in Store /\ db.messageSeq \in Nat
  BY DEF IInv, Store
<1>2. CASE QuietStep
  BY <1>1, <1>2 DEF QuietStep, RowsStep
<1>3. CASE UNCHANGED db
  BY <1>1, <1>3 DEF RowsStep
<1>4. CASE beginCacheMessage
  <2> DEFINE task   == Head(outbox)
             stored == insertFromMessage(db, task.chatId, task.chatType, task.stamp)
             row    == [id |-> db.messageSeq + 1, chatId |-> task.chatId,
                        chatType |-> task.chatType, stamp |-> task.stamp]
  <2>1. task \in Task
    BY <1>4 DEF beginCacheMessage, IInv, IndicesOK, OutboxOK
  <2>2. stored.message = db.message \cup {row} /\ stored.messageSeq = db.messageSeq + 1
    BY <1>1, InsertAddsLast
  <2>3. stored \in Store
    BY <1>1, <2>1, InsertFromMessageType DEF Task
  <2>4. \/ db' = stored
        \/ \E chat : db' = updateFromChatModel(stored, chat, chat.uid)
    BY <1>4 DEF beginCacheMessage
  <2>5. row.id = db.messageSeq + 1
    OBVIOUS
  <2> HIDE DEF stored, row
  <2>6. db'.message = db.message \cup {row} /\ db'.messageSeq = db.messageSeq + 1
    BY <2>2, <2>3, <2>4, UpdateKeepsMessages
  <2> QED
    BY <1>1, <2>5, <2>6 DEF RowsStep
<1>5. CASE User
  <2>1. keyboardDidFinish \/ didFinishPickingPhotos => UNCHANGED db
    BY DEF keyboardDidFinish, didFinishPickingPhotos, makeChatMessage
  <2> QED
    BY <1>2, <1>3, <1>5, <2>1, UserIsQuiet
<1> QED
  BY <1>3, <1>4, <1>5
  DEF Next, Running, System, showSessionBadge, popEnds, deinit, forwardFires,
      forwardRemoved, poppedToRoot, openWidgetChat, makeGroupAutoSend, relaunch, vars

(* ItemKeysAgree: however long a room was covered, and whatever was deleted *)
(* and stored meanwhile, the keys it holds are those of its own messages,  *)
(* so that its 删除 deletes the message that was tapped.                     *)
THEOREM ItemsKnowTheirKeys == Spec => []ItemKeysAgree
<1>1. Spec => [](OrderInv /\ IInv /\ ModalOK)
  BY InitOrderInv, NextOrderInv, IInvHolds, PTL DEF Spec
<1>2. Init => ItemsOK(db, stack)
  <2>1. Init => stack = <<>>
    BY DEF Init
  <2>2. Shown(<<>>) = {}
    BY DEF Shown
  <2> QED
    BY <2>1, <2>2 DEF ItemsOK
<1>3. /\ ItemsOK(db, stack) /\ OrderInv /\ IInv /\ ModalOK /\ (OrderInv /\ IInv)'
      /\ [Next]_vars
      => ItemsOK(db, stack)'
  <2>1. ItemsOK(db, stack)' <=> ItemsOK(db', stack')
    BY DEF ItemsOK, ItemOK, Shown
  <2> QED
    BY <2>1, ItemsKept, NextItemsStep, NextRowsStep
<1>4. ItemsOK(db, stack) => ItemKeysAgree
  BY DEF ItemsOK, ItemOK, Shown, ItemKeysAgree
<1> QED
  BY <1>1, <1>2, <1>3, <1>4, PTL DEF Spec

=============================================================================
