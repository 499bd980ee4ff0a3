--------------------------- MODULE DatabaseProofs ---------------------------
(* What the queries of Database return and what its writes preserve, for    *)
(* every store: the lemmas that proofs about the components above it cite. *)
EXTENDS Database, TLAPS

(* A uid names at most one row of the chat table *)
OneRowPerUid(store) ==
  \A c, e \in store.chat : c.uid = e.uid => c = e

-----------------------------------------------------------------------------
(* Writes stay within the types of the columns *)

(* A stored message fits its columns *)
LEMMA InsertFromMessageType ==
  ASSUME NEW store \in Store, NEW chatId \in Nat, NEW chatType \in 0 .. 2,
         NEW stamp \in Nat
  PROVE  insertFromMessage(store, chatId, chatType, stamp) \in Store
<1>1. NextMessageId(store) \in Nat \ {0}
  BY DEF NextMessageId, Store
<1>2. [id |-> NextMessageId(store), chatId |-> chatId, chatType |-> chatType,
       stamp |-> stamp] \in MessageRow
  BY <1>1 DEF MessageRow
<1> QED
  BY <1>1, <1>2 DEF insertFromMessage, Store

(* Deleting messages leaves a store *)
LEMMA DeleteMessagesType ==
  ASSUME NEW store \in Store, NEW x
  PROVE  /\ deleteFromMessageId(store, x) \in Store
         /\ deleteFromMessagesWithType(store, x) \in Store
         /\ deleteFromMesssageWithId(store, x) \in Store
BY DEF deleteFromMessageId, deleteFromMessagesWithType,
       deleteFromMesssageWithId, Store

(* Deleting chats leaves a store *)
LEMMA DeleteChatsType ==
  ASSUME NEW store \in Store, NEW x
  PROVE  /\ deleteFromChatsWithType(store, x) \in Store
         /\ deleteFromChatWithId(store, x) \in Store
BY DEF deleteFromChatsWithType, deleteFromChatWithId, Store

(* Writing a chat object back leaves a store *)
LEMMA UpdateFromChatModelType ==
  ASSUME NEW store \in Store, NEW chat \in ChatModel, NEW uid
  PROVE  updateFromChatModel(store, chat, uid) \in Store
BY DEF updateFromChatModel, queryChatFromAllChats, Store

-----------------------------------------------------------------------------
(* One row per uid *)

(* An update writes an object under its own uid *)
LEMMA UpdateKeepsOneRow ==
  ASSUME NEW store, OneRowPerUid(store), store \in Store, NEW chat \in ChatModel
  PROVE  OneRowPerUid(updateFromChatModel(store, chat, chat.uid))
<1> DEFINE hits == queryChatFromAllChats(store, chat.uid)
           new  == updateFromChatModel(store, chat, chat.uid)
<1>1. CASE new = store
  BY <1>1
<1>2. CASE new = [store EXCEPT !.chat = (@ \ hits) \cup {chat}]
  <2>1. new.chat = (store.chat \ hits) \cup {chat}
    BY <1>2 DEF Store
  <2>2. \A c \in store.chat \ hits : c.uid # chat.uid
    BY DEF queryChatFromAllChats
  <2> QED
    BY <2>1, <2>2 DEF OneRowPerUid
<1>3. new = store \/ new = [store EXCEPT !.chat = (@ \ hits) \cup {chat}]
  BY DEF updateFromChatModel
<1> QED
  BY <1>1, <1>2, <1>3

(* A deletion adds no row *)
LEMMA DeleteKeepsOneRow ==
  ASSUME NEW store \in Store, OneRowPerUid(store), NEW x
  PROVE  /\ OneRowPerUid(deleteFromChatWithId(store, x))
         /\ OneRowPerUid(deleteFromMesssageWithId(store, x))
         /\ OneRowPerUid(deleteFromMessageId(store, x))
BY DEF OneRowPerUid, deleteFromChatWithId, deleteFromMesssageWithId,
       deleteFromMessageId, Store

(* qureyFromChatId returns the row, or the object without a uid *)
LEMMA QureyFromChatIdType ==
  ASSUME NEW store \in Store, OneRowPerUid(store), NEW uid
  PROVE  /\ qureyFromChatId(store, uid) \in ChatModel
         /\ qureyFromChatId(store, uid) \in store.chat
              \/ qureyFromChatId(store, uid) = EmptyChat
<1> DEFINE dbData == queryChatFromAllChats(store, uid)
<1>1. CASE dbData = {}
  <2>1. EmptyChat \in ChatModel
    BY DEF EmptyChat, ChatModel, NickName
  <2> QED
    BY <1>1, <2>1 DEF qureyFromChatId
<1>2. CASE dbData # {}
  <2>1. PICK c \in dbData : TRUE
    BY <1>2
  <2>2. \A e \in dbData : e = c
    BY DEF OneRowPerUid, queryChatFromAllChats
  <2>3. c \in store.chat /\ c \in ChatModel
    BY DEF queryChatFromAllChats, Store
  <2>4. c.id <= c.id
    BY <2>3 DEF ChatModel
  <2>5. \E d \in dbData : \A e \in dbData : d.id <= e.id
    BY <2>1, <2>2, <2>4
  <2>6. qureyFromChatId(store, uid) \in dbData
    BY <1>2, <2>5 DEF qureyFromChatId
  <2> QED
    BY <2>2, <2>3, <2>6
<1> QED
  BY <1>1, <1>2

-----------------------------------------------------------------------------
(* The message table under writes of either table *)

(* Writing a chat back touches no message *)
LEMMA UpdateKeepsMessages ==
  ASSUME NEW store \in Store, NEW chat, NEW uid
  PROVE  /\ updateFromChatModel(store, chat, uid).message = store.message
         /\ updateFromChatModel(store, chat, uid).messageSeq = store.messageSeq
BY DEF updateFromChatModel, Store

(* Deleting a chat touches no message *)
LEMMA DeleteChatKeepsMessages ==
  ASSUME NEW store \in Store, NEW uid
  PROVE  /\ deleteFromChatWithId(store, uid).message = store.message
         /\ deleteFromChatWithId(store, uid).messageSeq = store.messageSeq
BY DEF deleteFromChatWithId, Store

(* Deleting messages leaves some of the rows, and never gives a key back *)
LEMMA DeleteLeavesRows ==
  ASSUME NEW store \in Store, NEW x
  PROVE  /\ deleteFromMessageId(store, x).message \subseteq store.message
         /\ deleteFromMessageId(store, x).messageSeq = store.messageSeq
         /\ deleteFromMesssageWithId(store, x).message \subseteq store.message
         /\ deleteFromMesssageWithId(store, x).messageSeq = store.messageSeq
BY DEF deleteFromMessageId, deleteFromMesssageWithId, Store

(* A stored message has the key after the last one *)
LEMMA InsertAddsLast ==
  ASSUME NEW store \in Store, NEW chatId, NEW chatType, NEW stamp
  PROVE  LET new == insertFromMessage(store, chatId, chatType, stamp)
         IN  /\ new.messageSeq = store.messageSeq + 1
             /\ new.message = store.message \cup
                  {[id |-> store.messageSeq + 1, chatId |-> chatId,
                    chatType |-> chatType, stamp |-> stamp]}
BY DEF insertFromMessage, NextMessageId, Store

=============================================================================
