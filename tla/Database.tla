------------------------------ MODULE Database ------------------------------
(***************************************************************************)
(* The SQLite tables of JetChat and the queries of FYDBQueryHelper.        *)
(*                                                                         *)
(* A store is a record of two tables and their AUTOINCREMENT counters.     *)
(* Every helper of the code is an operator that takes a store and returns  *)
(* a store (a write) or rows (a query), so that a handler that calls       *)
(* several helpers composes them in the order it calls them.  WCDB runs    *)
(* each statement on the calling thread and reports an error only to the   *)
(* log: a failed statement leaves the store as it was.                     *)
(*                                                                         *)
(* Abstractions: 0 is the nil of an optional number; an avatar, a name and *)
(* a body are left out; "stamp" stands for the content of a message (every *)
(* message object the app creates has its own).                            *)
(***************************************************************************)
EXTENDS Naturals, FiniteSets, FiniteSetsExt

CONSTANTS
  NickNames,      \* the nicknames a user may type
  NoNickName      \* nil: no nickname was ever saved

ASSUME NoNickNameAssumption == NoNickName \notin NickNames

SingleChat  == 1
GroupedChat == 2

NickName == NickNames \cup {NoNickName}

(* FYMessageChatModel: a row of the chat table, and the object read from it *)
ChatModel == [id: Nat, uid: Nat, chatType: 0 .. 2, unReadCount: Nat,
              nickName: NickName]

(* FYMessageItem: a row of the message table *)
MessageRow == [id: Nat \ {0}, chatId: Nat, chatType: 0 .. 2, stamp: Nat]

Store == [chat: SUBSET ChatModel, message: SUBSET MessageRow,
          chatSeq: Nat, messageSeq: Nat]

(* FYMessageChatModel(): what qureyFromChatId returns when no row matches *)
EmptyChat == [id |-> 0, uid |-> 0, chatType |-> 0, unReadCount |-> 0,
              nickName |-> NoNickName]

-----------------------------------------------------------------------------
(* Messages *)

(* Mutant: the rowid of a table without AUTOINCREMENT, which SQLite reuses *)
MessageIdReused(store) == Max({r.id : r \in store.message} \cup {0}) + 1

(* The primary key SQLite gives the next row: AUTOINCREMENT never returns  *)
(* a key it has given before.                                              *)
NextMessageId(store) == store.messageSeq + 1

(* The object carries no messageId, and WCDB does not write the new key    *)
(* back into it: isAutoIncrement is left at its default, false.            *)
insertFromMessage(store, chatId, chatType, stamp) ==
  [store EXCEPT
    !.message = @ \cup {[id |-> NextMessageId(store), chatId |-> chatId,
                         chatType |-> chatType, stamp |-> stamp]},
    !.messageSeq = NextMessageId(store)]

(* NULL never equals a chatId, so a message without one is never returned. *)
qureyFromMessagesWithChatId(store, chatId) ==
  {r \in store.message : r.chatId = chatId /\ chatId # 0}

deleteFromMessageId(store, messageId) ==
  [store EXCEPT !.message = {r \in @ : r.id # messageId}]

deleteFromMessagesWithType(store, chatType) ==
  [store EXCEPT !.message = {r \in @ : r.chatType # chatType}]

deleteFromMesssageWithId(store, chatId) ==
  [store EXCEPT !.message = {r \in @ : r.chatId # chatId}]

-----------------------------------------------------------------------------
(* Friends and groups *)

insertFromChat(store, uid, chatType) ==
  [store EXCEPT
    !.chat = @ \cup {[EmptyChat EXCEPT !.id = store.chatSeq + 1, !.uid = uid,
                                       !.chatType = chatType]},
    !.chatSeq = @ + 1]

queryChatFromAllChats(store, uid) == {c \in store.chat : c.uid = uid}

qureyFromChatsWithType(store, chatType) ==
  {c \in store.chat : c.chatType = chatType}

(* The first of the matching rows, which a table scan meets in key order. *)
qureyFromChatId(store, uid) ==
  LET dbData == queryChatFromAllChats(store, uid)
  IN  IF dbData = {} THEN EmptyChat
      ELSE CHOOSE c \in dbData : \A e \in dbData : c.id <= e.id

(* Mutant: INSERT OR REPLACE where the code has UPDATE *)
updateFromChatModelUpsert(store, chat, uid) ==
  [store EXCEPT !.chat = {c \in @ : c.uid # uid} \cup {chat}]

(* Mutant: the object is inserted under a new key instead *)
updateFromChatModelInsert(store, chat, uid) ==
  [store EXCEPT !.chat = @ \cup {[chat EXCEPT !.id = store.chatSeq + 1]},
                !.chatSeq = @ + 1]

(* UPDATE chat SET <all columns of the object> WHERE uid = ?.  The columns *)
(* include the primary key, so the statement fails, and changes nothing,   *)
(* when two rows match or another row already has the object's key.        *)
updateFromChatModel(store, chat, uid) ==
  LET hits     == queryChatFromAllChats(store, uid)
      conflict == \/ \E c, e \in hits : c # e
                  \/ \E c \in store.chat \ hits : c.id = chat.id
  IN  IF hits = {} \/ conflict
      THEN store
      ELSE [store EXCEPT !.chat = (@ \ hits) \cup {chat}]

deleteFromChatsWithType(store, chatType) ==
  [store EXCEPT !.chat = {c \in @ : c.chatType # chatType}]

deleteFromChatWithId(store, uid) ==
  [store EXCEPT !.chat = {c \in @ : c.uid # uid}]

-----------------------------------------------------------------------------
(* Sessions *)

LastMessage(rows) == CHOOSE r \in rows : \A e \in rows : e.id <= r.id

(* One entry per chat that has a message: the last one, overlaid with the  *)
(* chat's unread count and nickname.  The order of the list is left out:   *)
(* it sorts by a date that two messages of one second share.               *)
qureyFromLastSesstions(store) ==
  {[chatId      |-> c.uid,
    stamp       |-> LastMessage(qureyFromMessagesWithChatId(store, c.uid)).stamp,
    unReadCount |-> c.unReadCount,
    nickName    |-> c.nickName] :
     c \in {e \in store.chat : qureyFromMessagesWithChatId(store, e.uid) # {}}}

queryFromSesstionsUnReadCount(store) ==
  MapThenSumSet(LAMBDA c : c.unReadCount, store.chat)

=============================================================================
