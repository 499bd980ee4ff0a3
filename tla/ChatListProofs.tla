--------------------------- MODULE ChatListProofs ---------------------------
(* The lists of friends and of groups keep what they promise, for any       *)
(* number of chats, of rooms, of blocks that wait and of messages: nothing *)
(* but a late write or a kill leaves a message without its chat; and, until *)
(* a room writes an old key over a group, the uids of the groups are       *)
(* unique and their list mirrors the table.                                *)
EXTENDS ChatList, DatabaseProofs, SequenceTheorems, FiniteSetTheorems

-----------------------------------------------------------------------------
(* Sets of keys, in order *)

(* How many of the keys come up to x *)
Rank(S, x) == Cardinality({y \in S : y <= x})

(* Ranks grow with the keys and stay within their number *)
LEMMA RankGrows ==
  ASSUME NEW S \in SUBSET Nat, IsFiniteSet(S)
  PROVE  /\ \A x \in S : Rank(S, x) \in 1 .. Cardinality(S)
         /\ \A x, z \in S : x < z => Rank(S, x) < Rank(S, z)
<1> DEFINE upTo(x) == {y \in S : y <= x}
<1>1. \A x : IsFiniteSet(upTo(x)) /\ Cardinality(upTo(x)) <= Cardinality(S)
  BY FS_Subset
<1>2. \A x : Cardinality(upTo(x)) \in Nat
  BY <1>1, FS_CardinalityType
<1>3. ASSUME NEW x \in S
      PROVE  Rank(S, x) \in 1 .. Cardinality(S)
  <2>1. x \in upTo(x)
    OBVIOUS
  <2>2. Cardinality(upTo(x)) # 0
    BY <1>1, <2>1, FS_EmptySet
  <2> QED
    BY <1>1, <1>2, <2>2, FS_CardinalityType DEF Rank
<1>4. ASSUME NEW x \in S, NEW z \in S, x < z
      PROVE  Rank(S, x) < Rank(S, z)
  <2>1. z \in upTo(z) /\ upTo(x) \subseteq upTo(z) \ {z}
    <3>1. \A y \in S : y <= x => y <= z /\ y # z
      BY <1>4
    <3>2. z <= z
      OBVIOUS
    <3> QED
      BY <3>1, <3>2, Zenon
  <2>2. /\ IsFiniteSet(upTo(z) \ {z})
        /\ Cardinality(upTo(z) \ {z}) = Cardinality(upTo(z)) - 1
    <3> HIDE DEF upTo
    <3> QED
      BY <1>1, <2>1, FS_RemoveElement
  <2>3. Cardinality(upTo(x)) <= Cardinality(upTo(z) \ {z})
    BY <2>1, <2>2, FS_Subset
  <2> QED
    BY <1>2, <2>2, <2>3 DEF Rank
<1> QED
  BY <1>3, <1>4

(* A key has one rank, and every rank up to the number of keys is the rank *)
(* of one.                                                                 *)
LEMMA NthOf ==
  ASSUME NEW S \in SUBSET Nat, IsFiniteSet(S)
  PROVE  /\ Cardinality(S) \in Nat
         /\ \A k \in 1 .. Cardinality(S) :
              Nth(S, k) \in S /\ Rank(S, Nth(S, k)) = k
         /\ \A x \in S : x = Nth(S, Rank(S, x))
<1> DEFINE n == Cardinality(S)
           f == [x \in S |-> Rank(S, x)]
<1>1. n \in Nat
  BY FS_CardinalityType
<1>2. \A x, z \in S : Rank(S, x) = Rank(S, z) => x = z
  <2> SUFFICES ASSUME NEW x \in S, NEW z \in S, x # z
               PROVE  Rank(S, x) # Rank(S, z)
    OBVIOUS
  <2>1. x < z \/ z < x
    OBVIOUS
  <2>2. Rank(S, x) \in Nat /\ Rank(S, z) \in Nat
    BY <1>1, RankGrows
  <2>3. Rank(S, x) < Rank(S, z) \/ Rank(S, z) < Rank(S, x)
    BY <2>1, RankGrows
  <2> QED
    BY <2>2, <2>3
<1>3. f \in Injection(S, 1 .. n)
  <2>1. f \in [S -> 1 .. n]
    BY RankGrows
  <2>2. \A x, z \in S : f[x] = f[z] => x = z
    BY <1>2
  <2> QED
    BY <2>1, <2>2, SMT DEF Injection, IsInjective
<1>4. IsFiniteSet(1 .. n) /\ Cardinality(1 .. n) = n
  BY <1>1, FS_Interval
<1>5. f \in Surjection(S, 1 .. n)
  BY <1>3, <1>4, FS_Injection
<1>6. \A k \in 1 .. n : \E x \in S : Rank(S, x) = k
  BY <1>5 DEF Surjection
<1>7. \A k \in 1 .. n : Nth(S, k) \in S /\ Rank(S, Nth(S, k)) = k
  BY <1>6, Zenon DEF Nth, Rank
<1>8. \A x \in S : x = Nth(S, Rank(S, x))
  BY <1>2, <1>7, RankGrows
<1> QED
  BY <1>1, <1>7, <1>8

(* A key after all others leaves their ranks alone *)
LEMMA NthAfterAll ==
  ASSUME NEW S \in SUBSET Nat, IsFiniteSet(S), NEW x \in Nat,
         \A y \in S : y < x
  PROVE  /\ Cardinality(S \cup {x}) = Cardinality(S) + 1
         /\ \A k \in 1 .. Cardinality(S) : Nth(S \cup {x}, k) = Nth(S, k)
         /\ Nth(S \cup {x}, Cardinality(S) + 1) = x
<1> DEFINE T == S \cup {x}
<1>1. x \notin S
  OBVIOUS
<1>2. /\ T \in SUBSET Nat /\ IsFiniteSet(T)
      /\ Cardinality(T) = Cardinality(S) + 1
  BY <1>1, FS_AddElement
<1>3. ASSUME NEW k \in 1 .. Cardinality(S)
      PROVE  Nth(T, k) = Nth(S, k)
  <2> DEFINE y == Nth(S, k)
  <2>1. y \in S /\ Rank(S, y) = k
    BY NthOf
  <2>2. {z \in T : z <= y} = {z \in S : z <= y}
    <3>1. y \in Nat /\ y < x
      BY <2>1
    <3>2. ~(x <= y)
      BY <3>1
    <3> QED
      BY <3>2, Zenon
  <2>3. Rank(T, y) = k
    BY <2>1, <2>2 DEF Rank
  <2> QED
    BY <1>2, <2>1, <2>3, NthOf
<1>4. Nth(T, Cardinality(S) + 1) = x
  <2>1. {z \in T : z <= x} = T
    <3>1. \A z \in T : z <= x
      OBVIOUS
    <3> QED
      BY <3>1, Zenon
  <2>2. Rank(T, x) = Cardinality(S) + 1
    BY <1>2, <2>1 DEF Rank
  <2> QED
    BY <1>2, <2>2, NthOf
<1> QED
  BY <1>2, <1>3, <1>4

-----------------------------------------------------------------------------
(* The rows of a table of one list *)

(* A row of the chat table of this list *)
ChatOK(store, c) ==
  c \in ChatModel /\ c.chatType = list /\ c.uid >= FirstUid
    /\ c.id \in 1 .. store.chatSeq

(* The table holds chats of this list alone, under keys that are their own, *)
(* and their messages                                                      *)
TableOK(store) ==
  /\ store \in Store
  /\ IsFiniteSet(store.chat)
  /\ \A c \in store.chat : ChatOK(store, c)
  /\ \A c, e \in store.chat : c.id = e.id => c = e
  /\ \A r \in store.message : r.chatType = list \/ r.chatId = 0

Keys(store) == {c.id : c \in store.chat}

Number(store) == Cardinality(Keys(store))

RowAt(store, k) == CHOOSE c \in store.chat : c.id = Nth(Keys(store), k)

Uids == {uid \in Nat : uid >= FirstUid}

(* A row of the list is the chat that has the key of its place, and every  *)
(* chat has a row.                                                         *)
LEMMA RowsOf ==
  ASSUME NEW store, TableOK(store)
  PROVE  /\ Keys(store) \in SUBSET Nat /\ IsFiniteSet(Keys(store))
         /\ Number(store) \in Nat
         /\ \A k \in 1 .. Number(store) :
              RowAt(store, k) \in store.chat /\ RowAt(store, k).id = Nth(Keys(store), k)
         /\ \A c \in store.chat : \E k \in 1 .. Number(store) : RowAt(store, k) = c
         /\ Rows(store) = [k \in 1 .. Number(store) |-> RowAt(store, k).uid]
         /\ Rows(store) \in Seq(Uids) /\ Len(Rows(store)) = Number(store)
<1> DEFINE f == [c \in store.chat |-> c.id]
<1>1. \A c \in store.chat : c.id \in Nat /\ c.uid \in Uids
  BY DEF TableOK, ChatOK, Store, ChatModel, Uids
<1>2. Keys(store) \in SUBSET Nat /\ IsFiniteSet(Keys(store))
  <2>1. f \in Surjection(store.chat, Keys(store))
    BY DEF Surjection, Keys
  <2>2. IsFiniteSet(Keys(store))
    BY <2>1, FS_Surjection DEF TableOK
  <2> QED
    BY <1>1, <2>2 DEF Keys
<1>3. Number(store) \in Nat
  BY <1>2, NthOf DEF Number
<1>4. ASSUME NEW k \in 1 .. Number(store)
      PROVE  RowAt(store, k) \in store.chat /\ RowAt(store, k).id = Nth(Keys(store), k)
  <2>1. Nth(Keys(store), k) \in Keys(store)
    BY <1>2, NthOf DEF Number
  <2>2. \E c \in store.chat : c.id = Nth(Keys(store), k)
    BY <2>1 DEF Keys
  <2> QED
    BY <2>2, Zenon DEF RowAt
<1>5. ASSUME NEW c \in store.chat
      PROVE  \E k \in 1 .. Number(store) : RowAt(store, k) = c
  <2> DEFINE k == Rank(Keys(store), c.id)
  <2>1. c.id \in Keys(store)
    BY DEF Keys
  <2>2. k \in 1 .. Number(store)
    BY <1>2, <2>1, RankGrows DEF Number
  <2>3. c.id = Nth(Keys(store), k)
    BY <1>2, <2>1, NthOf
  <2>4. RowAt(store, k) = c
    BY <1>4, <2>2, <2>3 DEF TableOK
  <2> QED
    BY <2>2, <2>4
<1>6. Rows(store) = [k \in 1 .. Number(store) |-> RowAt(store, k).uid]
  <2>1. qureyFromChatsWithType(store, list) = store.chat
    BY DEF qureyFromChatsWithType, TableOK, ChatOK
  <2> QED
    BY <2>1 DEF Rows, Number, Keys, RowAt
<1>7. \A k \in 1 .. Number(store) : RowAt(store, k).uid \in Uids
  BY <1>1, <1>4
<1>8. Rows(store) \in Seq(Uids) /\ Len(Rows(store)) = Number(store)
  <2> HIDE DEF Uids
  <2> QED
    BY <1>3, <1>6, <1>7
<1> QED
  BY <1>2, <1>3, <1>4, <1>5, <1>6, <1>8

(* Deletions keep a table *)
LEMMA FewerRows ==
  ASSUME NEW store, TableOK(store), NEW new \in Store,
         new.chat \subseteq store.chat, new.message \subseteq store.message,
         new.chatSeq = store.chatSeq
  PROVE  TableOK(new)
<1>1. IsFiniteSet(new.chat)
  BY FS_Subset DEF TableOK
<1> QED
  BY <1>1 DEF TableOK, ChatOK

(* An empty table has no rows *)
LEMMA NoRows ==
  ASSUME NEW store, TableOK(store), store.chat = {}
  PROVE  Rows(store) = <<>>
<1>1. Keys(store) = {}
  BY DEF Keys
<1>2. Number(store) = 0
  BY <1>1, FS_EmptySet DEF Number
<1> QED
  BY <1>2, RowsOf

(* Two tables whose chats have the same keys and uids have the same rows *)
LEMMA SameRows ==
  ASSUME NEW store, TableOK(store), NEW new, TableOK(new),
         \A c \in store.chat : \E e \in new.chat : e.id = c.id /\ e.uid = c.uid,
         \A e \in new.chat : \E c \in store.chat : e.id = c.id /\ e.uid = c.uid
  PROVE  Rows(new) = Rows(store)
<1>1. Keys(new) = Keys(store)
  BY DEF Keys
<1>2. Number(new) = Number(store)
  BY <1>1 DEF Number
<1>3. ASSUME NEW k \in 1 .. Number(store)
      PROVE  RowAt(new, k).uid = RowAt(store, k).uid
  <2>1. /\ RowAt(store, k) \in store.chat
        /\ RowAt(store, k).id = Nth(Keys(store), k)
    BY RowsOf
  <2>2. /\ RowAt(new, k) \in new.chat
        /\ RowAt(new, k).id = Nth(Keys(store), k)
    BY <1>1, <1>2, RowsOf
  <2>3. PICK c \in store.chat : /\ c.id = RowAt(new, k).id
                                /\ c.uid = RowAt(new, k).uid
    BY <2>2
  <2>4. c = RowAt(store, k)
    BY <2>1, <2>2, <2>3 DEF TableOK
  <2> QED
    BY <2>3, <2>4
<1> QED
  BY <1>2, <1>3, RowsOf

(* The row of a chat that is inserted *)
NewRow(store, uid) == [EmptyChat EXCEPT !.id = store.chatSeq + 1, !.uid = uid,
                                        !.chatType = list]

(* A chat that is inserted is the last row *)
LEMMA InsertAddsRow ==
  ASSUME NEW store, TableOK(store), NEW uid \in Uids, list \in {SingleChat, GroupedChat}
  PROVE  LET new == insertFromChat(store, uid, list)
             row == NewRow(store, uid)
         IN  /\ TableOK(new)
             /\ row \notin store.chat /\ row.uid = uid
             /\ row.id = store.chatSeq + 1
             /\ new.chat = store.chat \cup {row}
             /\ new.message = store.message
             /\ Rows(new) = Append(Rows(store), uid)
<1> DEFINE new == insertFromChat(store, uid, list)
           row == [EmptyChat EXCEPT !.id = store.chatSeq + 1, !.uid = uid,
                                    !.chatType = list]
           n == Number(store)
<1>1. /\ store \in Store /\ store.chatSeq \in Nat
      /\ list \in 0 .. 2
  BY DEF TableOK, Store, SingleChat, GroupedChat
<1>2. /\ row \in ChatModel /\ row.id = store.chatSeq + 1 /\ row.uid = uid
      /\ row.chatType = list
  <2>1. EmptyChat \in ChatModel
    BY DEF EmptyChat, ChatModel, NickName
  <2> DEFINE id == store.chatSeq + 1
  <2>2. id \in Nat /\ uid \in Nat
    BY <1>1 DEF Uids
  <2> HIDE DEF id
  <2> DEFINE r1 == [EmptyChat EXCEPT !.id = id]
             r2 == [r1 EXCEPT !.uid = uid]
             r3 == [r2 EXCEPT !.chatType = list]
  <2>3. r1 \in ChatModel /\ r1.id = id
    BY <2>1, <2>2 DEF ChatModel
  <2> HIDE DEF r1
  <2>4. r2 \in ChatModel /\ r2.id = id /\ r2.uid = uid
    BY <2>2, <2>3 DEF ChatModel
  <2> HIDE DEF r2
  <2>5. r3 \in ChatModel /\ r3.id = id /\ r3.uid = uid /\ r3.chatType = list
    BY <1>1, <2>4 DEF ChatModel
  <2>6. row = r3
    BY Zenon DEF r2, r1, id
  <2> QED
    BY <2>5, <2>6 DEF id
<1> HIDE DEF row
<1>3. /\ new.chat = store.chat \cup {row} /\ new.message = store.message
      /\ new.chatSeq = store.chatSeq + 1 /\ new \in Store
  <2>1. new = [store EXCEPT !.chat = @ \cup {row}, !.chatSeq = @ + 1]
    BY Zenon DEF insertFromChat, row
  <2> HIDE DEF new
  <2>2. /\ new.chat = store.chat \cup {row} /\ new.message = store.message
        /\ new.chatSeq = store.chatSeq + 1
    BY <1>1, <2>1 DEF Store
  <2>3. store.chat \cup {row} \in SUBSET ChatModel /\ store.chatSeq + 1 \in Nat
    BY <1>1, <1>2 DEF Store
  <2>4. new \in Store
    BY <1>1, <2>1, <2>3 DEF Store
  <2> QED
    BY <2>2, <2>4
<1>4. \A c \in store.chat : c.id < row.id
  BY <1>1, <1>2 DEF TableOK, ChatOK
<1> HIDE DEF new
<1>5. TableOK(new)
  <2>1. IsFiniteSet(new.chat)
    BY <1>3, FS_AddElement DEF TableOK
  <2>2. \A c \in new.chat : ChatOK(new, c)
    <3>1. ChatOK(new, row)
      BY <1>1, <1>2, <1>3 DEF ChatOK, Uids
    <3>2. \A c \in store.chat : ChatOK(new, c)
      BY <1>1, <1>3 DEF TableOK, ChatOK
    <3> QED
      BY <1>3, <3>1, <3>2
  <2>3. \A c, e \in new.chat : c.id = e.id => c = e
    <3>1. \A c \in store.chat : c.id # row.id
      BY <1>2, <1>4 DEF TableOK, ChatOK
    <3> QED
      BY <1>3, <3>1 DEF TableOK
  <2> QED
    BY <1>3, <2>1, <2>2, <2>3 DEF TableOK
<1>6. /\ Keys(store) \in SUBSET Nat /\ IsFiniteSet(Keys(store)) /\ n \in Nat
  BY RowsOf
<1>7. Keys(new) = Keys(store) \cup {row.id}
  BY <1>3 DEF Keys
<1>8. /\ Number(new) = n + 1
      /\ \A k \in 1 .. n : Nth(Keys(new), k) = Nth(Keys(store), k)
      /\ Nth(Keys(new), n + 1) = row.id
  <2>1. \A y \in Keys(store) : y < row.id
    BY <1>4 DEF Keys
  <2>2. row.id \in Nat
    BY <1>1, <1>2
  <2> QED
    <3> DEFINE S == Keys(store)
               x == row.id
    <3>1. /\ S \in SUBSET Nat /\ IsFiniteSet(S) /\ x \in Nat
          /\ \A y \in S : y < x
      BY <1>6, <2>1, <2>2
    <3> HIDE DEF S, x
    <3>2. /\ Cardinality(S \cup {x}) = Cardinality(S) + 1
          /\ \A k \in 1 .. Cardinality(S) : Nth(S \cup {x}, k) = Nth(S, k)
          /\ Nth(S \cup {x}, Cardinality(S) + 1) = x
      BY <3>1, NthAfterAll
    <3> QED
      BY <1>7, <3>2, Zenon DEF Number, S, x
<1>9. \A k \in 1 .. n : RowAt(new, k) = RowAt(store, k)
  <2> TAKE k \in 1 .. n
  <2>1. RowAt(store, k) \in store.chat /\ RowAt(store, k).id = Nth(Keys(store), k)
    BY RowsOf
  <2>2. k \in 1 .. Number(new)
    BY <1>6, <1>8
  <2>3. RowAt(new, k) \in new.chat /\ RowAt(new, k).id = Nth(Keys(store), k)
    BY <1>5, <1>8, <2>2, RowsOf
  <2> QED
    BY <1>3, <1>5, <2>1, <2>3 DEF TableOK
<1>10. RowAt(new, n + 1) = row
  <2>1. n + 1 \in 1 .. Number(new)
    BY <1>6, <1>8
  <2>2. RowAt(new, n + 1) \in new.chat /\ RowAt(new, n + 1).id = row.id
    BY <1>5, <1>8, <2>1, RowsOf
  <2> QED
    BY <1>3, <1>5, <2>2 DEF TableOK
<1>11. Rows(new) = Append(Rows(store), uid)
  <2>1. /\ Rows(store) = [k \in 1 .. n |-> RowAt(store, k).uid]
        /\ Rows(store) \in Seq(Uids) /\ Len(Rows(store)) = n
    BY RowsOf
  <2>2. Rows(new) = [k \in 1 .. n + 1 |-> RowAt(new, k).uid]
    BY <1>5, <1>8, RowsOf
  <2>3. \A k \in 1 .. n : Rows(store)[k] = RowAt(new, k).uid
    BY <1>9, <2>1
  <2>4. RowAt(new, n + 1).uid = uid
    BY <1>2, <1>10
  <2>5. Append(Rows(store), uid)
          = [k \in 1 .. n + 1 |-> IF k = n + 1 THEN uid ELSE Rows(store)[k]]
    BY <1>6, <2>1
  <2> QED
    BY <1>6, <2>2, <2>3, <2>4, <2>5
<1>12. row \notin store.chat
  BY <1>1, <1>2, <1>4
<1> QED
  BY <1>2, <1>3, <1>5, <1>11, <1>12 DEF new, row, NewRow

(* A list of uids never holds one whose chat the next query misses: the     *)
(* first of the rows with a uid is one of them.                            *)
LEMMA FirstOf ==
  ASSUME NEW store, TableOK(store), NEW uid,
         queryChatFromAllChats(store, uid) # {}
  PROVE  qureyFromChatId(store, uid) \in queryChatFromAllChats(store, uid)
<1> DEFINE dbData == queryChatFromAllChats(store, uid)
           ids == {c.id : c \in dbData}
<1>1. dbData \subseteq store.chat /\ \A c \in dbData : c.id \in Nat
  BY DEF queryChatFromAllChats, TableOK, Store, ChatModel
<1>2. ids \in SUBSET Nat /\ ids # {}
  BY <1>1
<1>3. PICK x \in ids : \A y \in ids : <<y, x>> \notin OpToRel(<, Nat)
  BY <1>2, WFMin, NatLessThanWellFounded, Zenon
<1>4. \A y \in ids : ~(y < x)
  BY <1>2, <1>3, Zenon DEF OpToRel
<1>5. PICK c \in dbData : c.id = x
  BY <1>3
<1>6. \A e \in dbData : c.id <= e.id
  BY <1>1, <1>4, <1>5
<1>7. \E d \in dbData : \A e \in dbData : d.id <= e.id
  BY <1>6
<1> QED
  BY <1>7, Zenon DEF qureyFromChatId

(* A chat that is read is a row of its uid, or the object without one *)
LEMMA FoundOK ==
  ASSUME NEW store, TableOK(store), NEW uid
  PROVE  LET chat == qureyFromChatId(store, uid)
         IN  \/ chat = EmptyChat
             \/ chat \in store.chat /\ chat.uid = uid /\ ChatOK(store, chat)
<1>1. CASE queryChatFromAllChats(store, uid) = {}
  BY <1>1 DEF qureyFromChatId
<1>2. CASE queryChatFromAllChats(store, uid) # {}
  BY <1>2, FirstOf DEF TableOK, queryChatFromAllChats
<1> QED
  BY <1>1, <1>2

(* A write of a chat under its own uid *)
LEMMA UpdatingKeepsTable ==
  ASSUME NEW store, TableOK(store), NEW chat, ChatOK(store, chat)
  PROVE  LET new == updateFromChatModel(store, chat, chat.uid)
         IN  /\ TableOK(new)
             /\ new.message = store.message /\ new.chatSeq = store.chatSeq
             /\ \A uid : Gone(new, uid) <=> Gone(store, uid)
             /\ (\A c \in store.chat : c.uid = chat.uid => c.id = chat.id)
                  => /\ \A c \in store.chat :
                          \E e \in new.chat : e.id = c.id /\ e.uid = c.uid
                     /\ \A e \in new.chat :
                          \E c \in store.chat : e.id = c.id /\ e.uid = c.uid
<1> DEFINE hits == queryChatFromAllChats(store, chat.uid)
           new  == updateFromChatModel(store, chat, chat.uid)
<1>1. store \in Store /\ chat \in ChatModel
  BY DEF TableOK, ChatOK
<1>2. CASE new = store
  BY <1>2
<1>3. CASE new # store
  <2>1. /\ hits # {} /\ \A c, e \in hits : c = e
        /\ \A c \in store.chat \ hits : c.id # chat.id
        /\ new = [store EXCEPT !.chat = (@ \ hits) \cup {chat}]
    BY <1>3 DEF updateFromChatModel
  <2>2. PICK h \in store.chat : hits = {h} /\ h.uid = chat.uid
    BY <2>1 DEF queryChatFromAllChats
  <2>3. new \in Store
    BY <1>1, UpdateFromChatModelType
  <2> HIDE DEF new
  <2>4. /\ new.chat = (store.chat \ {h}) \cup {chat}
        /\ new.message = store.message /\ new.chatSeq = store.chatSeq
    BY <1>1, <2>1, <2>2 DEF Store
  <2>5. TableOK(new)
    <3>1. IsFiniteSet(store.chat \ {h})
      BY FS_RemoveElement DEF TableOK
    <3>2. IsFiniteSet(new.chat)
      BY <2>4, <3>1, FS_AddElement
    <3>3. \A c \in new.chat : ChatOK(new, c)
      BY <2>4 DEF TableOK, ChatOK
    <3>4. \A c, e \in new.chat : c.id = e.id => c = e
      BY <2>1, <2>2, <2>4 DEF TableOK
    <3> QED
      BY <2>3, <2>4, <3>2, <3>3, <3>4 DEF TableOK
  <2>6. \A uid : Gone(new, uid) <=> Gone(store, uid)
    BY <2>2, <2>4 DEF Gone, queryChatFromAllChats
  <2> QED
    BY <2>2, <2>4, <2>5, <2>6 DEF new
<1> QED
  BY <1>2, <1>3

(* A chat a room may hold: a row, as it was once, or the object of no chat *)
RoomOK(store, room) ==
  \/ ChatOK(store, room)
  \/ room \in ChatModel /\ room.uid = 0 /\ room.chatType = 0

(* The copy of a chat, whatever its count of unread messages *)
LEMMA CopyOK ==
  ASSUME NEW store, NEW chat, NEW n \in Nat,
         ChatOK(store, chat) \/ chat = EmptyChat
  PROVE  LET copy == [chat EXCEPT !.unReadCount = n]
         IN  /\ copy.uid = chat.uid /\ copy.id = chat.id
             /\ copy.chatType = chat.chatType
             /\ ChatOK(store, chat) => ChatOK(store, copy)
             /\ RoomOK(store, copy)
<1>1. EmptyChat \in ChatModel /\ EmptyChat.uid = 0 /\ EmptyChat.chatType = 0
  BY DEF EmptyChat, ChatModel, NickName
<1>2. chat \in ChatModel
  BY <1>1 DEF ChatOK
<1> DEFINE copy == [chat EXCEPT !.unReadCount = n]
<1>3. /\ copy \in ChatModel /\ copy.uid = chat.uid /\ copy.id = chat.id
      /\ copy.chatType = chat.chatType
  BY <1>2 DEF ChatModel
<1> HIDE DEF copy
<1>4. ChatOK(store, chat) => ChatOK(store, copy)
  BY <1>3 DEF ChatOK
<1>5. RoomOK(store, copy)
  BY <1>1, <1>3, <1>4 DEF RoomOK
<1> QED
  BY <1>3, <1>4, <1>5 DEF copy

(* A message that is stored *)
LEMMA StoringKeepsTable ==
  ASSUME NEW store, TableOK(store), NEW room, RoomOK(store, room),
         list \in {SingleChat, GroupedChat}
  PROVE  LET new == StoredBy(store, room)
         IN  /\ TableOK(new)
             /\ new.chat = store.chat /\ new.chatSeq = store.chatSeq
             /\ \A r \in new.message :
                  \/ r \in store.message
                  \/ r.id = store.messageSeq + 1 /\ r.chatId = room.uid
<1> DEFINE new == StoredBy(store, room)
<1>1. /\ store \in Store /\ room \in ChatModel
      /\ room.chatType = list \/ room.uid = 0
  BY DEF TableOK, RoomOK, ChatOK
<1>2. /\ store.messageSeq + 1 \in Nat /\ room.uid \in Nat /\ room.chatType \in 0 .. 2
  BY <1>1 DEF Store, ChatModel
<1>3. new \in Store
  BY <1>1, <1>2, InsertFromMessageType DEF StoredBy
<1>4. /\ new.chat = store.chat /\ new.chatSeq = store.chatSeq
      /\ \A r \in new.message :
           \/ r \in store.message
           \/ /\ r.id = store.messageSeq + 1 /\ r.chatId = room.uid
              /\ r.chatType = room.chatType
  BY <1>1 DEF StoredBy, insertFromMessage, NextMessageId, Store
<1> HIDE DEF new
<1>5. TableOK(new)
  BY <1>1, <1>3, <1>4 DEF TableOK, ChatOK
<1> QED
  BY <1>4, <1>5 DEF new

-----------------------------------------------------------------------------
(* Messages and their chats *)

(* The messages of a table whose chat is gone are among these *)
StraysIn(store, ids) ==
  \A r \in store.message : r.chatId # 0 /\ Gone(store, r.chatId) => r.id \in ids

(* The two statements that delete a chat *)
LEMMA DeleteOne ==
  ASSUME NEW store, TableOK(store), NEW uid, NEW ids
  PROVE  LET mid == deleteFromChatWithId(store, uid)
             new == deleteFromMesssageWithId(mid, uid)
         IN  /\ TableOK(mid) /\ mid.chatSeq = store.chatSeq
             /\ mid.chat \subseteq store.chat
             /\ TableOK(new) /\ new.chatSeq = store.chatSeq
             /\ new.chat \subseteq store.chat
             /\ StraysIn(store, ids) => StraysIn(new, ids)
<1> DEFINE mid == deleteFromChatWithId(store, uid)
           new == deleteFromMesssageWithId(mid, uid)
<1>1. store \in Store
  BY DEF TableOK
<1>2. mid \in Store /\ new \in Store
  BY <1>1, DeleteChatsType, DeleteMessagesType
<1>3. /\ mid.chat = {c \in store.chat : c.uid # uid}
      /\ mid.message = store.message /\ mid.chatSeq = store.chatSeq
  BY <1>1 DEF deleteFromChatWithId, Store
<1> HIDE DEF mid
<1>4. /\ new.chat = mid.chat /\ new.message = {r \in mid.message : r.chatId # uid}
      /\ new.chatSeq = mid.chatSeq
  BY <1>2 DEF deleteFromMesssageWithId, Store
<1> HIDE DEF new
<1>5. TableOK(mid) /\ TableOK(new)
  BY <1>2, <1>3, <1>4, FewerRows
<1>6. StraysIn(store, ids) => StraysIn(new, ids)
  BY <1>3, <1>4 DEF StraysIn, Gone, queryChatFromAllChats
<1> QED
  BY <1>3, <1>4, <1>5, <1>6 DEF new, mid

(* The two statements that delete all chats of the list *)
LEMMA DeleteAll ==
  ASSUME NEW store, TableOK(store), NEW ids
  PROVE  LET mid == deleteFromChatsWithType(store, list)
             new == deleteFromMessagesWithType(mid, list)
         IN  /\ TableOK(mid) /\ mid.chatSeq = store.chatSeq /\ mid.chat = {}
             /\ TableOK(new) /\ new.chatSeq = store.chatSeq /\ new.chat = {}
             /\ StraysIn(new, ids)
<1> DEFINE mid == deleteFromChatsWithType(store, list)
           new == deleteFromMessagesWithType(mid, list)
<1>1. store \in Store
  BY DEF TableOK
<1>2. mid \in Store /\ new \in Store
  BY <1>1, DeleteChatsType, DeleteMessagesType
<1>3. /\ mid.chat = {} /\ mid.message = store.message
      /\ mid.chatSeq = store.chatSeq
  BY <1>1 DEF deleteFromChatsWithType, Store, TableOK, ChatOK
<1> HIDE DEF mid
<1>4. /\ new.chat = mid.chat
      /\ new.message = {r \in mid.message : r.chatType # list}
      /\ new.chatSeq = mid.chatSeq
  BY <1>2 DEF deleteFromMessagesWithType, Store
<1> HIDE DEF new
<1>5. TableOK(mid) /\ TableOK(new)
  BY <1>2, <1>3, <1>4, FewerRows
<1>6. StraysIn(new, ids)
  BY <1>3, <1>4 DEF StraysIn, TableOK
<1> QED
  BY <1>3, <1>4, <1>5, <1>6 DEF new, mid

-----------------------------------------------------------------------------
(* The invariant of both lists *)

(* Only the first block may delete: a deletion starts on an empty queue *)
QueueOK ==
  \A k \in DOMAIN queue :
    \/ queue[k].kind = "insert" /\ queue[k].uid >= FirstUid
    \/ k = 1 /\ queue[k].kind # "insert"

RoomsOK == \A room \in rooms : RoomOK(db, room)

ListInv ==
  /\ TypeOK
  /\ TableOK(db)
  /\ QueueOK
  /\ RoomsOK
  /\ OnlyStraysOutliveChats

LEMMA ListInitially == Init => ListInv
<1> SUFFICES ASSUME Init PROVE ListInv
  OBVIOUS
<1>1. /\ db.chat = {} /\ db.message = {} /\ db.chatSeq = 0 /\ db.messageSeq = 0
      /\ db \in Store
  BY DEF Init, Store
<1>2. TypeOK
  <2>1. dataSource \in Seq({uid \in Nat : uid >= FirstUid}) /\ queue \in Seq(Task)
    BY EmptySeq, Zenon DEF Init
  <2>2. alert \in Alert
    BY DEF Init, Alert, NoAlert
  <2>3. /\ rooms \subseteq ChatModel /\ widget \in Nat /\ stray \subseteq Nat
        /\ rekeyed \in BOOLEAN
    BY DEF Init
  <2> QED
    BY <1>1, <2>1, <2>2, <2>3, Zenon DEF Init, TypeOK
<1>3. TableOK(db)
  BY <1>1, FS_EmptySet DEF TableOK
<1>4. QueueOK /\ RoomsOK
  BY DEF Init, QueueOK, RoomsOK
<1>5. OnlyStraysOutliveChats
  BY <1>1 DEF OnlyStraysOutliveChats
<1> QED
  BY <1>2, <1>3, <1>4, <1>5 DEF ListInv

(* What a step that leaves the kind of list alone says of the next tables *)
LEMMA SameList ==
  ASSUME list' = list
  PROVE  /\ TableOK(db)' <=> TableOK(db')
         /\ Rows(db)' = Rows(db')
         /\ FirstUid' = FirstUid /\ Uids' = Uids
         /\ \A room : RoomOK(db, room)' <=> RoomOK(db', room)
<1>1. FirstUid' = FirstUid
  BY DEF FirstUid
<1>2. Rows(db)' = Rows(db')
  BY DEF Rows, qureyFromChatsWithType
<1>3. TableOK(db)' <=> TableOK(db')
  BY <1>1, Zenon DEF TableOK, ChatOK
<1>4. Uids' = Uids
  BY <1>1, Zenon DEF Uids
<1>5. \A room : RoomOK(db, room)' <=> RoomOK(db', room)
  BY <1>1, Zenon DEF RoomOK, ChatOK
<1> QED
  BY <1>1, <1>2, <1>3, <1>4, <1>5

(* The sequences of a list *)
LEMMA ListTypes ==
  ASSUME ListInv
  PROVE  /\ list \in {SingleChat, GroupedChat}
         /\ TableOK(db) /\ db \in Store /\ db.chatSeq \in Nat /\ db.messageSeq \in Nat
         /\ dataSource \in Seq(Uids) /\ Len(dataSource) \in Nat
         /\ queue \in Seq(Task) /\ Len(queue) \in Nat
         /\ Rows(db) \in Seq(Uids) /\ Len(Rows(db)) \in Nat
         /\ \A k \in 1 .. Len(dataSource) : dataSource[k] \in Uids
         /\ Uids \subseteq Nat /\ \A uid \in Uids : uid >= FirstUid
         /\ FirstUid \in Uids
<1>1. dataSource \in Seq(Uids) /\ queue \in Seq(Task)
  BY Zenon DEF ListInv, TypeOK, Uids
<1>2. Rows(db) \in Seq(Uids)
  BY RowsOf DEF ListInv
<1>3. Uids \subseteq Nat /\ (\A uid \in Uids : uid >= FirstUid) /\ FirstUid \in Uids
  BY DEF Uids, FirstUid
<1>4. /\ list \in {SingleChat, GroupedChat}
      /\ TableOK(db) /\ db \in Store /\ db.chatSeq \in Nat /\ db.messageSeq \in Nat
  BY DEF ListInv, TypeOK, Store
<1> HIDE DEF Uids
<1> QED
  BY <1>1, <1>2, <1>3, <1>4

(* What is left to show of a step *)
LEMMA ListKeeps ==
  ASSUME ListInv, list' = list, TableOK(db'),
         dataSource' \in Seq(Uids), queue' \in Seq(Task), QueueOK',
         alert' \in Alert, deleteHidden' \in BOOLEAN, covered' \in BOOLEAN,
         \A room \in rooms' : RoomOK(db', room),
         widget' \in Nat, stray' \subseteq Nat, StraysIn(db', stray'),
         rekeyed' \in BOOLEAN
  PROVE  ListInv'
<1>1. TypeOK'
  <2>1. rooms' \subseteq ChatModel
    BY DEF RoomOK, ChatOK
  <2>2. db' \in Store
    BY DEF TableOK
  <2> QED
    BY <2>1, <2>2, SameList, Zenon DEF ListInv, TypeOK, Uids
<1>2. TableOK(db)' /\ RoomsOK'
  BY SameList DEF RoomsOK
<1>3. OnlyStraysOutliveChats'
  BY DEF OnlyStraysOutliveChats, StraysIn, Gone, queryChatFromAllChats
<1> QED
  BY <1>1, <1>2, <1>3 DEF ListInv

(* A chat stays within the keys of a table that only grows *)
LEMMA RoomsStay ==
  ASSUME NEW store, store.chatSeq \in Nat, NEW new, new.chatSeq \in Nat,
         new.chatSeq >= store.chatSeq, NEW room, RoomOK(store, room)
  PROVE  RoomOK(new, room)
BY DEF RoomOK, ChatOK, ChatModel

(* and of a step that writes, and reloads the list or leaves it alone *)
LEMMA WriteKeeps ==
  ASSUME ListInv, list' = list, TableOK(db'), db'.chatSeq >= db.chatSeq,
         dataSource' = dataSource \/ dataSource' = Rows(db'),
         queue' = queue \/ queue' = <<>>,
         alert' \in Alert, deleteHidden' \in BOOLEAN, covered' \in BOOLEAN,
         rooms' \subseteq rooms,
         widget' \in Nat, stray' \subseteq Nat, StraysIn(db', stray'),
         rekeyed' \in BOOLEAN
  PROVE  ListInv'
<1>1. dataSource' \in Seq(Uids)
  BY RowsOf, ListTypes, Zenon
<1>2. queue' \in Seq(Task)
  BY EmptySeq, ListTypes, Zenon
<1>3. QueueOK'
  <2>1. CASE queue' = queue
    BY <2>1, SameList, Zenon DEF ListInv, QueueOK
  <2>2. CASE queue' = <<>>
    BY <2>2 DEF QueueOK
  <2> QED
    BY <2>1, <2>2
<1>4. \A room \in rooms' : RoomOK(db', room)
  <2>1. db.chatSeq \in Nat /\ db'.chatSeq \in Nat
    BY ListTypes DEF TableOK, Store
  <2> QED
    BY <2>1, RoomsStay DEF ListInv, RoomsOK
<1> QED
  BY <1>1, <1>2, <1>3, <1>4, ListKeeps

(* The types of what most steps leave alone *)
LEMMA OtherTypes ==
  ASSUME ListInv
  PROVE  /\ alert \in Alert /\ deleteHidden \in BOOLEAN /\ covered \in BOOLEAN
         /\ widget \in Nat /\ stray \subseteq Nat /\ rekeyed \in BOOLEAN
         /\ StraysIn(db, stray) /\ NoAlert \in Alert
<1>1. NoAlert \in Alert
  BY DEF NoAlert, Alert
<1> QED
  BY <1>1 DEF ListInv, TypeOK, OnlyStraysOutliveChats, StraysIn

-----------------------------------------------------------------------------
(* Every step *)

(* A touch that opens or closes something, a message that is sent, another *)
(* list: no table changes, and the list is reloaded or left alone.         *)
LEMMA TouchKeeps ==
  ASSUME ListInv,
         \/ \E row \in DOMAIN dataSource : deleteChatFriend(row)
         \/ showDeleteAlert \/ cancelAlert \/ leaveList \/ otherRooms
         \/ \E room \in rooms : reloadChatData(room)
         \/ viewDidAppear \/ relaunch \/ UNCHANGED vars
  PROVE  ListInv'
<1>1. /\ list' = list /\ db' = db /\ stray' = stray /\ rekeyed' = rekeyed
      /\ rooms' \subseteq rooms
  BY DEF deleteChatFriend, showDeleteAlert, cancelAlert, leaveList, otherRooms,
         reloadChatData, viewDidAppear, relaunch, Relaunched, vars
<1>2. /\ dataSource' = dataSource \/ dataSource' = Rows(db')
      /\ queue' = queue \/ queue' = <<>>
  BY <1>1 DEF deleteChatFriend, showDeleteAlert, cancelAlert, leaveList,
         otherRooms, reloadUserData, reloadChatData, viewDidAppear, relaunch,
         Relaunched, vars
<1>3. alert' \in Alert
  <2>1. ASSUME NEW row \in DOMAIN dataSource
        PROVE  [kind |-> "one", row |-> row] \in Alert
    <3>1. row \in Nat
      BY ListTypes
    <3> QED
      BY <3>1 DEF Alert
  <2>2. [kind |-> "all", row |-> 0] \in Alert
    BY DEF Alert
  <2> QED
    BY <2>1, <2>2, OtherTypes DEF deleteChatFriend, showDeleteAlert,
       cancelAlert, leaveList, otherRooms, reloadChatData, viewDidAppear,
       relaunch, Relaunched, vars
<1>4. deleteHidden' \in BOOLEAN /\ covered' \in BOOLEAN
  BY OtherTypes, Zenon DEF deleteChatFriend, showDeleteAlert, cancelAlert,
     leaveList, otherRooms, reloadChatData, viewDidAppear, relaunch,
     Relaunched, vars
<1>5. widget' \in Nat
  <2>1. \A room \in rooms : room.uid \in Nat
    BY DEF ListInv, TypeOK, ChatModel
  <2> QED
    BY <2>1, OtherTypes DEF deleteChatFriend, showDeleteAlert, cancelAlert,
       leaveList, otherRooms, reloadChatData, viewDidAppear, relaunch,
       Relaunched, vars
<1>6. TableOK(db') /\ db'.chatSeq >= db.chatSeq
  BY <1>1, ListTypes
<1>7. stray' \subseteq Nat /\ StraysIn(db', stray') /\ rekeyed' \in BOOLEAN
  BY <1>1, OtherTypes
<1> QED
  BY <1>1, <1>2, <1>3, <1>4, <1>5, <1>6, <1>7, WriteKeeps

(* The uid of the next chat is above those that are shown last *)
LEMMA NextUidIs ==
  ASSUME ListInv
  PROVE  LET n == Len(dataSource)
         IN  /\ NextUid(dataSource) \in Uids
             /\ n > 0 => NextUid(dataSource) = dataSource[n] + 1
<1> DEFINE n == Len(dataSource)
           uid == NextUid(dataSource)
<1>1. CASE n = 0
  BY <1>1, ListTypes DEF NextUid
<1>2. CASE n > 0
  <2>1. dataSource[n] \in Nat /\ dataSource[n] >= FirstUid
    BY <1>2, ListTypes
  <2>2. uid = dataSource[n] + 1
    BY <1>2, ListTypes DEF NextUid, Last
  <2>3. FirstUid \in Nat
    BY ListTypes
  <2> HIDE DEF uid, n
  <2>4. uid \in Nat /\ uid >= FirstUid
    BY <2>1, <2>2, <2>3
  <2> QED
    BY <2>2, <2>4 DEF Uids, uid, n
<1> QED
  BY <1>1, <1>2, ListTypes

LEMMA addUserDataKeeps ==
  ASSUME ListInv, addUserData
  PROVE  ListInv'
<1> DEFINE uid == NextUid(dataSource)
           q == Len(queue)
           task == [kind |-> "insert", uid |-> uid]
<1>1. /\ dataSource' = Append(dataSource, uid)
      /\ queue' = Append(queue, task)
      /\ UNCHANGED <<list, db, alert, deleteHidden, covered, rooms, widget, stray,
                     rekeyed>>
  BY DEF addUserData
<1>2. uid \in Uids /\ uid \in Nat /\ uid >= FirstUid
  BY NextUidIs, ListTypes
<1>3. task \in Task
  BY <1>2 DEF Task
<1>4. dataSource' \in Seq(Uids)
  BY <1>1, <1>2, ListTypes, AppendProperties
<1> HIDE DEF uid
<1>5. /\ queue' \in Seq(Task) /\ q \in Nat /\ queue'[q + 1] = task
      /\ \A k \in 1 .. q : queue'[k] = queue[k]
      /\ DOMAIN queue' = 1 .. q + 1 /\ DOMAIN queue = 1 .. q
  <2>1. /\ Len(queue') = q + 1 /\ queue'[q + 1] = task
        /\ \A k \in 1 .. q : queue'[k] = queue[k]
        /\ queue' \in Seq(Task)
    BY <1>1, <1>3, ListTypes, AppendProperties
  <2> QED
    BY <2>1, ListTypes
<1>6. QueueOK'
  <2>1. \A k \in 1 .. q : \/ queue[k].kind = "insert" /\ queue[k].uid >= FirstUid
                          \/ k = 1 /\ queue[k].kind # "insert"
    BY <1>5 DEF ListInv, QueueOK
  <2>2. \A k \in 1 .. q + 1 : k \in 1 .. q \/ k = q + 1
    BY <1>5
  <2> QED
    BY <1>1, <1>2, <1>5, <2>1, <2>2, SameList DEF QueueOK
<1>7. TableOK(db') /\ \A room \in rooms' : RoomOK(db', room)
  BY <1>1 DEF ListInv, RoomsOK
<1>8. StraysIn(db', stray')
  BY <1>1, OtherTypes
<1> QED
  BY <1>1, <1>4, <1>5, <1>6, <1>7, <1>8, OtherTypes, ListKeeps

(* One row less *)
LEMMA RemovedRow ==
  ASSUME ListInv, NEW row \in DOMAIN dataSource
  PROVE  RemoveAt(dataSource, row) \in Seq(Uids)
<1> DEFINE n == Len(dataSource)
<1>1. n \in Nat /\ row \in 1 .. n /\ dataSource \in Seq(Uids)
  BY ListTypes
<1>2. /\ \A k \in 1 .. row - 1 : dataSource[k] \in Uids
      /\ \A k \in row + 1 .. n : dataSource[k] \in Uids
  <2>1. \A k \in 1 .. n : dataSource[k] \in Uids
    BY ListTypes
  <2> HIDE DEF n
  <2> QED
    BY <1>1, <2>1
<1>3. 1 \in Int /\ row - 1 \in Int /\ row + 1 \in Int /\ n \in Int
  BY <1>1
<1>4. /\ SubSeq(dataSource, 1, row - 1) \in Seq(Uids)
      /\ SubSeq(dataSource, row + 1, n) \in Seq(Uids)
  BY <1>2, <1>3, SubSeqProperties
<1> QED
  BY <1>4, ConcatProperties DEF RemoveAt

(* A confirmed alert: at most one block waits then, a deletion *)
LEMMA ConfirmedKeeps ==
  ASSUME ListInv, handleDeleteContactsAtRow \/ removerUserData
  PROVE  ListInv'
<1>1. /\ UNCHANGED <<list, db, covered, rooms, widget, stray, rekeyed>>
      /\ queue = <<>> /\ alert' = NoAlert
  BY DEF handleDeleteContactsAtRow, removerUserData, Settled
<1>2. deleteHidden' \in BOOLEAN
  BY OtherTypes DEF handleDeleteContactsAtRow, removerUserData
<1>3. /\ dataSource' \in Seq(Uids)
      /\ \/ queue' = queue
         \/ \E task \in Task : task.kind # "insert" /\ queue' = Append(queue, task)
  <2>1. CASE removerUserData
    <3>1. [kind |-> "deleteAll", uid |-> 0] \in Task
      BY DEF Task
    <3>2. dataSource' = <<>>
      BY <2>1 DEF removerUserData
    <3>3. dataSource' \in Seq(Uids)
      BY <3>2, EmptySeq, Zenon
    <3> QED
      BY <2>1, <3>1, <3>3 DEF removerUserData
  <2>2. CASE handleDeleteContactsAtRow /\ alert.row \in DOMAIN dataSource
    <3> DEFINE task == [kind |-> "delete", uid |-> dataSource[alert.row]]
    <3>1. dataSource[alert.row] \in Nat
      BY <2>2, ListTypes
    <3>2. task \in Task /\ task.kind # "insert"
      BY <3>1 DEF Task
    <3>3. /\ dataSource' = RemoveAt(dataSource, alert.row)
          /\ queue' = Append(queue, task)
      BY <2>2 DEF handleDeleteContactsAtRow
    <3>4. dataSource' \in Seq(Uids)
      BY <2>2, <3>3, RemovedRow
    <3> QED
      BY <3>2, <3>3, <3>4
  <2>3. CASE handleDeleteContactsAtRow /\ alert.row \notin DOMAIN dataSource
    BY <2>3, ListTypes DEF handleDeleteContactsAtRow
  <2> QED
    BY <2>1, <2>2, <2>3
<1>4. queue' \in Seq(Task) /\ QueueOK'
  <2>1. CASE queue' = queue
    BY <1>1, <2>1, ListTypes DEF QueueOK
  <2>2. CASE queue' # queue
    <3>1. PICK task \in Task : task.kind # "insert" /\ queue' = Append(queue, task)
      BY <1>3, <2>2
    <3>2. /\ queue' \in Seq(Task) /\ DOMAIN queue' = {1} /\ queue'[1] = task
      BY <1>1, <3>1
    <3> QED
      BY <3>1, <3>2 DEF QueueOK
  <2> QED
    BY <2>1, <2>2
<1>5. TableOK(db') /\ \A room \in rooms' : RoomOK(db', room)
  BY <1>1 DEF ListInv, RoomsOK
<1>6. StraysIn(db', stray')
  BY <1>1, OtherTypes
<1> QED
  BY <1>1, <1>2, <1>3, <1>4, <1>5, <1>6, OtherTypes, ListKeeps

(* What the statements of the next block do to the tables *)
LEMMA BlockKeepsTable ==
  ASSUME ListInv, queue # <<>>
  PROVE  /\ TableOK(Begun(db, Head(queue))) /\ TableOK(Written(db, Head(queue)))
         /\ Begun(db, Head(queue)).chatSeq >= db.chatSeq
         /\ Written(db, Head(queue)).chatSeq >= db.chatSeq
         /\ StraysIn(Written(db, Head(queue)), stray)
<1> DEFINE task == Head(queue)
<1>1. /\ task = queue[1] /\ task \in Task /\ 1 \in DOMAIN queue
  BY ListTypes
<1>2. StraysIn(db, stray) /\ TableOK(db) /\ db.chatSeq \in Nat
  BY OtherTypes, ListTypes
<1>3. CASE task.kind = "insert"
  <2>1. task.uid \in Uids
    BY <1>1, <1>3 DEF ListInv, QueueOK, Task, Uids
  <2> DEFINE new == insertFromChat(db, task.uid, list)
  <2>2. /\ TableOK(new) /\ new.chat = db.chat \cup {NewRow(db, task.uid)}
        /\ new.message = db.message
    BY <1>2, <2>1, InsertAddsRow, ListTypes
  <2>3. new.chatSeq = db.chatSeq + 1
    BY ListTypes DEF insertFromChat, Store
  <2>4. Begun(db, task) = new /\ Written(db, task) = new
    BY <1>3 DEF Begun, Written
  <2> HIDE DEF new
  <2>5. StraysIn(new, stray)
    BY <1>2, <2>2 DEF StraysIn, Gone, queryChatFromAllChats
  <2> QED
    BY <1>2, <2>2, <2>3, <2>4, <2>5
<1>4. CASE task.kind = "delete"
  <2> DEFINE mid == deleteFromChatWithId(db, task.uid)
             new == deleteFromMesssageWithId(mid, task.uid)
  <2>1. Begun(db, task) = mid /\ Written(db, task) = new
    BY <1>4 DEF Begun, Written
  <2>2. /\ TableOK(mid) /\ mid.chatSeq = db.chatSeq
        /\ TableOK(new) /\ new.chatSeq = db.chatSeq /\ StraysIn(new, stray)
    BY <1>2, DeleteOne
  <2> HIDE DEF mid, new
  <2> QED
    BY <1>2, <2>1, <2>2
<1>5. CASE task.kind = "deleteAll"
  <2> DEFINE mid == deleteFromChatsWithType(db, list)
             new == deleteFromMessagesWithType(mid, list)
  <2>1. Begun(db, task) = mid /\ Written(db, task) = new
    BY <1>5 DEF Begun, Written
  <2>2. /\ TableOK(mid) /\ mid.chatSeq = db.chatSeq
        /\ TableOK(new) /\ new.chatSeq = db.chatSeq /\ StraysIn(new, stray)
    BY <1>2, DeleteAll
  <2> HIDE DEF mid, new
  <2> QED
    BY <1>2, <2>1, <2>2
<1> QED
  BY <1>1, <1>3, <1>4, <1>5 DEF Task

(* The blocks that wait behind the first *)
LEMMA Behind ==
  ASSUME ListInv, queue # <<>>
  PROVE  LET q == Len(queue)
         IN  /\ q \in Nat /\ q >= 1 /\ Head(queue) = queue[1]
             /\ queue[1] \in Task /\ DOMAIN queue = 1 .. q
             /\ Tail(queue) \in Seq(Task) /\ Len(Tail(queue)) = q - 1
             /\ DOMAIN Tail(queue) = 1 .. q - 1
             /\ \A k \in 1 .. q - 1 :
                  /\ Tail(queue)[k] = queue[k + 1]
                  /\ Tail(queue)[k].kind = "insert" /\ Tail(queue)[k].uid >= FirstUid
<1> DEFINE q == Len(queue)
<1>1. /\ q \in Nat /\ q >= 1 /\ Head(queue) = queue[1]
      /\ queue[1] \in Task /\ DOMAIN queue = 1 .. q
      /\ Tail(queue) \in Seq(Task) /\ Len(Tail(queue)) = q - 1
      /\ DOMAIN Tail(queue) = 1 .. q - 1
      /\ \A k \in 1 .. q - 1 : Tail(queue)[k] = queue[k + 1]
  BY ListTypes
<1>2. \A k \in 1 .. q - 1 : queue[k + 1].kind = "insert" /\ queue[k + 1].uid >= FirstUid
  <2> TAKE k \in 1 .. q - 1
  <2>1. k + 1 \in 1 .. q /\ k + 1 # 1
    BY <1>1
  <2> QED
    BY <1>1, <2>1 DEF ListInv, QueueOK
<1> QED
  BY <1>1, <1>2

LEMMA runBlockKeeps ==
  ASSUME ListInv, runBlock
  PROVE  ListInv'
<1>1. /\ queue # <<>> /\ queue' = Tail(queue) /\ db' = Written(db, Head(queue))
      /\ dataSource' = dataSource \/ dataSource' = Rows(db')
      /\ UNCHANGED <<list, alert, covered, rooms, widget, stray, rekeyed>>
  BY DEF runBlock, reloadUserData
<1>2. TableOK(db') /\ db'.chatSeq >= db.chatSeq /\ StraysIn(db', stray')
  BY <1>1, BlockKeepsTable
<1>3. dataSource' \in Seq(Uids)
  BY <1>1, <1>2, RowsOf, ListTypes, Zenon
<1>4. queue' \in Seq(Task)
  BY <1>1, Behind
<1>5. QueueOK'
  BY <1>1, Behind, SameList DEF QueueOK
<1>6. deleteHidden' \in BOOLEAN
  BY OtherTypes DEF runBlock
<1>7. \A room \in rooms' : RoomOK(db', room)
  <2>1. db'.chatSeq \in Nat
    BY <1>2 DEF TableOK, Store
  <2> QED
    BY <1>1, <1>2, <2>1, ListTypes, RoomsStay DEF ListInv, RoomsOK
<1> QED
  BY <1>1, <1>2, <1>3, <1>4, <1>5, <1>6, <1>7, OtherTypes, ListKeeps

(* A room that opens holds a copy that is a row of the table, or no chat *)
LEMMA RoomOpened ==
  ASSUME ListInv, NEW uid
  PROVE  LET chat == qureyFromChatId(db, uid)
         IN  /\ RoomOK(db, RoomOf(chat))
             /\ RoomOf(chat).uid = chat.uid /\ RoomOf(chat).id = chat.id
             /\ chat = EmptyChat \/ (chat \in db.chat /\ ChatOK(db, RoomOf(chat)))
<1> DEFINE chat == qureyFromChatId(db, uid)
<1>1. chat = EmptyChat \/ (chat \in db.chat /\ ChatOK(db, chat))
  <2>1. TableOK(db)
    BY ListTypes
  <2> QED
    BY <2>1, FoundOK
<1> HIDE DEF chat
<1> QED
  BY <1>1, CopyOK DEF RoomOf, chat

LEMMA openWidgetChatKeeps ==
  ASSUME ListInv, openWidgetChat
  PROVE  ListInv'
<1>1. /\ rooms' = rooms \cup {RoomOf(qureyFromChatId(db, widget))}
      /\ covered' = TRUE
      /\ UNCHANGED <<list, db, dataSource, queue, alert, deleteHidden, widget, stray,
                     rekeyed>>
  BY DEF openWidgetChat
<1>2. \A room \in rooms' : RoomOK(db', room)
  BY <1>1, RoomOpened DEF ListInv, RoomsOK
<1>3. QueueOK'
  BY <1>1, SameList, Zenon DEF ListInv, QueueOK
<1>4. TableOK(db') /\ StraysIn(db', stray')
  BY <1>1, ListTypes, OtherTypes
<1>5. dataSource' \in Seq(Uids) /\ queue' \in Seq(Task)
  BY <1>1, ListTypes, Zenon
<1> QED
  BY <1>1, <1>2, <1>3, <1>4, <1>5, OtherTypes, ListKeeps

(* What clearing the badge of a chat writes *)
LEMMA Cleared ==
  ASSUME ListInv, NEW uid, Opens(uid)
  PROVE  LET chat == qureyFromChatId(db, uid)
         IN  /\ UNCHANGED <<list, queue, alert, deleteHidden, widget, stray, rekeyed>>
             /\ rooms' = rooms \cup {RoomOf(chat)} /\ covered' = TRUE
             /\ dataSource' = dataSource \/ dataSource' = Rows(db')
             /\ list = GroupedChat => dataSource' = dataSource
             /\ \/ db' = db
                \/ /\ chat \in db.chat /\ chat.uid = RoomOf(chat).uid
                   /\ chat.id = RoomOf(chat).id /\ ChatOK(db, RoomOf(chat))
                   /\ db' = updateFromChatModel(db, RoomOf(chat), RoomOf(chat).uid)
<1> DEFINE chat == qureyFromChatId(db, uid)
<1>1. /\ UNCHANGED <<list, queue, alert, deleteHidden, widget, stray, rekeyed>>
      /\ rooms' = rooms \cup {RoomOf(chat)} /\ covered' = TRUE
      /\ \/ db' = db /\ dataSource' = dataSource
         \/ /\ Clears(chat) /\ db' = updateFromChatModel(db, RoomOf(chat), chat.uid)
            /\ reloadUserData(db')
  BY DEF Opens
<1>2. Clears(chat) => chat # EmptyChat
  BY DEF Clears, EmptyChat
<1>3. reloadUserData(db') =>
        /\ dataSource' = dataSource \/ dataSource' = Rows(db')
        /\ list = GroupedChat => dataSource' = dataSource
  BY DEF reloadUserData, ObservesSessions, SingleChat, GroupedChat
<1>4. /\ RoomOf(chat).uid = chat.uid /\ RoomOf(chat).id = chat.id
      /\ chat = EmptyChat \/ (chat \in db.chat /\ ChatOK(db, RoomOf(chat)))
  BY RoomOpened
<1> HIDE DEF chat
<1>5. CASE db' = db /\ dataSource' = dataSource
  BY <1>1, <1>5 DEF chat
<1>6. CASE /\ Clears(chat) /\ db' = updateFromChatModel(db, RoomOf(chat), chat.uid)
           /\ reloadUserData(db')
  BY <1>1, <1>2, <1>3, <1>4, <1>6 DEF chat
<1> QED
  BY <1>1, <1>5, <1>6

LEMMA OpensKeeps ==
  ASSUME ListInv, NEW uid, Opens(uid)
  PROVE  ListInv'
<1> DEFINE chat == qureyFromChatId(db, uid)
<1>1. /\ UNCHANGED <<list, queue, alert, deleteHidden, widget, stray, rekeyed>>
      /\ rooms' = rooms \cup {RoomOf(chat)} /\ covered' = TRUE
      /\ dataSource' = dataSource \/ dataSource' = Rows(db')
      /\ \/ db' = db
         \/ /\ ChatOK(db, RoomOf(chat))
            /\ db' = updateFromChatModel(db, RoomOf(chat), RoomOf(chat).uid)
  BY Cleared
<1>2. RoomOK(db, RoomOf(chat))
  BY RoomOpened
<1> HIDE DEF chat
<1>3. /\ TableOK(db') /\ db'.message = db.message /\ db'.chatSeq = db.chatSeq
      /\ \A u : Gone(db', u) <=> Gone(db, u)
  BY <1>1, ListTypes, UpdatingKeepsTable
<1>4. StraysIn(db', stray')
  BY <1>1, <1>3, OtherTypes DEF StraysIn
<1>5. \A room \in rooms' : RoomOK(db', room)
  <2>1. \A room \in rooms' : RoomOK(db, room)
    BY <1>1, <1>2 DEF ListInv, RoomsOK
  <2>2. db.chatSeq \in Nat
    BY ListTypes
  <2> QED
    BY <1>3, <2>1, <2>2, RoomsStay
<1>6. QueueOK'
  BY <1>1, SameList, Zenon DEF ListInv, QueueOK
<1>7. dataSource' \in Seq(Uids) /\ queue' \in Seq(Task)
  BY <1>1, <1>3, RowsOf, ListTypes, Zenon
<1> QED
  BY <1>1, <1>3, <1>4, <1>5, <1>6, <1>7, OtherTypes, ListKeeps

(* What a room writes with a message: the message, and its copy *)
LEMMA Cached ==
  ASSUME ListInv, NEW room \in rooms
  PROVE  LET stored == StoredBy(db, room)
             copy   == [room EXCEPT !.unReadCount = 1]
             new    == IF room.uid = 0 THEN stored
                       ELSE updateFromChatModel(stored, copy, room.uid)
         IN  /\ TableOK(stored) /\ stored.chat = db.chat /\ stored.chatSeq = db.chatSeq
             /\ copy.uid = room.uid /\ copy.id = room.id
             /\ room.uid # 0 => ChatOK(stored, copy)
             /\ TableOK(new) /\ new.chatSeq = db.chatSeq
             /\ StraysIn(new, stray \cup StrayBy(room))
<1> DEFINE stored == StoredBy(db, room)
           copy   == [room EXCEPT !.unReadCount = 1]
           new    == IF room.uid = 0 THEN stored
                     ELSE updateFromChatModel(stored, copy, room.uid)
<1>1. RoomOK(db, room)
  BY DEF ListInv, RoomsOK
<1>2. /\ TableOK(stored)
      /\ stored.chat = db.chat /\ stored.chatSeq = db.chatSeq
      /\ \A r \in stored.message :
           \/ r \in db.message
           \/ r.id = db.messageSeq + 1 /\ r.chatId = room.uid
  BY <1>1, ListTypes, StoringKeepsTable
<1> HIDE DEF stored
<1>3. /\ copy.uid = room.uid /\ copy.id = room.id
      /\ room.uid # 0 => ChatOK(stored, copy)
  BY <1>1, <1>2 DEF RoomOK, ChatOK, ChatModel
<1> HIDE DEF copy
<1>4. /\ TableOK(new) /\ new.message = stored.message
      /\ new.chatSeq = stored.chatSeq
      /\ \A u : Gone(new, u) <=> Gone(stored, u)
  BY <1>2, <1>3, UpdatingKeepsTable
<1>5. StraysIn(new, stray \cup StrayBy(room))
  <2>1. StraysIn(db, stray) /\ \A u : Gone(stored, u) <=> Gone(db, u)
    BY <1>2, OtherTypes DEF Gone, queryChatFromAllChats
  <2> HIDE DEF new
  <2> QED
    BY <1>2, <1>4, <2>1 DEF StraysIn, StrayBy
<1> QED
  BY <1>2, <1>3, <1>4, <1>5 DEF new, copy, stored

LEMMA beginCacheMessageKeeps ==
  ASSUME ListInv, NEW room \in rooms, beginCacheMessage(room)
  PROVE  ListInv'
<1>1. /\ UNCHANGED <<list, queue, alert, deleteHidden, covered, rooms, widget>>
      /\ dataSource' = dataSource \/ dataSource' = Rows(db')
      /\ stray' = stray \cup StrayBy(room)
      /\ rekeyed' = (rekeyed \/ Rekeys(room))
      /\ db' = IF room.uid = 0 THEN StoredBy(db, room)
               ELSE updateFromChatModel(StoredBy(db, room),
                                        [room EXCEPT !.unReadCount = 1], room.uid)
  BY DEF beginCacheMessage, reloadUserData
<1>2. TableOK(db') /\ db'.chatSeq >= db.chatSeq /\ StraysIn(db', stray')
  <2>1. TableOK(db') /\ db'.chatSeq = db.chatSeq /\ StraysIn(db', stray')
    BY <1>1, Cached
  <2>2. db.chatSeq \in Nat
    BY ListTypes
  <2> QED
    BY <2>1, <2>2
<1>3. stray' \subseteq Nat
  BY <1>1, ListTypes, OtherTypes DEF StrayBy
<1>4. rekeyed' \in BOOLEAN
  BY <1>1, OtherTypes DEF Rekeys
<1> QED
  BY <1>1, <1>2, <1>3, <1>4, OtherTypes, WriteKeeps

LEMMA exitGroupChatKeeps ==
  ASSUME ListInv, NEW room \in rooms, exitGroupChat(room)
  PROVE  ListInv'
<1>1. /\ UNCHANGED <<list, queue, alert, covered, rooms, widget, stray, rekeyed>>
      /\ db' = deleteFromMesssageWithId(deleteFromChatWithId(db, room.uid), room.uid)
      /\ dataSource' = Rows(db')
  BY DEF exitGroupChat, reloadEveryList
<1>2. deleteHidden' \in BOOLEAN
  BY OtherTypes DEF exitGroupChat, reloadEveryList
<1>3. TableOK(db') /\ db'.chatSeq >= db.chatSeq /\ StraysIn(db', stray')
  BY <1>1, DeleteOne, ListTypes, OtherTypes
<1> QED
  BY <1>1, <1>2, <1>3, OtherTypes, WriteKeeps

LEMMA otherScreensKeeps ==
  ASSUME ListInv, NEW kept, otherScreens(kept)
  PROVE  ListInv'
<1>1. /\ UNCHANGED <<list, queue, alert, covered, rooms, widget, stray, rekeyed>>
      /\ db' = [db EXCEPT !.message = {r \in @ : r.id \in kept}]
      /\ dataSource' = dataSource \/ dataSource' = Rows(db')
      /\ deleteHidden' \in BOOLEAN
  BY OtherTypes DEF otherScreens, reloadUserData, reloadEveryList
<1>2. /\ db'.chat = db.chat /\ db'.message \subseteq db.message
      /\ db'.chatSeq = db.chatSeq /\ db' \in Store
  BY <1>1, ListTypes DEF Store
<1>3. TableOK(db') /\ db'.chatSeq >= db.chatSeq
  <2>1. TableOK(db) /\ db.chatSeq \in Nat
    BY ListTypes
  <2>2. TableOK(db')
    BY <1>2, <2>1, FewerRows
  <2> QED
    BY <1>2, <2>1, <2>2
<1>4. StraysIn(db', stray')
  BY <1>1, <1>2, OtherTypes DEF StraysIn, Gone, queryChatFromAllChats
<1> QED
  BY <1>1, <1>3, <1>4, OtherTypes, WriteKeeps

(* The process ends between two statements *)
LEMMA CutShortKeeps ==
  ASSUME ListInv, NEW store, TableOK(store), store.chatSeq >= db.chatSeq,
         CutShort(store)
  PROVE  ListInv'
<1>1. /\ db' = store /\ stray' = stray \cup Strays(store)
      /\ dataSource' = Rows(db') /\ queue' = <<>> /\ alert' = NoAlert
      /\ covered' = FALSE /\ rooms' = {} /\ deleteHidden' \in BOOLEAN
      /\ UNCHANGED <<list, widget, rekeyed>>
  BY DEF CutShort, Relaunched
<1>2. stray' \subseteq Nat
  <2>1. \A r \in store.message : r.id \in Nat
    BY DEF TableOK, Store, MessageRow
  <2> QED
    BY <1>1, <2>1, OtherTypes DEF Strays
<1>3. StraysIn(db', stray')
  BY <1>1 DEF StraysIn, Strays
<1> QED
  BY <1>1, <1>2, <1>3, OtherTypes, WriteKeeps

LEMMA KilledKeeps ==
  ASSUME ListInv,
         \/ killedInBlock
         \/ \E room \in rooms : killedInExit(room) \/ killedInWrite(room)
  PROVE  ListInv'
<1>1. CASE killedInBlock
  BY <1>1, BlockKeepsTable, CutShortKeeps DEF killedInBlock
<1>2. CASE \E room \in rooms : killedInExit(room)
  <2>1. PICK room \in rooms : CutShort(deleteFromChatWithId(db, room.uid))
    BY <1>2 DEF killedInExit
  <2>2. /\ TableOK(deleteFromChatWithId(db, room.uid))
        /\ deleteFromChatWithId(db, room.uid).chatSeq >= db.chatSeq
    <3>1. TableOK(db) /\ db.chatSeq \in Nat
      BY ListTypes
    <3>2. /\ TableOK(deleteFromChatWithId(db, room.uid))
          /\ deleteFromChatWithId(db, room.uid).chatSeq = db.chatSeq
      BY <3>1, DeleteOne
    <3> QED
      BY <3>1, <3>2
  <2> QED
    BY <2>1, <2>2, CutShortKeeps
<1>3. CASE \E room \in rooms : killedInWrite(room)
  <2>1. PICK room \in rooms : CutShort(StoredBy(db, room))
    BY <1>3 DEF killedInWrite
  <2>2. TableOK(StoredBy(db, room)) /\ StoredBy(db, room).chatSeq >= db.chatSeq
    <3>1. TableOK(StoredBy(db, room)) /\ StoredBy(db, room).chatSeq = db.chatSeq
      BY Cached
    <3>2. db.chatSeq \in Nat
      BY ListTypes
    <3> QED
      BY <3>1, <3>2
  <2> QED
    BY <2>1, <2>2, CutShortKeeps
<1> QED
  BY <1>1, <1>2, <1>3

LEMMA ListStep ==
  ASSUME ListInv, [Next]_vars
  PROVE  ListInv'
<1>1. CASE addUserData
  BY <1>1, addUserDataKeeps
<1>2. CASE handleDeleteContactsAtRow \/ removerUserData
  BY <1>2, ConfirmedKeeps
<1>3. CASE runBlock
  BY <1>3, runBlockKeeps
<1>4. CASE openWidgetChat
  BY <1>4, openWidgetChatKeeps
<1>5. CASE \/ \E row \in DOMAIN dataSource : didSelectRow(row)
           \/ \E uid \in {c.uid : c \in db.chat} : didSelectSession(uid)
  BY <1>5, OpensKeeps DEF didSelectRow, didSelectSession
<1>6. CASE \E room \in rooms : beginCacheMessage(room) \/ exitGroupChat(room)
  BY <1>6, beginCacheMessageKeeps, exitGroupChatKeeps
<1>7. CASE \E kept \in SUBSET {r.id : r \in db.message} : otherScreens(kept)
  BY <1>7, otherScreensKeeps
<1>8. CASE \/ killedInBlock
           \/ \E room \in rooms : killedInExit(room) \/ killedInWrite(room)
  BY <1>8, KilledKeeps
<1>9. CASE \/ \E row \in DOMAIN dataSource : deleteChatFriend(row)
           \/ showDeleteAlert \/ cancelAlert \/ leaveList \/ otherRooms
           \/ \E room \in rooms : reloadChatData(room)
           \/ viewDidAppear \/ relaunch \/ UNCHANGED vars
  BY <1>9, TouchKeeps
<1> QED
  BY <1>1, <1>2, <1>3, <1>4, <1>5, <1>6, <1>7, <1>8, <1>9 DEF Next

LEMMA ListAlways == Spec => []ListInv
BY ListInitially, ListStep, PTL DEF Spec

(* The lists stay within their types, and a uid of one never strays into    *)
(* the range of the other                                                  *)
THEOREM ListTypeCorrect == Spec => []TypeOK
<1>1. ListInv => TypeOK
  BY DEF ListInv
<1> QED
  BY <1>1, ListAlways, PTL

(* Whatever rooms write late and whenever the process ends: a message whose *)
(* chat is gone was stored by beginCacheMessage after the chat went, or    *)
(* the process ended between the two statements of a deletion.  Deletions  *)
(* by uid and by type that run to their end leave none.                    *)
THEOREM DeletionsTakeTheHistory == Spec => []OnlyStraysOutliveChats
<1>1. ListInv => OnlyStraysOutliveChats
  BY DEF ListInv
<1> QED
  BY <1>1, ListAlways, PTL

-----------------------------------------------------------------------------
(* The list of groups, until a room writes an old key over a group *)

(* The deletion that starts on an empty queue has not run yet *)
Deleting == queue # <<>> /\ queue[1].kind # "insert"

(* What the list of groups shows of the table, and of the queue *)
Kept == IF Deleting THEN <<>> ELSE Rows(db)
Skipped == IF Deleting THEN 1 ELSE 0

(* The list of groups shows the table, as it is after a pending deletion,   *)
(* and then the groups that wait to be inserted.                           *)
GroupRows ==
  /\ Deleting => queue[1].kind = "deleteAll"
  /\ Len(dataSource) = Len(Kept) + Len(queue) - Skipped
  /\ \A k \in 1 .. Len(Kept) : dataSource[k] = Kept[k]
  /\ \A k \in Skipped + 1 .. Len(queue) :
       dataSource[Len(Kept) + k - Skipped] = queue[k].uid

(* The uids of the groups grow with their keys *)
InOrder(store) == \A c, e \in store.chat : c.id < e.id => c.uid < e.uid

(* and down the list *)
RowsInOrder ==
  \A j, k \in DOMAIN dataSource : j < k => dataSource[j] < dataSource[k]

(* A room holds the key its chat has, if the chat is there *)
SameKey(store, room) == \A c \in store.chat : c.uid = room.uid => c.id = room.id

GroupInv ==
  list = GroupedChat /\ ~rekeyed =>
    /\ InOrder(db) /\ RowsInOrder /\ GroupRows
    /\ alert.kind # "one"

(* The lists a step leaves alone *)
LEMMA GroupTypes ==
  ASSUME ListInv
  PROVE  /\ Kept \in Seq(Uids) /\ Len(Kept) \in Nat
         /\ Skipped \in {0, 1} /\ (Skipped = 1 => Kept = <<>>)
<1>1. Rows(db) \in Seq(Uids)
  BY ListTypes
<1>2. Kept \in Seq(Uids)
  BY <1>1, EmptySeq, Zenon DEF Kept
<1>3. Skipped \in {0, 1} /\ (Skipped = 1 => Kept = <<>>)
  BY DEF Skipped, Kept
<1> HIDE DEF Uids
<1> QED
  BY <1>2, <1>3

LEMMA GroupInitially == Init => GroupInv
<1> SUFFICES ASSUME Init PROVE GroupInv
  OBVIOUS
<1>1. db.chat = {} /\ ListInv
  BY ListInitially DEF Init
<1>2. Rows(db) = <<>>
  BY <1>1, NoRows DEF ListInv
<1>3. InOrder(db) /\ RowsInOrder /\ alert.kind # "one"
  BY <1>1 DEF Init, InOrder, RowsInOrder, NoAlert
<1>4. GroupRows
  BY <1>2 DEF Init, GroupRows, Kept, Skipped, Deleting
<1> QED
  BY <1>3, <1>4 DEF GroupInv

(* With no block left to run, the list of groups shows the table *)
LEMMA GroupsSettled ==
  ASSUME ListInv, GroupInv, queue = <<>>, list = GroupedChat, ~rekeyed
  PROVE  dataSource = Rows(db)
<1>1. Kept = Rows(db) /\ Skipped = 0 /\ Len(queue) = 0
  BY DEF Kept, Skipped, Deleting
<1>2. /\ Len(dataSource) = Len(Rows(db)) + 0 - 0
      /\ \A k \in 1 .. Len(Rows(db)) : dataSource[k] = Rows(db)[k]
  BY <1>1 DEF GroupInv, GroupRows
<1>3. /\ dataSource \in Seq(Uids) /\ Rows(db) \in Seq(Uids)
      /\ Len(Rows(db)) \in Nat
  BY ListTypes
<1>4. Len(dataSource) = Len(Rows(db))
  BY <1>2, <1>3
<1> HIDE DEF Uids
<1> QED
  BY <1>2, <1>3, <1>4, SeqEqual

(* The rows of a table in order are in order *)
LEMMA RowsOfInOrder ==
  ASSUME NEW store, TableOK(store), InOrder(store)
  PROVE  \A j, k \in 1 .. Len(Rows(store)) :
           j < k => Rows(store)[j] < Rows(store)[k]
<1> DEFINE n == Number(store)
<1>1. /\ Keys(store) \in SUBSET Nat /\ IsFiniteSet(Keys(store))
      /\ n = Cardinality(Keys(store)) /\ n \in Nat
  BY RowsOf DEF Number
<1>2. /\ Rows(store) = [k \in 1 .. n |-> RowAt(store, k).uid]
      /\ Len(Rows(store)) = n
      /\ \A k \in 1 .. n : /\ RowAt(store, k) \in store.chat
                           /\ RowAt(store, k).id = Nth(Keys(store), k)
  BY RowsOf
<1> HIDE DEF n
<1> SUFFICES ASSUME NEW j \in 1 .. n, NEW k \in 1 .. n, j < k
             PROVE  RowAt(store, j).uid < RowAt(store, k).uid
  BY <1>2
<1> DEFINE x == Nth(Keys(store), j)
           y == Nth(Keys(store), k)
<1>3. x \in Keys(store) /\ y \in Keys(store) /\ x \in Nat /\ y \in Nat
  BY <1>1, NthOf
<1>4. Rank(Keys(store), x) = j /\ Rank(Keys(store), y) = k
  BY <1>1, NthOf
<1>5. y < x => k < j
  BY <1>1, <1>3, <1>4, RankGrows
<1> HIDE DEF x, y
<1>6. x < y
  <2>1. x # y
    BY <1>1, <1>4
  <2> QED
    BY <1>1, <1>3, <1>5, <2>1
<1> QED
  BY <1>2, <1>6 DEF InOrder, x, y

(* A step over the same rows that touches neither the list nor its blocks *)
LEMMA GroupStays ==
  ASSUME ListInv, GroupInv, list' = list, list = GroupedChat, ~rekeyed,
         Rows(db') = Rows(db), InOrder(db'),
         dataSource' = dataSource, queue' = queue, alert'.kind # "one"
  PROVE  GroupInv'
<1>1. Deleting' = Deleting /\ Rows(db)' = Rows(db)
  BY SameList DEF Deleting
<1>2. Kept' = Kept /\ Skipped' = Skipped
  BY <1>1, Zenon DEF Kept, Skipped
<1>3. GroupRows'
  BY <1>1, <1>2, Zenon DEF GroupInv, GroupRows
<1>4. RowsInOrder' /\ InOrder(db)'
  BY DEF GroupInv, RowsInOrder, InOrder
<1> QED
  BY <1>3, <1>4 DEF GroupInv

(* A step after which no block waits and the list shows the table *)
LEMMA GroupReloads ==
  ASSUME list' = list, TableOK(db'), queue' = <<>>,
         dataSource' = Rows(db'), InOrder(db'), alert'.kind # "one"
  PROVE  GroupInv'
<1>1. ~Deleting' /\ Kept' = dataSource' /\ Skipped' = 0
  BY SameList DEF Deleting, Kept, Skipped
<1>2. dataSource' \in Seq(Uids) /\ Len(dataSource') \in Nat
  BY RowsOf
<1>3. RowsInOrder'
  BY <1>2, RowsOfInOrder DEF RowsInOrder
<1>4. GroupRows'
  BY <1>1, <1>2 DEF GroupRows
<1>5. InOrder(db)'
  BY DEF InOrder
<1> QED
  BY <1>3, <1>4, <1>5 DEF GroupInv

(* Fewer chats, in order *)
LEMMA FewerInOrder ==
  ASSUME NEW store, NEW new, new.chat \subseteq store.chat
  PROVE  InOrder(store) => InOrder(new)
BY DEF InOrder

(* A room writes under the key its chat has: the rows stay as they are *)
LEMMA WritesInPlace ==
  ASSUME NEW store, TableOK(store), InOrder(store),
         NEW chat, ChatOK(store, chat), SameKey(store, chat)
  PROVE  LET new == updateFromChatModel(store, chat, chat.uid)
         IN  Rows(new) = Rows(store) /\ InOrder(new)
<1> DEFINE new == updateFromChatModel(store, chat, chat.uid)
<1>1. /\ TableOK(new)
      /\ \A c \in store.chat : \E e \in new.chat : e.id = c.id /\ e.uid = c.uid
      /\ \A e \in new.chat : \E c \in store.chat : e.id = c.id /\ e.uid = c.uid
  BY UpdatingKeepsTable DEF SameKey
<1> HIDE DEF new
<1>2. Rows(new) = Rows(store)
  BY <1>1, SameRows
<1>3. InOrder(new)
  BY <1>1 DEF InOrder
<1> QED
  BY <1>2, <1>3 DEF new

(* No two groups of a table in order have the same uid *)
LEMMA OrderedAreUnique ==
  ASSUME NEW store, TableOK(store), InOrder(store),
         NEW c \in store.chat, NEW e \in store.chat, c.uid = e.uid
  PROVE  c = e
<1>1. /\ c.id \in Nat /\ e.id \in Nat /\ c.uid \in Nat /\ e.uid \in Nat
      /\ c.id = e.id => c = e
  BY DEF TableOK, ChatOK, ChatModel
<1>2. ~(c.id < e.id) /\ ~(e.id < c.id)
  BY <1>1 DEF InOrder
<1> QED
  BY <1>1, <1>2

(* A room that opens has the key of its chat *)
LEMMA OpenedFresh ==
  ASSUME ListInv, InOrder(db), list = GroupedChat, NEW uid
  PROVE  SameKey(db, RoomOf(qureyFromChatId(db, uid)))
<1> DEFINE chat == qureyFromChatId(db, uid)
           room == RoomOf(chat)
<1>1. /\ room.uid = chat.uid /\ room.id = chat.id
      /\ chat = EmptyChat \/ chat \in db.chat
  BY RoomOpened
<1>2. TableOK(db)
  BY ListTypes
<1> HIDE DEF chat, room
<1>3. CASE chat = EmptyChat
  <2>1. room.uid = 0
    BY <1>1, <1>3 DEF EmptyChat
  <2>2. \A c \in db.chat : c.uid \in Nat /\ c.uid >= 10
    BY <1>2 DEF TableOK, ChatOK, ChatModel, FirstUid, SingleChat, GroupedChat
  <2>3. SameKey(db, room)
    BY <2>1, <2>2 DEF SameKey
  <2> QED
    BY <2>3 DEF room, chat
<1>4. CASE chat \in db.chat
  <2>1. SameKey(db, room)
    BY <1>1, <1>2, <1>4, OrderedAreUnique DEF SameKey
  <2> QED
    BY <2>1 DEF room, chat
<1> QED
  BY <1>1, <1>3, <1>4

LEMMA GroupAdds ==
  ASSUME ListInv, GroupInv, list = GroupedChat, ~rekeyed, addUserData
  PROVE  GroupInv'
<1> DEFINE uid == NextUid(dataSource)
           n == Len(dataSource)
           q == Len(queue)
           m == Len(Kept)
           g == Skipped
<1>1. /\ n \in Nat /\ q \in Nat /\ m \in Nat /\ g \in {0, 1}
      /\ \A k \in 1 .. n : dataSource[k] \in Nat
      /\ g = 1 => m = 0
      /\ Deleting <=> (q > 0 /\ queue[1].kind # "insert")
      /\ g = IF Deleting THEN 1 ELSE 0
      /\ DOMAIN dataSource = 1 .. n /\ DOMAIN queue = 1 .. q
  <2>1. Deleting <=> (q > 0 /\ queue[1].kind # "insert")
    BY ListTypes DEF Deleting
  <2>2. \A k \in 1 .. n : dataSource[k] \in Nat
    BY ListTypes
  <2>3. g = 1 => m = 0
    BY GroupTypes
  <2> QED
    BY <2>1, <2>2, <2>3, ListTypes, GroupTypes DEF Skipped
<1>2. /\ dataSource' = Append(dataSource, uid)
      /\ queue' = Append(queue, [kind |-> "insert", uid |-> uid])
      /\ UNCHANGED <<list, db, alert, deleteHidden, covered, rooms, widget, stray,
                     rekeyed>>
      /\ ~covered /\ alert = NoAlert
  BY DEF addUserData, Shown
<1>3. uid \in Uids /\ uid \in Nat /\ (n > 0 => uid = dataSource[n] + 1)
  BY NextUidIs, ListTypes
<1> HIDE DEF uid
<1>4. [kind |-> "insert", uid |-> uid] \in Task
  BY <1>3 DEF Task
<1>5. /\ Len(dataSource') = n + 1 /\ dataSource'[n + 1] = uid
      /\ \A k \in 1 .. n : dataSource'[k] = dataSource[k]
      /\ dataSource' \in Seq(Uids)
  BY <1>2, <1>3, ListTypes, AppendProperties
<1>6. /\ Len(queue') = q + 1 /\ queue'[q + 1] = [kind |-> "insert", uid |-> uid]
      /\ \A k \in 1 .. q : queue'[k] = queue[k]
      /\ queue' \in Seq(Task)
  BY <1>2, <1>4, ListTypes, AppendProperties
<1>7. Deleting' <=> Deleting
  BY <1>1, <1>2, <1>6 DEF Deleting
<1>8. Kept' = Kept /\ Skipped' = Skipped
  BY <1>2, <1>7, SameList DEF Kept, Skipped
<1>9. DOMAIN dataSource' = 1 .. n + 1
  BY <1>1, <1>5
<1> HIDE DEF n, q, m, g
<1>10. RowsInOrder'
  <2>1. \A j, k \in 1 .. n : j < k => dataSource[j] < dataSource[k]
    BY <1>1 DEF GroupInv, RowsInOrder
  <2>2. \A j \in 1 .. n : dataSource[j] < uid
    BY <1>1, <1>3, <2>1
  <2>3. \A j, k \in 1 .. n + 1 : j < k => dataSource'[j] < dataSource'[k]
    BY <1>1, <1>5, <2>1, <2>2
  <2> QED
    BY <1>9, <2>3 DEF RowsInOrder
<1>11. GroupRows'
  <2> SUFFICES /\ Deleting => queue'[1].kind = "deleteAll"
               /\ n + 1 = m + (q + 1) - g
               /\ \A k \in 1 .. m : dataSource'[k] = Kept[k]
               /\ \A k \in g + 1 .. q + 1 :
                    dataSource'[m + k - g] = queue'[k].uid
    BY <1>5, <1>6, <1>7, <1>8, Zenon DEF GroupRows, m, g
  <2>1. /\ Deleting => queue[1].kind = "deleteAll"
        /\ n = m + q - g
        /\ \A k \in 1 .. m : dataSource[k] = Kept[k]
        /\ \A k \in g + 1 .. q : dataSource[m + k - g] = queue[k].uid
    BY Zenon DEF GroupInv, GroupRows, n, q, m, g
  <2>2. Deleting => queue'[1].kind = "deleteAll"
    BY <1>1, <1>6, <2>1
  <2>3. \A k \in 1 .. m : dataSource'[k] = Kept[k]
    BY <1>1, <1>5, <2>1
  <2>4. ASSUME NEW k \in g + 1 .. q + 1
        PROVE  dataSource'[m + k - g] = queue'[k].uid
    <3>1. CASE k = q + 1
      <4>1. m + k - g = n + 1
        <5>1. n = m + q - g /\ m \in Nat /\ q \in Nat /\ g \in {0, 1}
          BY <1>1, <2>1
        <5> QED
          BY <3>1, <5>1
      <4> QED
        BY <1>5, <1>6, <3>1, <4>1
    <3>2. CASE k \in g + 1 .. q
      <4>1. k \in 1 .. q /\ m + k - g \in 1 .. n
        BY <1>1, <2>1, <3>2
      <4> QED
        BY <1>5, <1>6, <2>1, <3>2, <4>1
    <3> QED
      BY <1>1, <3>1, <3>2
  <2>5. n + 1 = m + (q + 1) - g
    BY <1>1, <2>1
  <2> QED
    BY <2>2, <2>3, <2>4, <2>5
<1>12. InOrder(db)' /\ alert'.kind # "one"
  BY <1>2 DEF GroupInv, InOrder
<1> QED
  BY <1>10, <1>11, <1>12 DEF GroupInv

LEMMA GroupConfirms ==
  ASSUME ListInv, GroupInv, list = GroupedChat, ~rekeyed, removerUserData
  PROVE  GroupInv'
<1> DEFINE task == [kind |-> "deleteAll", uid |-> 0]
<1>1. /\ dataSource' = <<>> /\ queue = <<>>
      /\ queue' = Append(queue, task)
      /\ alert' = NoAlert
      /\ UNCHANGED <<list, db, covered, rooms>>
  BY DEF removerUserData, Settled
<1>2. task \in Task
  BY DEF Task
<1>3. /\ Len(queue') = 1 /\ DOMAIN queue' = {1} /\ queue'[1] = task /\ queue' # <<>>
  BY <1>1, <1>2
<1>4. Deleting'
  BY <1>3 DEF Deleting
<1>5. Kept' = <<>> /\ Skipped' = 1
  BY <1>4 DEF Kept, Skipped
<1>6. GroupRows'
  BY <1>1, <1>3, <1>5 DEF GroupRows
<1>7. RowsInOrder' /\ InOrder(db)' /\ alert'.kind # "one"
  BY <1>1 DEF GroupInv, RowsInOrder, InOrder, NoAlert
<1> QED
  BY <1>6, <1>7 DEF GroupInv

(* A waiting group comes after all that are stored *)
LEMMA InsertionIsLast ==
  ASSUME ListInv, GroupInv, list = GroupedChat, ~rekeyed,
         queue # <<>>, queue[1].kind = "insert"
  PROVE  LET new == insertFromChat(db, queue[1].uid, list)
             m   == Len(Rows(db))
         IN  /\ TableOK(new) /\ InOrder(new)
             /\ Rows(new) = Append(Rows(db), queue[1].uid) /\ queue[1].uid \in Uids
             /\ Len(dataSource) = m + Len(queue)
             /\ \A k \in 1 .. m : dataSource[k] = Rows(db)[k]
             /\ \A k \in 1 .. Len(queue) : dataSource[m + k] = queue[k].uid
<1> DEFINE q == Len(queue)
           n == Len(dataSource)
           m == Len(Rows(db))
           uid == queue[1].uid
           row == NewRow(db, uid)
           new == insertFromChat(db, uid, list)
<1>1. /\ q \in Nat /\ q >= 1 /\ n \in Nat /\ m \in Nat
      /\ DOMAIN queue = 1 .. q /\ DOMAIN dataSource = 1 .. n /\ queue[1] \in Task
      /\ \A k \in 1 .. n : dataSource[k] \in Nat
  <2>1. \A k \in 1 .. n : dataSource[k] \in Nat
    BY ListTypes
  <2> QED
    BY <2>1, ListTypes
<1>2. /\ TableOK(db) /\ list \in {SingleChat, GroupedChat}
      /\ Kept = Rows(db) /\ Skipped = 0
  BY ListTypes DEF Kept, Skipped, Deleting
<1>3. uid \in Uids
  BY <1>1 DEF ListInv, QueueOK, Task, Uids
<1>4. /\ TableOK(new) /\ row \notin db.chat /\ row.uid = uid
      /\ row.id = db.chatSeq + 1 /\ new.chat = db.chat \cup {row}
      /\ Rows(new) = Append(Rows(db), uid)
  BY <1>2, <1>3, InsertAddsRow
<1> HIDE DEF row, new
<1>5. /\ n = m + q
      /\ \A k \in 1 .. m : dataSource[k] = Rows(db)[k]
      /\ \A k \in 1 .. q : dataSource[m + k] = queue[k].uid
  <2>1. /\ n = m + q - 0
        /\ \A k \in 1 .. m : dataSource[k] = Rows(db)[k]
        /\ \A k \in 0 + 1 .. q : dataSource[m + k - 0] = queue[k].uid
    BY <1>2, Zenon DEF GroupInv, GroupRows
  <2> QED
    BY <1>1, <2>1
<1> HIDE DEF n, m, q, uid
<1>6. InOrder(new)
  <2>1. \A j, k \in 1 .. n : j < k => dataSource[j] < dataSource[k]
    BY <1>1 DEF GroupInv, RowsInOrder
  <2>2. dataSource[m + 1] = uid /\ m + 1 \in 1 .. n
    BY <1>1, <1>5 DEF uid
  <2>3. \A c \in db.chat : c.uid < uid
    <3> TAKE c \in db.chat
    <3>1. PICK k \in 1 .. m : Rows(db)[k] = c.uid
      BY <1>2, RowsOf DEF m
    <3>2. dataSource[k] = c.uid /\ k \in 1 .. n /\ k < m + 1
      BY <1>1, <1>5, <3>1
    <3> QED
      BY <2>1, <2>2, <3>2
  <2>4. /\ db.chatSeq \in Nat
        /\ \A c \in db.chat : c.id \in 1 .. db.chatSeq
    BY <1>2 DEF TableOK, ChatOK, Store
  <2>5. InOrder(db)
    BY DEF GroupInv
  <2>6. (\A c \in db.chat : ~(row.id < c.id)) /\ ~(row.id < row.id)
    BY <1>4, <2>4
  <2> QED
    BY <1>4, <2>3, <2>5, <2>6 DEF InOrder
<1> QED
  BY <1>3, <1>4, <1>5, <1>6 DEF n, m, q, uid, new

LEMMA GroupInserts ==
  ASSUME ListInv, GroupInv, list = GroupedChat, ~rekeyed, runBlock,
         queue[1].kind = "insert"
  PROVE  GroupInv'
<1> DEFINE q == Len(queue)
           n == Len(dataSource)
           m == Len(Rows(db))
           uid == queue[1].uid
<1>1. /\ q \in Nat /\ q >= 1 /\ n \in Nat /\ m \in Nat /\ Head(queue) = queue[1]
      /\ queue # <<>> /\ DOMAIN queue = 1 .. q
  BY Behind, ListTypes DEF runBlock
<1>2. /\ queue' = Tail(queue) /\ list' = list /\ alert' = alert
      /\ db' = insertFromChat(db, uid, list)
      /\ dataSource' = dataSource
  BY <1>1 DEF runBlock, Written, Begun
<1>3. /\ Len(queue') = q - 1
      /\ \A k \in 1 .. q - 1 : queue'[k] = queue[k + 1] /\ queue'[k].kind = "insert"
  BY <1>1, <1>2, Behind
<1>4. /\ InOrder(db') /\ Rows(db') = Append(Rows(db), uid) /\ uid \in Uids
      /\ n = m + q
      /\ \A k \in 1 .. m : dataSource[k] = Rows(db)[k]
      /\ \A k \in 1 .. q : dataSource[m + k] = queue[k].uid
  BY <1>1, <1>2, InsertionIsLast
<1>5. /\ Len(Rows(db')) = m + 1 /\ Rows(db')[m + 1] = uid
      /\ \A k \in 1 .. m : Rows(db')[k] = Rows(db)[k]
  BY <1>4, ListTypes, AppendProperties
<1>6. ~Deleting'
  BY <1>1, <1>3 DEF Deleting
<1>7. Kept' = Rows(db') /\ Skipped' = 0
  BY <1>2, <1>6, SameList DEF Kept, Skipped
<1> HIDE DEF n, m, q, uid
<1>8. GroupRows'
  <2>1. n = (m + 1) + (q - 1) - 0
    BY <1>1, <1>4
  <2>2. ASSUME NEW k \in 1 .. m + 1
        PROVE  dataSource[k] = Rows(db')[k]
    <3>1. CASE k = m + 1
      <4>1. dataSource[m + 1] = uid
        BY <1>1, <1>4 DEF uid
      <4> QED
        BY <1>5, <3>1, <4>1
    <3>2. CASE k \in 1 .. m
      BY <1>4, <1>5, <3>2
    <3> QED
      BY <1>1, <3>1, <3>2
  <2>3. ASSUME NEW k \in 0 + 1 .. q - 1
        PROVE  dataSource[(m + 1) + k - 0] = queue'[k].uid
    <3>1. k + 1 \in 1 .. q /\ (m + 1) + k - 0 = m + (k + 1) /\ k \in 1 .. q - 1
      BY <1>1
    <3> QED
      BY <1>3, <1>4, <3>1
  <2>4. /\ Len(Kept') = m + 1 /\ Len(queue') = q - 1 /\ Len(dataSource') = n
        /\ Kept' = Rows(db') /\ dataSource' = dataSource
    BY <1>2, <1>3, <1>5, <1>7 DEF n
  <2> QED
    BY <1>6, <1>7, <2>1, <2>2, <2>3, <2>4, Zenon DEF GroupRows
<1>9. RowsInOrder' /\ InOrder(db)' /\ alert'.kind # "one"
  BY <1>2, <1>4 DEF GroupInv, RowsInOrder, InOrder
<1> QED
  BY <1>8, <1>9 DEF GroupInv

LEMMA GroupDeletes ==
  ASSUME ListInv, GroupInv, list = GroupedChat, ~rekeyed, runBlock,
         queue[1].kind # "insert"
  PROVE  GroupInv'
<1> DEFINE q == Len(queue)
<1>1. /\ q \in Nat /\ q >= 1 /\ Head(queue) = queue[1]
      /\ queue # <<>> /\ DOMAIN queue = 1 .. q
  BY Behind DEF runBlock
<1>2. Deleting /\ Kept = <<>> /\ Skipped = 1
  BY <1>1 DEF Deleting, Kept, Skipped
<1>3. queue[1].kind = "deleteAll"
  BY <1>2 DEF GroupInv, GroupRows
<1>4. /\ queue' = Tail(queue) /\ list' = list /\ alert' = alert
      /\ db' = deleteFromMessagesWithType(deleteFromChatsWithType(db, list), list)
      /\ dataSource' = dataSource
  BY <1>1, <1>3 DEF runBlock, Written, Begun, reloadUserData, ObservesSessions,
     SingleChat, GroupedChat
<1>5. TableOK(db') /\ db'.chat = {}
  BY <1>4, DeleteAll, ListTypes
<1>6. Rows(db') = <<>>
  BY <1>5, NoRows
<1>7. /\ Len(queue') = q - 1 /\ DOMAIN queue' = 1 .. q - 1
      /\ \A k \in 1 .. q - 1 : queue'[k] = queue[k + 1] /\ queue'[k].kind = "insert"
  BY <1>1, <1>4, Behind
<1>8. ~Deleting'
  BY <1>1, <1>7 DEF Deleting
<1>9. Kept' = <<>> /\ Skipped' = 0
  BY <1>4, <1>6, <1>8, SameList DEF Kept, Skipped
<1>10. Len(dataSource) = q - 1 /\ \A k \in 2 .. q : dataSource[k - 1] = queue[k].uid
  <2>1. Len(Kept) = 0
    BY <1>2
  <2>2. /\ Len(dataSource) = 0 + q - 1
        /\ \A k \in 1 + 1 .. q : dataSource[0 + k - 1] = queue[k].uid
    BY <1>2, <2>1 DEF GroupInv, GroupRows
  <2> QED
    BY <1>1, <2>2
<1>11. \A k \in 1 .. q - 1 : dataSource'[k] = queue'[k].uid
  <2> TAKE k \in 1 .. q - 1
  <2>1. k + 1 \in 2 .. q /\ (k + 1) - 1 = k
    BY <1>1
  <2> QED
    BY <1>4, <1>7, <1>10, <2>1
<1> HIDE DEF q
<1>12. GroupRows'
  <2>1. Len(dataSource') = q - 1
    BY <1>4, <1>10
  <2> QED
    BY <1>1, <1>7, <1>8, <1>9, <1>11, <2>1 DEF GroupRows
<1>13. InOrder(db)' /\ RowsInOrder' /\ alert'.kind # "one"
  BY <1>4, <1>5 DEF GroupInv, InOrder, RowsInOrder
<1> QED
  BY <1>12, <1>13 DEF GroupInv

(* A touch that changes no table and adds no block; the widget's push too *)
LEMMA GroupTouched ==
  ASSUME ListInv, GroupInv, list = GroupedChat, ~rekeyed,
         \/ \E row \in DOMAIN dataSource : deleteChatFriend(row)
         \/ showDeleteAlert \/ cancelAlert \/ leaveList \/ openWidgetChat
         \/ otherRooms \/ \E room \in rooms : reloadChatData(room)
         \/ viewDidAppear \/ UNCHANGED vars
  PROVE  GroupInv'
<1>1. /\ list' = list /\ db' = db /\ dataSource' = dataSource /\ queue' = queue
      /\ alert'.kind # "one"
  BY DEF deleteChatFriend, showDeleteAlert, cancelAlert, leaveList,
     openWidgetChat, otherRooms, reloadUserData, ObservesSessions,
     reloadChatData, viewDidAppear, vars, GroupInv, SingleChat, GroupedChat,
     NoAlert
<1>2. InOrder(db') /\ Rows(db') = Rows(db)
  BY <1>1 DEF GroupInv
<1> QED
  BY <1>1, <1>2, GroupStays

LEMMA GroupOpens ==
  ASSUME ListInv, GroupInv, list = GroupedChat, ~rekeyed, NEW uid, Opens(uid)
  PROVE  GroupInv'
<1> DEFINE chat == qureyFromChatId(db, uid)
<1>1. /\ UNCHANGED <<list, queue, alert, dataSource>>
      /\ \/ db' = db
         \/ /\ ChatOK(db, RoomOf(chat))
            /\ db' = updateFromChatModel(db, RoomOf(chat), RoomOf(chat).uid)
  BY Cleared
<1>2. InOrder(db) /\ TableOK(db)
  BY ListTypes DEF GroupInv
<1>3. SameKey(db, RoomOf(chat))
  BY <1>2, OpenedFresh
<1> HIDE DEF chat
<1>4. Rows(db') = Rows(db) /\ InOrder(db')
  BY <1>1, <1>2, <1>3, WritesInPlace
<1>5. alert'.kind # "one"
  BY <1>1 DEF GroupInv
<1> QED
  BY <1>1, <1>4, <1>5, GroupStays

(* A room writes a message, and its chat under the key the chat has *)
LEMMA GroupStores ==
  ASSUME ListInv, GroupInv, list = GroupedChat, ~rekeyed,
         NEW room \in rooms, beginCacheMessage(room), ~rekeyed'
  PROVE  GroupInv'
<1> DEFINE stored == StoredBy(db, room)
           copy   == [room EXCEPT !.unReadCount = 1]
<1>1. /\ UNCHANGED <<list, queue, alert, dataSource>>
      /\ db' = IF room.uid = 0 THEN stored
               ELSE updateFromChatModel(stored, copy, room.uid)
  BY DEF beginCacheMessage, reloadUserData, ObservesSessions, SingleChat, GroupedChat
<1>2. ~Rekeys(room)
  <2>1. rekeyed' = (rekeyed \/ Rekeys(room))
    BY DEF beginCacheMessage
  <2> QED
    BY <2>1, Zenon
<1>3. /\ TableOK(stored) /\ stored.chat = db.chat
      /\ copy.uid = room.uid /\ copy.id = room.id
      /\ room.uid # 0 => ChatOK(stored, copy)
  BY Cached
<1>4. InOrder(db) /\ TableOK(db)
  BY ListTypes DEF GroupInv
<1> HIDE DEF stored, copy
<1>5. InOrder(stored) /\ Rows(stored) = Rows(db) /\ SameKey(stored, copy)
  <2>1. Rows(stored) = Rows(db)
    BY <1>3, <1>4, SameRows
  <2>2. SameKey(stored, copy)
    BY <1>2, <1>3 DEF SameKey, Rekeys
  <2> QED
    BY <1>3, <1>4, <2>1, <2>2 DEF InOrder
<1>6. Rows(db') = Rows(db) /\ InOrder(db')
  <2>1. CASE room.uid = 0
    BY <1>1, <1>5, <2>1
  <2>2. CASE room.uid # 0
    BY <1>1, <1>3, <1>5, <2>2, WritesInPlace
  <2> QED
    BY <2>1, <2>2
<1>7. alert'.kind # "one"
  BY <1>1 DEF GroupInv
<1> QED
  BY <1>1, <1>6, <1>7, GroupStays

(* A group is left, or another screen deletes messages: no block waits *)
LEMMA GroupElsewhere ==
  ASSUME ListInv, ListInv', GroupInv, list = GroupedChat, ~rekeyed,
         \/ \E room \in rooms : exitGroupChat(room)
         \/ \E kept : otherScreens(kept)
  PROVE  GroupInv'
<1>1. UNCHANGED <<list, queue, alert>> /\ queue = <<>> /\ TableOK(db')
  BY SameList DEF exitGroupChat, CanExit, otherScreens, Elsewhere, Settled, ListInv
<1>2. InOrder(db) /\ TableOK(db) /\ dataSource = Rows(db)
  BY <1>1, ListTypes, GroupsSettled DEF GroupInv
<1>3. db'.chat \subseteq db.chat /\ dataSource' = Rows(db')
  <2>1. CASE \E room \in rooms : exitGroupChat(room)
    BY <1>2, <2>1, DeleteOne DEF exitGroupChat, reloadEveryList
  <2>2. ASSUME NEW kept, otherScreens(kept)
        PROVE  db'.chat \subseteq db.chat /\ dataSource' = Rows(db')
    <3>1. db'.chat = db.chat
      BY <2>2, ListTypes DEF otherScreens, Store
    <3>2. Rows(db') = Rows(db)
      BY <1>1, <1>2, <3>1, SameRows
    <3>3. dataSource' = Rows(db') \/ dataSource' = dataSource
      BY <2>2 DEF otherScreens, reloadUserData, reloadEveryList
    <3> QED
      BY <1>2, <3>1, <3>2, <3>3
  <2> QED
    BY <2>1, <2>2
<1>4. InOrder(db')
  BY <1>2, <1>3, FewerInOrder
<1>5. queue' = <<>> /\ alert'.kind # "one"
  BY <1>1 DEF GroupInv
<1> QED
  BY <1>1, <1>3, <1>4, <1>5, GroupReloads

(* Launched again, after a kill between two statements or not *)
LEMMA GroupRelaunches ==
  ASSUME ListInv, ListInv', GroupInv, list = GroupedChat, ~rekeyed,
         \/ relaunch \/ killedInBlock
         \/ \E room \in rooms : killedInExit(room) \/ killedInWrite(room)
  PROVE  GroupInv'
<1>1. /\ list' = list /\ queue' = <<>> /\ alert' = NoAlert
      /\ dataSource' = Rows(db')
  BY DEF relaunch, killedInBlock, killedInExit, killedInWrite, CutShort, Relaunched
<1>2. TableOK(db) /\ InOrder(db) /\ TableOK(db')
  BY <1>1, ListTypes, SameList DEF GroupInv, ListInv
<1>3. InOrder(db')
  <2>1. CASE relaunch
    BY <1>2, <2>1 DEF relaunch
  <2>2. CASE killedInBlock
    <3>1. queue # <<>> /\ db' = Begun(db, queue[1]) /\ queue[1] \in Task
      BY <2>2, Behind DEF killedInBlock, CutShort
    <3>2. CASE queue[1].kind = "insert"
      BY <3>1, <3>2, InsertionIsLast DEF Begun
    <3>3. CASE queue[1].kind = "delete"
      BY <1>2, <3>1, <3>3, DeleteOne, FewerInOrder DEF Begun
    <3>4. CASE queue[1].kind = "deleteAll"
      BY <1>2, <3>1, <3>4, DeleteAll DEF Begun, InOrder
    <3> QED
      BY <3>1, <3>2, <3>3, <3>4 DEF Task
  <2>3. CASE \E room \in rooms : killedInExit(room)
    BY <1>2, <2>3, DeleteOne, FewerInOrder DEF killedInExit, CutShort
  <2>4. CASE \E room \in rooms : killedInWrite(room)
    <3>1. PICK room \in rooms : db' = StoredBy(db, room)
      BY <2>4 DEF killedInWrite, CutShort
    <3>2. db'.chat = db.chat
      BY <3>1, Cached
    <3> QED
      BY <1>2, <3>2 DEF InOrder
  <2> QED
    BY <2>1, <2>2, <2>3, <2>4
<1>4. alert'.kind # "one"
  BY <1>1 DEF NoAlert
<1> QED
  BY <1>1, <1>2, <1>3, <1>4, GroupReloads

LEMMA GroupStep ==
  ASSUME ListInv, ListInv', GroupInv, [Next]_vars
  PROVE  GroupInv'
<1>1. list' = list
  BY Zenon DEF Next, addUserData, deleteChatFriend, showDeleteAlert, cancelAlert,
     handleDeleteContactsAtRow, removerUserData, runBlock, Opens, didSelectRow,
     leaveList, didSelectSession, openWidgetChat, reloadChatData,
     beginCacheMessage, exitGroupChat, otherScreens, otherRooms, viewDidAppear,
     relaunch, killedInBlock, killedInExit, killedInWrite, CutShort, Relaunched,
     vars
<1>2. ~rekeyed' => ~rekeyed
  <2>1. rekeyed' = rekeyed \/ \E room \in rooms : rekeyed' = (rekeyed \/ Rekeys(room))
    BY Zenon DEF Next, addUserData, deleteChatFriend, showDeleteAlert,
       cancelAlert, handleDeleteContactsAtRow, removerUserData, runBlock, Opens,
       didSelectRow, leaveList, didSelectSession, openWidgetChat,
       reloadChatData, beginCacheMessage, exitGroupChat, otherScreens,
       otherRooms, viewDidAppear, relaunch, killedInBlock, killedInExit,
       killedInWrite, CutShort, Relaunched, vars
  <2> QED
    BY <2>1, Zenon
<1> SUFFICES ASSUME list = GroupedChat, ~rekeyed, ~rekeyed' PROVE GroupInv'
  BY <1>1, <1>2 DEF GroupInv
<1>3. CASE addUserData
  BY <1>3, GroupAdds
<1>4. CASE handleDeleteContactsAtRow
  BY <1>4 DEF handleDeleteContactsAtRow, GroupInv
<1>5. CASE removerUserData
  BY <1>5, GroupConfirms
<1>6. CASE runBlock
  BY <1>6, GroupInserts, GroupDeletes
<1>7. CASE \/ \E row \in DOMAIN dataSource : didSelectRow(row)
           \/ \E uid \in {c.uid : c \in db.chat} : didSelectSession(uid)
  BY <1>7, GroupOpens DEF didSelectRow, didSelectSession
<1>8. CASE \E room \in rooms : beginCacheMessage(room)
  BY <1>8, GroupStores
<1>9. CASE \/ \E room \in rooms : exitGroupChat(room)
           \/ \E kept \in SUBSET {r.id : r \in db.message} : otherScreens(kept)
  BY <1>9, GroupElsewhere
<1>10. CASE \/ relaunch \/ killedInBlock
           \/ \E room \in rooms : killedInExit(room) \/ killedInWrite(room)
  BY <1>10, GroupRelaunches
<1>11. CASE \/ \E row \in DOMAIN dataSource : deleteChatFriend(row)
            \/ showDeleteAlert \/ cancelAlert \/ leaveList \/ openWidgetChat
            \/ otherRooms \/ \E room \in rooms : reloadChatData(room)
            \/ viewDidAppear \/ UNCHANGED vars
  BY <1>11, GroupTouched
<1> QED
  BY <1>3, <1>4, <1>5, <1>6, <1>7, <1>8, <1>9, <1>10, <1>11 DEF Next

LEMMA GroupAlways == Spec => []GroupInv
<1>1. GroupInv /\ ListInv /\ ListInv' /\ [Next]_vars => GroupInv'
  BY GroupStep
<1> QED
  BY <1>1, GroupInitially, ListAlways, PTL DEF Spec

(* No two groups have the same uid, whatever waits to be stored and         *)
(* whichever rooms are still open, unless a room has written its old key   *)
(* over a group that has its uid now (beginCacheMessage): what is done by  *)
(* uid is done to one group.                                               *)
THEOREM GroupUidsAreUnique == Spec => []GroupUidsUnique
<1>1. ListInv /\ GroupInv => GroupUidsUnique
  BY OrderedAreUnique, ListTypes DEF GroupInv, GroupUidsUnique, UidsUnique
<1> QED
  BY <1>1, ListAlways, GroupAlways, PTL

(* Unless a room has written its old key over a group, the list of groups   *)
(* shows the table whenever no block of its own waits: its addGroupData    *)
(* and removerGroupData agree with what they have queued.                  *)
THEOREM GroupsMirrorTheTable == Spec => []GroupListMirrorsTable
<1>1. ListInv /\ GroupInv => GroupListMirrorsTable
  BY GroupsSettled DEF GroupListMirrorsTable
<1> QED
  BY <1>1, ListAlways, GroupAlways, PTL

=============================================================================
