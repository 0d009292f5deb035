---------------------------- MODULE MessageBuffer ---------------------------
(***************************************************************************)
(* The client's message buffer: the conversations and messages of the      *)
(* session, what is unread, and the place kept for the one message the     *)
(* user has submitted and the server has not yet accepted.  The receiver   *)
(* thread and the main thread use it, each call under the buffer's mutex.  *)
(*                                                                         *)
(* A message is its id and its conversation; sender and content count as   *)
(* one byte.  stateVersion and its overflow are left out.                  *)
(***************************************************************************)
EXTENDS Naturals, FiniteSets, Functions

CONSTANTS
  Key,               \* ConversationKey: private chats, groups, the broadcast
  KeyBytes,          \* bytes of the user name in a key, 0 for the others
  NoKey,
  MaxId,             \* bound of the model: message ids are 1..MaxId
  MaxConversations,  \* 256 in the code
  MaxMessages,       \* 4096
  MaxTextBytes,      \* 16 MiB
  SizeRange          \* 2^64, the values of a std::size_t

ASSUME KeyAssumption == /\ NoKey \notin Key
                        /\ KeyBytes \in [Key -> Nat]
ASSUME LimitAssumption ==
  /\ MaxId \in Nat
  /\ MaxConversations \in Nat \ {0}
  /\ MaxMessages \in Nat \ {0}
  /\ MaxTextBytes \in Nat
  /\ SizeRange \in Nat \ {0}

VARIABLES
  conversations,  \* the handle, message ids and unread arrivals of each key
  messagesById,   \* the conversation, direction and arrival of each id
  reserved,       \* key of reservedMessage
  created,        \* reservedConversationCreated
  retained,       \* retainedTextBytes
  nextHandle,
  nextArrival     \* nextArrivalSequence

bufferVars == <<conversations, messagesById, reserved, created, retained,
                nextHandle, nextArrival>>

Id   == 1..MaxId
Open == DOMAIN conversations

Conversation(handle, ids, unread) ==
  [handle |-> handle, messages |-> ids, unread |-> unread]

Message(k, outgoing, arrival) ==
  [key |-> k, outgoing |-> outgoing, arrival |-> arrival]

With(f, x, y) == [z \in DOMAIN f \cup {x} |-> IF z = x THEN y ELSE f[z]]
Without(f, x) == [z \in DOMAIN f \ {x} |-> f[z]]

MessageBytes(k) == KeyBytes[k] + 1
MessageCost     == [i \in DOMAIN messagesById |->
                     MessageBytes(messagesById[i].key)]
ReservedBytes   == IF reserved = NoKey THEN 0 ELSE MessageBytes(reserved)

\* What is left of MaxTextBytes, as the unsigned subtraction gives it.
BytesLeft(used) == (MaxTextBytes + SizeRange - used) % SizeRange

\* The bytes a conversation costs when k has none yet.
OpeningBytes(k) == IF k \in Open THEN 0 ELSE KeyBytes[k]

BufferInit ==
  /\ conversations = <<>>
  /\ messagesById  = <<>>
  /\ reserved      = NoKey
  /\ created       = FALSE
  /\ retained      = 0
  /\ nextHandle    = 1
  /\ nextArrival   = 1

-----------------------------------------------------------------------------
(* ensureConversation.                                                     *)

MayOpen(k) ==
  \/ k \in Open
  \/ /\ Cardinality(Open) < MaxConversations
     /\ KeyBytes[k] <= BytesLeft(retained)
     /\ nextHandle <= MaxConversations

EnsureConversation(k) ==
  /\ MayOpen(k)
  /\ IF k \in Open
       THEN UNCHANGED bufferVars
       ELSE /\ conversations' = With(conversations, k,
                                     Conversation(nextHandle, {}, {}))
            /\ nextHandle' = nextHandle + 1
            /\ retained' = retained + KeyBytes[k]
            /\ UNCHANGED <<messagesById, reserved, created, nextArrival>>

-----------------------------------------------------------------------------
(* receiveValidated: Duplicate, Conflict, CapacityExceeded or Stored.      *)

Known(i) == i \in DOMAIN messagesById

SameIncoming(i, k) == ~messagesById[i].outgoing /\ messagesById[i].key = k

\* Variant: only the messages held count, not the place reserved.
MayStoreHeldOnly(k) ==
  /\ Cardinality(DOMAIN messagesById) < MaxMessages
  /\ k \in Open \/ Cardinality(Open) < MaxConversations
  /\ MessageBytes(k) + OpeningBytes(k) <= BytesLeft(retained + ReservedBytes)

MayStore(k) ==
  /\ Cardinality(DOMAIN messagesById) + (IF reserved = NoKey THEN 0 ELSE 1)
       < MaxMessages
  /\ k \in Open \/ Cardinality(Open) < MaxConversations
  /\ MessageBytes(k) + OpeningBytes(k) <= BytesLeft(retained + ReservedBytes)

ReceiveResult(i, k) ==
  IF Known(i) THEN IF SameIncoming(i, k) THEN "Duplicate" ELSE "Conflict"
  ELSE IF MayStore(k) THEN "Stored" ELSE "CapacityExceeded"

\* The conversation of k after message i joins it.
Joined(k, i, unread) ==
  IF k \in Open
    THEN [conversations[k] EXCEPT !.messages = @ \cup {i},
                                  !.unread   = @ \cup unread]
    ELSE Conversation(nextHandle, {i}, unread)

StoreIncoming(i, k) ==
  /\ ReceiveResult(i, k) = "Stored"
  /\ conversations' = With(conversations, k, Joined(k, i, {nextArrival}))
  /\ messagesById' = With(messagesById, i, Message(k, FALSE, nextArrival))
  /\ nextHandle' = IF k \in Open THEN nextHandle ELSE nextHandle + 1
  /\ retained' = retained + MessageBytes(k) + OpeningBytes(k)
  /\ nextArrival' = nextArrival + 1
  /\ UNCHANGED <<reserved, created>>

-----------------------------------------------------------------------------
(* The outgoing message: reserved before its request is written, committed *)
(* under the id the server accepted it with, or cancelled.                 *)

MayReserve(k) ==
  /\ reserved = NoKey
  /\ Cardinality(DOMAIN messagesById) < MaxMessages
  /\ k \in Open \/ Cardinality(Open) < MaxConversations
  /\ MessageBytes(k) + OpeningBytes(k) <= BytesLeft(retained)

ReserveOutgoing(k) ==
  /\ MayReserve(k)
  /\ reserved' = k
  /\ created' = (k \notin Open)
  /\ IF k \in Open
       THEN UNCHANGED <<conversations, nextHandle, retained>>
       ELSE /\ conversations' = With(conversations, k,
                                     Conversation(nextHandle, {}, {}))
            /\ nextHandle' = nextHandle + 1
            /\ retained' = retained + KeyBytes[k]
  /\ UNCHANGED <<messagesById, nextArrival>>

MayCommit(i) == reserved # NoKey /\ ~Known(i)

CommitOutgoing(i) ==
  /\ MayCommit(i)
  /\ conversations' =
       [conversations EXCEPT ![reserved].messages = @ \cup {i}]
  /\ messagesById' =
       With(messagesById, i, Message(reserved, TRUE, nextArrival))
  /\ retained' = retained + ReservedBytes
  /\ nextArrival' = nextArrival + 1
  /\ reserved' = NoKey
  /\ created' = FALSE
  /\ UNCHANGED nextHandle

TakesBackConversation ==
  created /\ reserved \in Open /\ conversations[reserved].messages = {}

\* Variant: a name is taken back from a conversation that stays.
CancelTakesBytes ==
  /\ reserved' = NoKey
  /\ created' = FALSE
  /\ retained' = retained - KeyBytes[reserved]
  /\ IF reserved # NoKey /\ TakesBackConversation
       THEN /\ conversations' = Without(conversations, reserved)
            /\ nextHandle' = nextHandle - 1
       ELSE UNCHANGED <<conversations, nextHandle>>
  /\ UNCHANGED <<messagesById, nextArrival>>

CancelOutgoing ==
  /\ reserved' = NoKey
  /\ created' = FALSE
  /\ IF reserved # NoKey /\ TakesBackConversation
       THEN /\ conversations' = Without(conversations, reserved)
            /\ nextHandle' = nextHandle - 1
            /\ retained' = retained - KeyBytes[reserved]
       ELSE UNCHANGED <<conversations, nextHandle, retained>>
  /\ UNCHANGED <<messagesById, nextArrival>>

-----------------------------------------------------------------------------
(* snapshot and markViewed.                                                *)

MessagesOf(k) == IF k \in Open THEN conversations[k].messages ELSE {}

\* The latest arrival among the messages of k, 0 if there is none.
MaximumArrival(k) ==
  LET arrivals == {messagesById[i].arrival : i \in MessagesOf(k)} IN
  IF arrivals = {} THEN 0
  ELSE CHOOSE n \in arrivals : \A m \in arrivals : m <= n

Unread(k) == IF k \in Open THEN conversations[k].unread ELSE {}

MarkViewed(k, through) ==
  /\ \E n \in Unread(k) : n <= through
  /\ conversations' =
       [conversations EXCEPT ![k].unread = {n \in @ : n > through}]
  /\ UNCHANGED <<messagesById, reserved, created, retained, nextHandle,
                 nextArrival>>

-----------------------------------------------------------------------------
(* What the buffer keeps.                                                  *)

BufferTypeOK ==
  /\ Open \subseteq Key
  /\ \A k \in Open :
       conversations[k] \in
         [handle : Nat, messages : SUBSET Id, unread : SUBSET Nat]
  /\ DOMAIN messagesById \subseteq Id
  /\ \A i \in DOMAIN messagesById :
       messagesById[i] \in [key : Key, outgoing : BOOLEAN, arrival : Nat]
  /\ reserved \in Key \cup {NoKey}
  /\ created \in BOOLEAN
  /\ retained \in Nat
  /\ nextHandle \in Nat
  /\ nextArrival \in Nat

\* A notification number stands for one conversation: the number the user
\* types opens the conversation it is shown for, whichever thread opened others
\* since (cancelOutgoing gives the number of a conversation back only when the
\* reservation itself created it, and the interface opens it before).
HandlesAreUnique ==
  \A k, l \in Open : conversations[k].handle = conversations[l].handle => k = l

\* The limits on messages and bytes hold with the reserved place counted, so
\* that the message the server accepts always finds its place (receiveValidated
\* counts the reservation, commitOutgoing checks no limit, and
\* ensureConversationLocked looks at what is held only: beyond the limit the
\* subtraction in receiveValidated would wrap round and lift it).  And
\* retainedTextBytes is exactly what the conversations and the messages cost:
\* no sequence of reservations, commits and cancellations leaks bytes.
BufferLimits ==
  /\ Cardinality(DOMAIN messagesById) + (IF reserved = NoKey THEN 0 ELSE 1)
       <= MaxMessages
  /\ retained + ReservedBytes <= MaxTextBytes
  /\ retained = SumFunctionOnSet(KeyBytes, Open) + SumFunction(MessageCost)
=============================================================================
