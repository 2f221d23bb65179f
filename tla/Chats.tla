-------------------------------- MODULE Chats --------------------------------
(***************************************************************************)
(* The chats of one study: src/internal/handlers/chats.go and              *)
(* highlights.go, with the ChatRepo and the HighlightRepo of               *)
(* src/internal/db/repo.go, on the tables chats, chat_messages and         *)
(* highlights of migration 0002.                                           *)
(*                                                                         *)
(* A question is asked over a stream or by a durable turn, whose life is   *)
(* ChatTurns; here it matters what the tutor is told and what is written   *)
(* where.  A request reads the chat, and others write before it does.      *)
(* What a message says never changes and goes only with its chat, so a     *)
(* branch, an excerpt or a bookmark written late is one written at once    *)
(* whose chat is deleted afterwards, or nothing: these are one step.       *)
(* Titles and the order of the list are left out; a message says which     *)
(* question it is, or answers.                                             *)
(***************************************************************************)
EXTENDS Naturals, Sequences, SequencesExt

CONSTANTS
    Askers,       \* requests and turns that may be under way at the same time
    MaxChats,     \* bound: chats ever created in the study
    MaxMessages,  \* bound: messages ever written
    MaxMarks      \* bound: bookmarks and excerpts at a time

ASSUME ChatsAssumption == MaxChats \in Nat /\ MaxMessages \in Nat /\ MaxMarks \in Nat

VARIABLES
    shown,     \* whether the study is there
    chats,     \* its rows of table chats
    msg,       \* [MsgIds -> Message]: table chat_messages
    ids,       \* the last ids AUTOINCREMENT handed out
    ask,       \* [Askers -> what the request has read]
    excerpts   \* the highlights of messages: whose they are said to be, and whether the
               \* words are its own

chatVars == <<shown, chats, msg, ids, ask, excerpts>>

ChatIds == 1..MaxChats
MsgIds  == 1..MaxMessages
Message == [chat : 0..MaxChats, parent : 0..MaxMessages, role : {"none", "user", "assistant"},
            text : 0..MaxMessages, saved : BOOLEAN]
Asking  == [pc : {"idle", "pane", "stream", "told", "turn", "queued", "running"},
            chat : 0..MaxChats, msg : 0..MaxMessages, prompt : SUBSET MsgIds]

NoMessage == [chat |-> 0, parent |-> 0, role |-> "none", text |-> 0, saved |-> FALSE]
NoAsk     == [pc |-> "idle", chat |-> 0, msg |-> 0, prompt |-> {}]

ChatsTypeOK ==
    /\ shown \in BOOLEAN
    /\ chats \subseteq ChatIds
    /\ msg \in [MsgIds -> Message]
    /\ ids \in [chat : 0..MaxChats, msg : 0..MaxMessages]
    /\ ask \in [Askers -> Asking]
    /\ excerpts \subseteq [source : MsgIds, own : BOOLEAN]

ChatsInit ==
    /\ shown = TRUE
    /\ chats = {}
    /\ msg = [m \in MsgIds |-> NoMessage]
    /\ ids = [chat |-> 0, msg |-> 0]
    /\ ask = [a \in Askers |-> NoAsk]
    /\ excerpts = {}

\* The repositories' reads: a chat, and its messages in the order of their ids.
Get(c)      == {d \in chats : d = c}
Messages(c) == {m \in MsgIds : msg[m].chat = c}
Kept    == {m \in MsgIds : msg[m].chat # 0}
LastOf(S)    == CHOOSE m \in S \cup {0} : \A n \in S : n <= m

\* The messages from the root to m.
Thread[m \in MsgIds] ==
    IF msg[m].parent = 0 THEN <<m>> ELSE Append(Thread[msg[m].parent], m)

\* The bounds: a chat or a question is asked for only while there is room for it.
Takes(a, q) ==
    /\ ask[a].pc = "idle" /\ shown
    /\ IF q.pc = "pane" THEN ids.chat < MaxChats ELSE ids.msg < MaxMessages
    /\ ask' = [ask EXCEPT ![a] = q]

Leaves(a) == ask' = [ask EXCEPT ![a] = NoAsk]

\* startAI: one call of the learner at a time, of whichever kind.
SlotFree == \A a \in Askers : ask[a].pc \notin {"stream", "told", "running"}

-----------------------------------------------------------------------------
(* Chats *)

\* ChatRepo.Create.
NewChat ==
    /\ shown /\ ids.chat < MaxChats
    /\ chats' = chats \cup {ids.chat + 1}
    /\ ids' = [ids EXCEPT !.chat = @ + 1]
    /\ UNCHANGED <<shown, msg, excerpts>>

ChatCreate == NewChat /\ UNCHANGED ask

\* ensureChats: the pane finds no chat, and creates a first one.
Pane(a) ==
    /\ chats = {}
    /\ Takes(a, [NoAsk EXCEPT !.pc = "pane"])
    /\ UNCHANGED <<shown, chats, msg, ids, excerpts>>

FirstChat(a) == ask[a].pc = "pane" /\ NewChat /\ Leaves(a)

\* ON DELETE CASCADE: a chat goes with its messages.
ChatDelete(c) ==
    /\ Get(c) # {}
    /\ chats' = chats \ {c}
    /\ msg' = [m \in MsgIds |-> IF msg[m].chat = c THEN NoMessage ELSE msg[m]]
    /\ UNCHANGED <<shown, ids, ask, excerpts>>

-----------------------------------------------------------------------------
(* Questions and answers *)

\* AddMessage, and the inserts of Create and Complete: the chat must be there.
AddMessage(c, p, role, text) ==
    /\ c \in chats /\ ids.msg < MaxMessages
    /\ msg' = [msg EXCEPT ![ids.msg + 1] =
                  [chat |-> c, parent |-> p, role |-> role, text |-> text, saved |-> FALSE]]
    /\ ids' = [ids EXCEPT !.msg = @ + 1]
    /\ UNCHANGED <<shown, chats, excerpts>>

\* ChatStream: the slot, then the messages so far, none where reading them fails.
ChatStream(a, c) ==
    /\ Get(c) # {} /\ SlotFree
    /\ \E told \in {Messages(c), {}} :
          Takes(a, [NoAsk EXCEPT !.pc = "stream", !.chat = c, !.msg = LastOf(told),
                                 !.prompt = told])
    /\ UNCHANGED <<shown, chats, msg, ids, excerpts>>

\* The question under the last message read, and the call about both.
Question(a, under) ==
    /\ ask[a].pc = "stream"
    /\ AddMessage(ask[a].chat, under, "user", ids.msg + 1)
    /\ ask' = [ask EXCEPT ![a].pc = "told", ![a].msg = ids.msg + 1,
                          ![a].prompt = @ \cup {ids.msg + 1}]

\* Mutant: the question goes under what is the last message by then.
AddQuestionLast(a) == Question(a, LastOf(Messages(ask[a].chat)))

AddQuestion(a) == Question(a, ask[a].msg)

\* ChatTurnCreate reads the last message before its transaction, and needs no slot.
ChatTurnCreate(a, c) ==
    /\ Get(c) # {}
    /\ Takes(a, [NoAsk EXCEPT !.pc = "turn", !.chat = c, !.msg = LastOf(Messages(c))])
    /\ UNCHANGED <<shown, chats, msg, ids, excerpts>>

CreateTurn(a) ==
    /\ ask[a].pc = "turn"
    /\ AddMessage(ask[a].chat, ask[a].msg, "user", ids.msg + 1)
    /\ ask' = [ask EXCEPT ![a].pc = "queued", ![a].msg = ids.msg + 1]

\* executeChatTurn: the whole chat as it is now.
RunTurn(a) ==
    /\ ask[a].pc = "queued" /\ ask[a].chat \in chats /\ SlotFree
    /\ ask' = [ask EXCEPT ![a].pc = "running", ![a].prompt = Messages(ask[a].chat)]
    /\ UNCHANGED <<shown, chats, msg, ids, excerpts>>

\* Mutant: the answer goes under the last message.
AnswerLast(a) ==
    /\ ask[a].pc \in {"told", "running"}
    /\ AddMessage(ask[a].chat, LastOf(Messages(ask[a].chat)), "assistant", msg[ask[a].msg].text)
    /\ Leaves(a)

\* The answer, under the question it was asked with.
Answer(a) ==
    /\ ask[a].pc \in {"told", "running"}
    /\ AddMessage(ask[a].chat, ask[a].msg, "assistant", msg[ask[a].msg].text)
    /\ Leaves(a)

\* A turn that failed, or was interrupted by a crash, may be run again.
TurnFails(a) ==
    /\ ask[a].pc = "running"
    /\ ask' = [ask EXCEPT ![a].pc = "queued", ![a].prompt = {}]
    /\ UNCHANGED <<shown, chats, msg, ids, excerpts>>

\* A request is refused, fails or is left, the process dies, a turn is not retried.
Dropped(a) ==
    /\ ask[a].pc # "idle"
    /\ Leaves(a)
    /\ UNCHANGED <<shown, chats, msg, ids, excerpts>>

-----------------------------------------------------------------------------
(* Branches *)

\* BranchFrom's transaction: a new chat with what the walk from the message to the
\* root has read, the other way round.
Branch(chain) ==
    /\ shown /\ ids.chat < MaxChats /\ ids.msg + Len(chain) <= MaxMessages
    /\ chats' = chats \cup {ids.chat + 1}
    /\ msg' = [m \in MsgIds |->
                  IF m \in ids.msg + 1..ids.msg + Len(chain)
                  THEN [msg[chain[m - ids.msg]] EXCEPT
                           !.chat = ids.chat + 1, !.saved = FALSE,
                           !.parent = IF m = ids.msg + 1 THEN 0 ELSE m - 1]
                  ELSE msg[m]]
    /\ ids' = [chat |-> ids.chat + 1, msg |-> ids.msg + Len(chain)]
    /\ UNCHANGED <<shown, ask, excerpts>>

ChatBranch(m) == m \in Kept /\ Branch(Thread[m])

-----------------------------------------------------------------------------
(* Bookmarks and excerpts *)

\* SavedPanel shows both.
Bookmarked == {m \in Kept : msg[m].saved}
Marks      == Cardinality(Bookmarked) + Cardinality(excerpts)

\* HighlightRepo's statements.  What is stored is what the browser selected: nobody
\* compares it with the message, and a selection may run on into others.
InsertHighlight(m, own) == excerpts' = excerpts \cup {[source |-> m, own |-> own]}
RemoveHighlight(x)      == excerpts' = excerpts \ {x}

SaveMessage(m) ==
    /\ m \in Kept /\ (~msg[m].saved => Marks < MaxMarks)
    /\ msg' = [msg EXCEPT ![m].saved = ~@]
    /\ UNCHANGED <<shown, chats, ids, ask, excerpts>>

CreateHighlight(m) ==
    /\ m \in Kept /\ Marks < MaxMarks
    /\ \E own \in BOOLEAN : InsertHighlight(m, own)
    /\ UNCHANGED <<shown, chats, msg, ids, ask>>

DeleteHighlight(x) ==
    /\ RemoveHighlight(x)
    /\ UNCHANGED <<shown, chats, msg, ids, ask>>

-----------------------------------------------------------------------------
\* DeleteStudy: ON DELETE CASCADE.
ChatsGone ==
    /\ shown' = FALSE /\ chats' = {} /\ excerpts' = {}
    /\ msg' = [m \in MsgIds |-> NoMessage]
    /\ UNCHANGED <<ids, ask>>

ChatsNext ==
    \/ ChatCreate
    \/ \E c \in ChatIds : ChatDelete(c)
    \/ \E a \in Askers :
          \/ Pane(a) \/ FirstChat(a) \/ Dropped(a)
          \/ \E c \in ChatIds : ChatStream(a, c) \/ ChatTurnCreate(a, c)
          \/ AddQuestion(a) \/ CreateTurn(a) \/ RunTurn(a) \/ Answer(a) \/ TurnFails(a)
    \/ \E m \in MsgIds : ChatBranch(m) \/ SaveMessage(m) \/ CreateHighlight(m)
    \/ \E x \in excerpts : DeleteHighlight(x)

-----------------------------------------------------------------------------
(* Properties *)

\* The messages of a chat are threads that start with a question: a message hangs
\* under an earlier one of its chat, and an answer under the question it answers,
\* whatever else was written between the question and the answer.  (So BranchFrom
\* finds a root from every message.)
Threads ==
    \A m \in Kept :
        LET p == msg[m].parent IN
        IF p = 0 THEN msg[m].role = "user"
        ELSE /\ p < m /\ msg[p].chat = msg[m].chat
             /\ msg[m].role = "assistant" => msg[p].role = "user" /\ msg[p].text = msg[m].text

\* While the tutor answers, it has been told everything its question hangs under:
\* what was written between the read and the question is not what it replies to.
AskedInContext ==
    \A a \in Askers : ask[a].pc \in {"told", "running"} /\ ask[a].chat \in chats =>
        \A i \in DOMAIN Thread[ask[a].msg] : Thread[ask[a].msg][i] \in ask[a].prompt

\* Reads m and everything above it.
ReadsAs(m) == [i \in DOMAIN Thread[m] |-> [role |-> msg[Thread[m][i]].role, text |-> msg[Thread[m][i]].text]]

\* A branch, and a branch of a branch, reads like the original up to the message it
\* was made from.
BranchesRead ==
    \A m \in Kept :
        LET o == msg[m].text IN
        msg[m].role = "user" /\ o \in Kept => ReadsAs(m) = ReadsAs(o)

\* What the learner reads: threads, in the original and in its branches.
ReadsWell == Threads /\ BranchesRead
=============================================================================
