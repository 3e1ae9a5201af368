---------------------------------- MODULE AiChat ----------------------------------
(***************************************************************************)
(* A turn of a chat with tools (src/plugins/ai/service.go, ChatWithTools), *)
(* the confirmations its tools wait for, and the memories extracted from   *)
(* it (src/plugins/ai/memory.go).                                          *)
(*                                                                         *)
(* The model answers with text or with one tool call; the identifier of a  *)
(* call is the model's own choice, so that two calls may bear the same.    *)
(* A tool is described by what ChatWithTools asks of it. A confirmation    *)
(* waits in a map under the call's identifier, with the user and a channel *)
(* of one element; Confirm looks it up under a mutex, and sends after.     *)
(***************************************************************************)
EXTENDS Naturals, FiniteSets

CONSTANTS Chats, Confirms,  \* requests
          ChatUsers, CallIds,
          Convs,            \* conversations' ids
          MaxRounds,        \* 10 in the code
          Facts, MaxMemories, Headroom  \* 1000 and 50 in the code

ASSUME ChatAssumption == "none" \notin ChatUsers /\ MaxRounds \in Nat
ASSUME MemoryAssumption ==
  /\ IsFiniteSet(Facts) /\ IsFiniteSet(Chats)
  /\ {MaxMemories, Headroom} \subseteq Nat \ {0}

VARIABLES chat,        \* the turns
          chatBuffer,  \* the channels, one for each round of a turn
          chatPending, \* pendingConfirms: the channel under each id, or NoChannel
          confirm,     \* the calls of Confirm
          chatConvs,   \* rows of conversations: the owner, or "none"
          chatMsgs,    \* conversations that have messages
          chatFaults,
          chatMet      \* two turns have waited under one id ("ids"), one was answered twice ("twice"),
                       \* a conversation was deleted during a turn ("deleted")

chatVars == <<chat, chatBuffer, chatPending, confirm, chatConvs, chatMsgs, chatFaults, chatMet>>

VARIABLES memories,    \* the rows: how many a user has of each fact
          memSaver,    \* the extractions
          memMet       \* two extractions of one user have been in progress at the same time

memVars == <<memories, memSaver, memMet>>

NoOwner == "none"
Channel == [turn : Chats, round : 1..MaxRounds]
NoChannel == [turn |-> NoOwner, round |-> 0]
Tools == [admin : BOOLEAN, confirmed : BOOLEAN]
Decision == [yes : BOOLEAN, by : ChatUsers]
Turn == [step : {"idle", "asked", "call", "wait", "answered", "done"}, user : ChatUsers \cup {NoOwner}, admin : BOOLEAN,
         conv : SUBSET Convs, round : 0..MaxRounds, id : SUBSET CallIds, tool : SUBSET Tools, heard : SUBSET Decision]
Answer == [step : {"idle", "send", "done"}, to : Channel \cup {NoChannel}, says : SUBSET Decision]

ChatTypeOK ==
  /\ chat \in [Chats -> Turn]
  /\ chatBuffer \in [Channel -> SUBSET Decision]
  /\ chatPending \in [CallIds -> Channel \cup {NoChannel}]
  /\ confirm \in [Confirms -> Answer]
  /\ chatConvs \in [Convs -> ChatUsers \cup {NoOwner}] /\ chatMsgs \subseteq Convs
  /\ chatFaults \subseteq {"unconfirmed", "admin"} /\ chatMet \subseteq {"ids", "twice", "deleted"}

\* What a field holds that has nothing to hold: the empty set, else a set of one.
NoTurn == [step |-> "idle", user |-> NoOwner, admin |-> FALSE, conv |-> {}, round |-> 0, id |-> {}, tool |-> {},
           heard |-> {}]
NoAnswer == [step |-> "idle", to |-> NoChannel, says |-> {}]

ChatInit ==
  /\ chat = [c \in Chats |-> NoTurn]
  /\ chatBuffer = [x \in Channel |-> {}]
  /\ chatPending = [i \in CallIds |-> NoChannel]
  /\ confirm = [k \in Confirms |-> NoAnswer]
  /\ chatConvs = [v \in Convs |-> NoOwner] /\ chatMsgs = {}
  /\ chatFaults = {} /\ chatMet = {}

-----------------------------------------------------------------------------
(* The turn.                                                               *)

ChatAt(c, step) == chat[c].step = step
ChatGo(c, t) == chat' = [chat EXCEPT ![c] = t]
Asked(u, admin, conv, n) ==
  [step |-> "asked", user |-> u, admin |-> admin, conv |-> conv, round |-> n, id |-> {}, tool |-> {}, heard |-> {}]
NextRound(c) == ChatGo(c, Asked(chat[c].user, chat[c].admin, chat[c].conv, chat[c].round))
ChannelOf(c) == [turn |-> c, round |-> chat[c].round]
InTurn(c) == chat[c].step \notin {"idle", "done"}

\* In a conversation of the user's, or a new one; the user's message is saved. The role is read once.
ChatWithTools(c) ==
  /\ ChatAt(c, "idle")
  /\ \E u \in ChatUsers, v \in Convs, admin \in BOOLEAN :
       /\ chatConvs[v] = u \/ (chatConvs[v] = NoOwner /\ v \notin chatMsgs)
       /\ chatConvs' = [chatConvs EXCEPT ![v] = u] /\ chatMsgs' = chatMsgs \cup {v}
       /\ ChatGo(c, Asked(u, admin, {v}, 0))
  /\ UNCHANGED <<chatBuffer, chatPending, confirm, chatFaults, chatMet>>

\* The model's answer asks for a tool.
AskModel(c) ==
  /\ ChatAt(c, "asked") /\ chat[c].round < MaxRounds
  /\ \E i \in CallIds, t \in Tools :
       ChatGo(c, [chat[c] EXCEPT !.step = "call", !.round = @ + 1, !.id = {i}, !.tool = {t}])
  /\ UNCHANGED <<chatBuffer, chatPending, confirm, chatConvs, chatMsgs, chatFaults, chatMet>>

ToolRefused(t) == ~t.admin /\ \E x \in t.tool : x.admin
MustConfirm(t) == \E x \in t.tool : x.confirmed

RefuseTool(c) ==
  /\ ChatAt(c, "call") /\ ToolRefused(chat[c])
  /\ NextRound(c)
  /\ UNCHANGED <<chatBuffer, chatPending, confirm, chatConvs, chatMsgs, chatFaults, chatMet>>

\* A new channel; whatever waits under the same id is not looked at.
AwaitConfirmation(c) ==
  /\ ChatAt(c, "call") /\ ~ToolRefused(chat[c]) /\ MustConfirm(chat[c])
  /\ ChatGo(c, [chat[c] EXCEPT !.step = "wait"])
  /\ chatPending' = [i \in CallIds |-> IF i \in chat[c].id THEN ChannelOf(c) ELSE chatPending[i]]
  /\ chatMet' = chatMet \cup {m \in {"ids"} : \E i \in chat[c].id : chatPending[i] # NoChannel}
  /\ UNCHANGED <<chatBuffer, confirm, chatConvs, chatMsgs, chatFaults>>

\* The user's decision, or the browser has gone, and with it the request's context.
ConfirmationArrives(c) ==
  /\ ChatAt(c, "wait")
  /\ \/ \E d \in chatBuffer[ChannelOf(c)] :
          /\ ChatGo(c, [chat[c] EXCEPT !.step = "answered", !.heard = {d}])
          /\ chatBuffer' = [chatBuffer EXCEPT ![ChannelOf(c)] = {}]
     \/ /\ ChatGo(c, [chat[c] EXCEPT !.step = "answered", !.heard = {}])
        /\ UNCHANGED chatBuffer
  /\ UNCHANGED <<chatPending, confirm, chatConvs, chatMsgs, chatFaults, chatMet>>

Approved(t) == \E d \in t.heard : d.yes
Without(c) == [i \in CallIds |-> IF i \in chat[c].id THEN NoChannel ELSE chatPending[i]]

KeepPending(c) ==
  /\ ChatAt(c, "answered") /\ ~Approved(chat[c])
  /\ NextRound(c)
  /\ UNCHANGED <<chatBuffer, chatPending, confirm, chatConvs, chatMsgs, chatFaults, chatMet>>

\* The entry under the id is deleted, whoever's it is.
RejectTool(c) ==
  /\ ChatAt(c, "answered") /\ ~Approved(chat[c])
  /\ chatPending' = Without(c)
  /\ NextRound(c)
  /\ UNCHANGED <<chatBuffer, confirm, chatConvs, chatMsgs, chatFaults, chatMet>>

ToolMayRun(c) == \/ ChatAt(c, "call") /\ ~ToolRefused(chat[c]) /\ ~MustConfirm(chat[c])
                 \/ ChatAt(c, "answered") /\ Approved(chat[c])

ExecuteTool(c) ==
  /\ ToolMayRun(c)
  /\ chatPending' = (IF ChatAt(c, "answered") THEN Without(c) ELSE chatPending)
  /\ NextRound(c)
  /\ chatFaults' = chatFaults
       \cup {f \in {"unconfirmed"} : MustConfirm(chat[c]) /\ chat[c].heard # {[yes |-> TRUE, by |-> chat[c].user]}}
       \cup {f \in {"admin"} : ToolRefused(chat[c])}
  /\ UNCHANGED <<chatBuffer, confirm, chatConvs, chatMsgs, chatMet>>

\* The model answers with text, fails, or the rounds are used up; the assistant's message is
\* saved unless there was no text. The conversation may have been deleted in the meantime.
FinishTurn(c) ==
  /\ ChatAt(c, "asked")
  /\ ChatGo(c, [NoTurn EXCEPT !.step = "done", !.round = chat[c].round])
  /\ \/ chatMsgs' = chatMsgs \cup chat[c].conv
     \/ UNCHANGED chatMsgs
  /\ UNCHANGED <<chatBuffer, chatPending, confirm, chatConvs, chatFaults, chatMet>>

\* With its messages.
DeleteConversation ==
  /\ \E v \in Convs : /\ chatConvs[v] # NoOwner
                      /\ chatConvs' = [chatConvs EXCEPT ![v] = NoOwner] /\ chatMsgs' = chatMsgs \ {v}
                      /\ chatMet' = chatMet \cup {m \in {"deleted"} : \E c \in Chats : InTurn(c) /\ v \in chat[c].conv}
  /\ UNCHANGED <<chat, chatBuffer, chatPending, confirm, chatFaults>>

-----------------------------------------------------------------------------
(* Confirm and ResolveConfirmation.                                        *)

Answered(c) == \/ ChatAt(c, "answered") \/ chatBuffer[ChannelOf(c)] # {}
               \/ \E k \in Confirms : confirm[k].step = "send" /\ confirm[k].to = ChannelOf(c)

\* Only the entry's own user may answer it.
ResolveConfirmation(k) ==
  /\ confirm[k].step = "idle"
  /\ \E i \in CallIds, d \in Decision :
       /\ chatPending[i] # NoChannel /\ d.by = chat[chatPending[i].turn].user
       /\ confirm' = [confirm EXCEPT ![k] = [step |-> "send", to |-> chatPending[i], says |-> {d}]]
       /\ chatMet' = chatMet \cup {m \in {"twice"} : Answered(chatPending[i].turn)}
  /\ UNCHANGED <<chat, chatBuffer, chatPending, chatConvs, chatMsgs, chatFaults>>

\* The send waits while the buffer is full, whether or not anybody still listens.
SendAnswer(k) ==
  /\ confirm[k].step = "send" /\ chatBuffer[confirm[k].to] = {}
  /\ confirm' = [confirm EXCEPT ![k] = [NoAnswer EXCEPT !.step = "done"]]
  /\ chatBuffer' = [chatBuffer EXCEPT ![confirm[k].to] = confirm[k].says]
  /\ UNCHANGED <<chat, chatPending, chatConvs, chatMsgs, chatFaults, chatMet>>

ChatNext ==
  \/ \E c \in Chats : \/ ChatWithTools(c) \/ AskModel(c) \/ RefuseTool(c) \/ AwaitConfirmation(c)
                      \/ ConfirmationArrives(c) \/ RejectTool(c) \/ ExecuteTool(c) \/ FinishTurn(c)
  \/ \E k \in Confirms : ResolveConfirmation(k) \/ SendAnswer(k)
  \/ DeleteConversation

\* A tool that needs it runs only on the approval of the turn's own user, and one for
\* administrators only in an administrator's turn. A turn that waits can be answered, unless
\* another waited under its id; no entry is left behind by a turn that waits no longer; a
\* Confirm does not wait for a reader who is gone, unless somebody answered twice; and
\* messages have a conversation, unless it was deleted during a turn.
ChatsConfirmed ==
  /\ chatFaults = {}
  /\ "ids" \in chatMet \/ \A c \in Chats : ChatAt(c, "wait") => \A i \in chat[c].id : chatPending[i] = ChannelOf(c)
  /\ \A i \in CallIds : \/ chatPending[i] = NoChannel
                        \/ \E c \in Chats : chatPending[i] = ChannelOf(c) /\ chat[c].step \in {"wait", "answered"}
  /\ "twice" \in chatMet \/ \A k \in Confirms : confirm[k].step = "send" => chatBuffer[confirm[k].to] = {}
  /\ "deleted" \in chatMet \/ \A v \in chatMsgs : chatConvs[v] # NoOwner

-----------------------------------------------------------------------------
(* Memories. An extraction runs after a turn, in a goroutine, with an      *)
(* answer of the model of its own: for each fact in it SaveMemory looks    *)
(* for the fact among the user's memories, makes room, and inserts it. A   *)
(* memory's rank stands for its importance and use, the order of pruning.  *)

MemTypeOK ==
  /\ memories \in [ChatUsers -> [Facts -> Nat]]
  /\ memSaver \in [Chats -> [step : {"idle", "facts", "touch", "prune", "insert"}, user : ChatUsers \cup {NoOwner},
                              fact : SUBSET Facts]]
  /\ memMet \in BOOLEAN

NotSaving == [step |-> "idle", user |-> NoOwner, fact |-> {}]

MemInit ==
  /\ memories = [u \in ChatUsers |-> [f \in Facts |-> 0]] /\ memMet = FALSE
  /\ memSaver = [c \in Chats |-> NotSaving]

\* The rows of a user who has m[f] of each fact f.
RowsOf(m) == UNION {{f} \X (1..m[f]) : f \in Facts}
CountForUser(u) == Cardinality(RowsOf(memories[u]))
MemAt(c, step) == memSaver[c].step = step
SaverGo(c, step, fact) == memSaver' = [memSaver EXCEPT ![c] = [step |-> step, user |-> memSaver[c].user, fact |-> fact]]

extractMemories(c) ==
  /\ MemAt(c, "idle")
  /\ \E u \in ChatUsers :
       /\ memSaver' = [memSaver EXCEPT ![c] = [step |-> "facts", user |-> u, fact |-> {}]]
       /\ memMet' = (memMet \/ \E d \in Chats : memSaver[d].step # "idle" /\ memSaver[d].user = u)
  /\ UNCHANGED memories

SaveUnseen(c) ==
  /\ MemAt(c, "facts")
  /\ \E f \in Facts : SaverGo(c, "prune", {f})
  /\ UNCHANGED <<memories, memMet>>

SaveMemory(c) ==
  /\ MemAt(c, "facts")
  /\ \E f \in Facts :
       SaverGo(c, IF memories[memSaver[c].user][f] > 0 THEN "touch" ELSE "prune", {f})
  /\ UNCHANGED <<memories, memMet>>

\* A fact already known is saved again, which inserts it if it has been deleted since.
TouchMemory(c) ==
  /\ MemAt(c, "touch")
  /\ LET u == memSaver[c].user
     IN memories' = [memories EXCEPT ![u] =
                       [f \in Facts |-> IF f \in memSaver[c].fact /\ memories[u][f] = 0 THEN 1 ELSE memories[u][f]]]
  /\ SaverGo(c, "facts", {})
  /\ UNCHANGED memMet

\* At the limit, memories of the lowest rank are removed: those above it and Headroom more.
pruneIfNeeded(c) ==
  /\ MemAt(c, "prune")
  /\ LET u == memSaver[c].user
         excess == CountForUser(u) + Headroom - MaxMemories
     IN IF CountForUser(u) < MaxMemories THEN UNCHANGED memories
        ELSE \E kept \in [Facts -> 0..CountForUser(u)] :
               /\ \A f \in Facts : kept[f] <= memories[u][f]
               /\ Cardinality(RowsOf(kept)) = IF excess > CountForUser(u) THEN 0 ELSE CountForUser(u) - excess
               /\ memories' = [memories EXCEPT ![u] = kept]
  /\ SaverGo(c, "insert", memSaver[c].fact)
  /\ UNCHANGED memMet

InsertMemory(c) ==
  /\ MemAt(c, "insert")
  /\ LET u == memSaver[c].user
     IN memories' = [memories EXCEPT ![u] =
                       [f \in Facts |-> memories[u][f] + (IF f \in memSaver[c].fact THEN 1 ELSE 0)]]
  /\ SaverGo(c, "facts", {})
  /\ UNCHANGED memMet

ExtractionEnds(c) ==
  /\ MemAt(c, "facts") /\ memSaver' = [memSaver EXCEPT ![c] = NotSaving]
  /\ UNCHANGED <<memories, memMet>>

DeleteMemory == /\ \E u \in ChatUsers, f \in Facts : /\ memories[u][f] > 0
                                                    /\ memories' = [memories EXCEPT ![u][f] = @ - 1]
                /\ UNCHANGED <<memSaver, memMet>>

ClearAll == /\ \E u \in ChatUsers : memories' = [memories EXCEPT ![u] = [f \in Facts |-> 0]]
            /\ UNCHANGED <<memSaver, memMet>>

MemNext ==
  \/ \E c \in Chats : \/ extractMemories(c) \/ SaveMemory(c) \/ TouchMemory(c) \/ pruneIfNeeded(c) \/ InsertMemory(c) \/ ExtractionEnds(c)
  \/ DeleteMemory \/ ClearAll

\* A user has at most MaxMemories memories, one more for each extraction besides the first, and
\* none twice unless two extractions of the user's ran at the same time.
MemoriesKept ==
  \A u \in ChatUsers :
    /\ CountForUser(u) <= MaxMemories + (IF memMet THEN Cardinality(Chats) - 1 ELSE 0)
    /\ memMet \/ \A f \in Facts : memories[u][f] <= 1
=============================================================================
