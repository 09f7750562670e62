----------------------------- MODULE ChatStore -----------------------------
(***************************************************************************)
(* internal/chatstore/chatstore.go behind the handlers of server_chats.go: *)
(* conversations in memory, each with a JSON file of its own.  The mutex   *)
(* lets one Save or Delete run at a time and readers between them, so a    *)
(* step in the middle of a Save shows only when the process dies there.    *)
(*                                                                         *)
(* A conversation is its two times: a save is told from another by its     *)
(* UpdatedAt.  Any file operation may fail, and the process may be killed  *)
(* and started again at any time.  The disk keeps what it was given.       *)
(***************************************************************************)
EXTENDS Naturals, FiniteSets

CONSTANTS Chats,
          MaxConversations,
          MaxChatClock,  \* bound on the clock
          MaxFileFaults, \* bound on failing file operations
          MaxReopens     \* bound on restarts of the process

ASSUME ChatAssumption ==
    /\ IsFiniteSet(Chats)
    /\ MaxConversations \in Nat \ {0}
    /\ MaxChatClock \in Nat \ {0}
    /\ {MaxFileFaults, MaxReopens} \subseteq Nat

VARIABLES convs,      \* Store.convs
          files,      \* the .json files
          saving,     \* the Save that holds the mutex
          chatClock,  \* time.Now()
          fileFaults, \* failed file operations so far
          reopens,    \* restarts so far
          written,    \* history: when each conversation last reached its file
          wanted,     \* history: written, and nobody asked for its deletion since
          deleted,    \* history: a Delete was acknowledged, and no save came since
          leftBehind  \* history: its file could not be removed, or not be read by an Open

histVars == <<written, wanted, deleted, leftBehind>>

chatVars == <<convs, files, saving, chatClock, fileFaults, reopens, histVars>>

Absent == [CreatedAt |-> 0, UpdatedAt |-> 0]

ChatTimes == 0..MaxChatClock

Conversation == [CreatedAt : ChatTimes, UpdatedAt : ChatTimes]

NotSaving == [pc |-> "idle", ids |-> {}, conv |-> Absent]

ChatTypeOK ==
    /\ convs \in [Chats -> Conversation]
    /\ files \in [Chats -> Conversation]
    /\ saving \in [pc : {"idle", "evict", "write", "rename", "store"},
                   ids : SUBSET Chats, conv : Conversation]
    /\ saving.pc # "idle" <=> \E c \in Chats : saving.ids = {c}
    /\ chatClock \in 1..MaxChatClock
    /\ fileFaults \in 0..MaxFileFaults
    /\ reopens \in 0..MaxReopens
    /\ written \in [Chats -> ChatTimes]
    /\ {wanted, deleted, leftBehind} \subseteq SUBSET Chats

\* Open of an empty directory.
ChatInit ==
    /\ convs = [c \in Chats |-> Absent]
    /\ files = [c \in Chats |-> Absent]
    /\ saving = NotSaving
    /\ chatClock = 1
    /\ fileFaults = 0
    /\ reopens = 0
    /\ written = [c \in Chats |-> 0]
    /\ wanted = {}
    /\ deleted = {}
    /\ leftBehind = {}
-----------------------------------------------------------------------------
Stored == {c \in Chats : convs[c] # Absent}

Unlocked == saving.pc = "idle"

\* A file operation fails, within the bound.
FileFault ==
    /\ fileFaults < MaxFileFaults
    /\ fileFaults' = fileFaults + 1

\* os.Remove.
RemoveFile(c) ==
    \/ /\ files' = [files EXCEPT ![c] = Absent]
       /\ leftBehind' = leftBehind \ {c}
       /\ UNCHANGED fileFaults
    \/ /\ FileFault
       /\ leftBehind' = leftBehind \cup {c}
       /\ UNCHANGED files

\* Slip: the cap is checked after the conversation has been added.
AtCapLate == Cardinality(Stored) > MaxConversations

AtCap == Cardinality(Stored) >= MaxConversations

\* Save: POST with a fresh id, or PUT with any.  Its UpdatedAt is now.
SaveBegin(c) ==
    LET new == convs[c] = Absent
        created == IF new THEN chatClock ELSE convs[c].CreatedAt
    IN  /\ Unlocked
        /\ saving' = [pc |-> IF new /\ AtCap THEN "evict" ELSE "write", ids |-> {c},
                      conv |-> [CreatedAt |-> created, UpdatedAt |-> chatClock]]
        /\ UNCHANGED <<convs, files, chatClock, fileFaults, reopens, histVars>>

\* Slip: the most recently updated one goes.
EvictionVictimsNewest ==
    {c \in Stored : \A o \in Stored : convs[c].UpdatedAt >= convs[o].UpdatedAt}

\* The least recently updated: of several, map order decides.
EvictionVictims ==
    {c \in Stored : \A o \in Stored : convs[c].UpdatedAt <= convs[o].UpdatedAt}

\* evictOldestLocked: a file that stays behind is only logged.
evictOldestLocked ==
    /\ saving.pc = "evict"
    /\ \E c \in EvictionVictims :
          /\ convs' = [convs EXCEPT ![c] = Absent]
          /\ RemoveFile(c)
    /\ saving' = [saving EXCEPT !.pc = "write"]
    /\ UNCHANGED <<chatClock, reopens, written, wanted, deleted>>

\* An error ends the Save; what it evicted stays evicted.
SaveFails ==
    /\ FileFault
    /\ saving' = NotSaving
    /\ UNCHANGED <<convs, files, chatClock, reopens, histVars>>

\* Slip: the file is written in place, so that it is cut short for a moment.
WriteInPlace ==
    /\ saving.pc = "write"
    /\ saving' = [saving EXCEPT !.pc = "rename"]
    /\ files' = [c \in Chats |-> IF c \in saving.ids THEN Absent ELSE files[c]]
    /\ UNCHANGED <<convs, chatClock, fileFaults, reopens, histVars>>

\* writeFileLocked: WriteFile of a .tmp file, which Open does not look at ...
WriteTmp ==
    /\ saving.pc = "write"
    /\ \/ /\ saving' = [saving EXCEPT !.pc = "rename"]
          /\ UNCHANGED <<convs, files, chatClock, fileFaults, reopens, histVars>>
       \/ SaveFails

\* ... then Rename, which replaces the file at once ...
RenameTmp ==
    /\ saving.pc = "rename"
    /\ \/ /\ files' = [c \in Chats |-> IF c \in saving.ids THEN saving.conv ELSE files[c]]
          /\ written' = [c \in Chats |-> IF c \in saving.ids THEN saving.conv.UpdatedAt
                                         ELSE written[c]]
          /\ wanted' = wanted \cup saving.ids
          /\ deleted' = deleted \ saving.ids
          /\ leftBehind' = leftBehind \ saving.ids
          /\ saving' = [saving EXCEPT !.pc = "store"]
          /\ UNCHANGED <<convs, chatClock, fileFaults, reopens>>
       \/ SaveFails

\* ... and the Save enters it in memory and returns.
SaveStore ==
    /\ saving.pc = "store"
    /\ convs' = [c \in Chats |-> IF c \in saving.ids THEN saving.conv ELSE convs[c]]
    /\ saving' = NotSaving
    /\ UNCHANGED <<files, chatClock, fileFaults, reopens, histVars>>

\* Delete of an id that is not in memory: acknowledged, and nothing else.
DeleteMissing(c) ==
    /\ Unlocked
    /\ convs[c] = Absent
    /\ wanted' = wanted \ {c}
    /\ deleted' = deleted \cup {c}
    /\ UNCHANGED <<convs, files, saving, chatClock, fileFaults, reopens, written, leftBehind>>

\* Slip: the file stays.
DeleteStoredKeepsFile(c) ==
    /\ Unlocked
    /\ convs[c] # Absent
    /\ convs' = [convs EXCEPT ![c] = Absent]
    /\ wanted' = wanted \ {c}
    /\ deleted' = deleted \cup {c}
    /\ UNCHANGED <<files, saving, chatClock, fileFaults, reopens, written, leftBehind>>

\* Delete: out of memory first.  A failing Remove is reported to the caller, and
\* the file stays.
DeleteStored(c) ==
    /\ Unlocked
    /\ convs[c] # Absent
    /\ convs' = [convs EXCEPT ![c] = Absent]
    /\ RemoveFile(c)
    /\ wanted' = wanted \ {c}
    /\ deleted' = IF fileFaults' = fileFaults THEN deleted \cup {c} ELSE deleted
    /\ UNCHANGED <<saving, chatClock, reopens, written>>

\* The process dies and is started again.  Open reads every file and skips the
\* ones it cannot read.
Reopen ==
    /\ reopens < MaxReopens
    /\ reopens' = reopens + 1
    /\ \E unread \in SUBSET {c \in Chats : files[c] # Absent} :
          /\ fileFaults' = fileFaults + Cardinality(unread)
          /\ fileFaults' <= MaxFileFaults
          /\ convs' = [c \in Chats |-> IF c \in unread THEN Absent ELSE files[c]]
          /\ wanted' = wanted \ unread
          /\ leftBehind' = leftBehind \cup unread
    /\ saving' = NotSaving
    /\ UNCHANGED <<files, chatClock, written, deleted>>

ChatTick ==
    /\ Unlocked
    /\ chatClock < MaxChatClock
    /\ chatClock' = chatClock + 1
    /\ UNCHANGED <<convs, files, saving, fileFaults, reopens, histVars>>

ChatNext ==
    \/ \E c \in Chats : SaveBegin(c) \/ DeleteMissing(c) \/ DeleteStored(c)
    \/ evictOldestLocked \/ WriteTmp \/ RenameTmp \/ SaveStore
    \/ Reopen
    \/ ChatTick

ChatSpec == ChatInit /\ [][ChatNext]_chatVars
-----------------------------------------------------------------------------
(***************************************************************************)
(* Properties                                                              *)
(***************************************************************************)

\* A crash costs no conversation: what a reader is shown between two operations
\* is in its file, in the same version, through failing writes, renames and
\* removals (chatstore.go: "persists chat conversations as one JSON file each").
MemoryIsOnDisk == \A c \in Stored : files[c] = convs[c] \/ saving.ids = {c}

\* Only the least recently updated are lost: a conversation that was saved, that
\* nobody deleted and that the last Open could read is missing only when at least
\* MaxConversations - 1 others were saved at the same time or later.  It is one
\* fewer than the cap because the Save that evicts may then fail to write.
KeepsRecent ==
    \A c \in wanted : convs[c] = Absent /\ c \notin saving.ids =>
        Cardinality({o \in Chats \ {c} : written[o] >= written[c]}) >= MaxConversations - 1

\* How far a restart may bring the store over the cap: by a conversation for each
\* file operation that has failed.
Overshoot == IF reopens = 0 THEN 0 ELSE fileFaults

\* The cap on stored conversations is kept, whatever fails, until the process is
\* restarted.  After a restart it is not the "hard cap" of chatstore.go, but exceeded
\* by no more than the file operations that have failed (Save, evictOldestLocked,
\* Open).
CapOvershootBounded == Cardinality(Stored) <= MaxConversations + Overshoot

\* "Delete removes a conversation": one whose Delete was acknowledged does not
\* come back by itself, unless its file could not be removed when the Delete was
\* tried before or when it was evicted, or an Open could not read it: the Delete
\* that is then acknowledged finds nothing in memory and does not look at the disk.
DeletedStaysDeleted == \A c \in deleted : convs[c] = Absent \/ c \in leftBehind
-----------------------------------------------------------------------------
(***************************************************************************)
(* The inductive invariant behind the four, by what each part says.        *)
(***************************************************************************)

\* Conversation c has reached its file, and the Save has not yet entered it.
Storing(c) == saving.pc = "store" /\ c \in saving.ids

OnDisk == {c \in Chats : files[c] # Absent}

\* The mutex and the Save that holds it: its time is now, for a conversation
\* that "evict" found missing and the store full.
SavingOK ==
    /\ Unlocked => saving = NotSaving
    /\ ~Unlocked => saving.conv.UpdatedAt = chatClock
    /\ saving.pc = "evict" => /\ AtCap
                              /\ \A c \in saving.ids : convs[c] = Absent

\* Memory and disk agree, except on what is being stored and on what was left
\* behind.
InStep ==
    \A c \in Chats :
        /\ Storing(c) => files[c] = saving.conv
        /\ convs[c] # Absent => files[c] = convs[c] \/ Storing(c)
        /\ files[c] # Absent => convs[c] # Absent \/ Storing(c) \/ c \in leftBehind

\* A conversation that is deleted has no file, unless it was left behind.
GoneForGood ==
    \A c \in deleted : /\ ~Storing(c)
                       /\ c \in leftBehind \/ files[c] = Absent

\* Each file left behind cost a fault, and a Save about to write a file has room.
RoomOnDisk ==
    /\ Cardinality(leftBehind) <= fileFaults
    /\ Cardinality(OnDisk) <= MaxConversations + fileFaults
    /\ saving.pc \in {"write", "rename"} =>
          Cardinality(OnDisk \ saving.ids) < MaxConversations + fileFaults

\* Until a restart there is room in memory, also for the Save in progress once it
\* has evicted.
RoomInMemory ==
    reopens = 0 =>
        /\ Cardinality(Stored) <= MaxConversations
        /\ saving.pc \in {"write", "rename", "store"} =>
              Cardinality(Stored \cup saving.ids) <= MaxConversations

\* A file's time is when it was written, and nothing was written in the future.
FileTimes ==
    \A c \in Chats : /\ files[c] # Absent => written[c] = files[c].UpdatedAt
                     /\ written[c] <= chatClock

\* KeepsRecent, also for a conversation that is being saved anew.
RecentKept ==
    \A c \in wanted : convs[c] = Absent /\ ~Storing(c) =>
        Cardinality({o \in Chats \ {c} : written[o] >= written[c]}) >= MaxConversations - 1

ChatIInv ==
    ChatTypeOK /\ SavingOK /\ InStep /\ GoneForGood /\ RoomOnDisk /\ FileTimes /\ RecentKept
=============================================================================
