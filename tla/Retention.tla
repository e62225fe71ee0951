---------------------------- MODULE Retention ----------------------------
(***************************************************************************)
(* Retention: `acm prune`, `acm pin` and `acm carry-over` (internal/cli)   *)
(* beside the hooks that capture and compact the same conversations, each  *)
(* a process of its own over internal/store/sqlite_lifecycle.go.           *)
(*                                                                         *)
(* A prune lists its candidates, backs the database up, deletes what it    *)
(* listed in one transaction and removes offloaded files after the commit. *)
(* A carry-over reads the source's summaries, stores them as a seed in the *)
(* target and then pins the source.  Nothing is locked between those       *)
(* steps.                                                                  *)
(*                                                                         *)
(* IDs are digests of what they identify, so a session captured again      *)
(* after its conversation was deleted gets the same conversation and       *)
(* message IDs: a message is the host event it stores, a leaf summary the  *)
(* set of messages it covers.  Condensed layers are left out; which        *)
(* messages a window stands for is the subject of Compaction.              *)
(***************************************************************************)
EXTENDS FiniteSets, Integers

CONSTANTS
    Conversations,   \* conversation IDs
    Events,          \* host events that become messages
    Large,           \* those above the large-file threshold
    EventsOf,        \* the events of each session
    Hosts, Compactors, Carriers, Pruners,  \* processes
    MaxStarts        \* bound: commands started

ASSUME EventAssumption ==
    /\ Large \subseteq Events
    /\ EventsOf \in [Conversations -> SUBSET Events]
    /\ MaxStarts \in Nat

VARIABLES
    conversations,  \* row of each conversation with all that cascades from it
    disk,           \* offloaded files
    backups,        \* messages of each conversation in some verified snapshot
    host,           \* the ingest of each host process
    pass,           \* the compaction pass of each compactor
    carrier,        \* each carry-over
    pruner,         \* each prune
    starts,         \* commands started so far
    listed,         \* ghost: what each prune's candidates have held since it listed them
    deleted         \* ghost: conversations that have been pruned

vars == <<conversations, disk, backups, host, pass, carrier, pruner, starts, listed, deleted>>

\* A leaf summary is identified by the messages it covers.
Summary == SUBSET Events \ {{}}

Window == [messages : SUBSET Events, summaries : SUBSET Summary]

\* A system message that carries summaries of another conversation.
Seed == [source : Conversations, summaries : SUBSET Summary]

Row == [messages  : SUBSET Events,  seeds    : SUBSET Seed,
        summaries : SUBSET Summary, expanded : SUBSET Summary,
        window    : Window,         offloads : SUBSET Events,
        pinned    : BOOLEAN,        inactive : BOOLEAN]

EmptyWindow == [messages |-> {}, summaries |-> {}]

NewRow == [messages |-> {}, seeds |-> {}, summaries |-> {}, expanded |-> {},
           window |-> EmptyWindow, offloads |-> {}, pinned |-> FALSE, inactive |-> FALSE]

Live == DOMAIN conversations

Idle == [at |-> "idle"]

Init ==
    /\ conversations = <<>> /\ disk = {}
    /\ backups = [c \in Conversations |-> {}]
    /\ host = [h \in Hosts |-> Idle]
    /\ pass = [k \in Compactors |-> Idle]
    /\ carrier = [r \in Carriers |-> Idle]
    /\ pruner = [p \in Pruners |-> Idle]
    /\ starts = 0
    /\ listed = [p \in Pruners |-> <<>>]
    /\ deleted = {}

\* A write to the row of c; a conversation that was deleted meanwhile fails the
\* statement's foreign key, and nothing is written.
Write(c, row) ==
    conversations' = [d \in Live |-> IF d = c THEN row ELSE conversations[d]]

Start == starts < MaxStarts /\ starts' = starts + 1

(***************************************************************************)
(* Ingest: two transactions                                                *)
(***************************************************************************)
\* EnsureConversation: afterwards the row is there, and touched.
Ensure(c) ==
    IF c \in Live
      THEN Write(c, [conversations[c] EXCEPT !.inactive = FALSE])
      ELSE conversations' = [d \in Live \cup {c} |-> IF d = c THEN NewRow ELSE conversations[d]]

BeginIngest(h) ==
    /\ Start
    /\ host[h] = Idle
    /\ \E c \in Conversations : \E e \in EventsOf[c] :
        /\ Ensure(c)
        /\ host' = [host EXCEPT ![h] = [at |-> "appending", conversation |-> c, event |-> e]]
    /\ UNCHANGED <<disk, backups, pass, carrier, pruner, listed, deleted>>

\* Nothing is written for a message that is there already.
AppendMessage(h) ==
    /\ host[h].at = "appending"
    /\ LET row == conversations[host[h].conversation]
       IN  Write(host[h].conversation,
             IF host[h].event \in row.messages THEN row
             ELSE [row EXCEPT !.messages = @ \cup {host[h].event}, !.inactive = FALSE])
    /\ host' = [host EXCEPT ![h] = Idle]
    /\ UNCHANGED <<disk, backups, pass, carrier, pruner, starts, listed, deleted>>

(***************************************************************************)
(* Compaction                                                              *)
(***************************************************************************)
\* Every event of the set has a row in conversation c.
Holds(c, set) == c \in Live /\ set \subseteq conversations[c].messages

Resolves(row) ==
    row.window.messages \subseteq row.messages /\ row.window.summaries \subseteq row.summaries

\* buildWindow: the persisted window and the messages it does not stand for.
BeginPass(k) ==
    /\ Start
    /\ pass[k] = Idle
    /\ \E c \in Live :
        LET row == conversations[c]
            w == row.window
        IN  /\ Resolves(row)
            /\ pass' = [pass EXCEPT ![k] =
                  [at |-> "read", conversation |-> c, summaries |-> w.summaries,
                   messages |-> w.messages \cup (row.messages \ UNION w.summaries)]]
    /\ UNCHANGED <<conversations, disk, backups, host, carrier, pruner, listed, deleted>>

\* Seeded fault: a window without a foldable message is folded all the same.
BeginFoldOfNothing(k) ==
    /\ pass[k].at = "read"
    /\ \E block \in SUBSET pass[k].messages :
        pass' = [pass EXCEPT ![k] =
            [at |-> "folding", conversation |-> @.conversation, summaries |-> @.summaries,
             messages |-> @.messages, block |-> block, large |-> block \cap Large, written |-> {}]]
    /\ UNCHANGED <<conversations, disk, backups, host, carrier, pruner, starts, listed, deleted>>

\* makeLeaf takes a block of messages; the large ones are offloaded first.
BeginFold(k) ==
    /\ pass[k].at = "read"
    /\ \E block \in SUBSET pass[k].messages \ {{}} :
        pass' = [pass EXCEPT ![k] =
            [at |-> "folding", conversation |-> @.conversation, summaries |-> @.summaries,
             messages |-> @.messages, block |-> block, large |-> block \cap Large, written |-> {}]]
    /\ UNCHANGED <<conversations, disk, backups, host, carrier, pruner, starts, listed, deleted>>

\* offload: the file is written, then its row.
WriteFile(k) ==
    /\ pass[k].at = "folding" /\ pass[k].written = {}
    /\ \E e \in pass[k].large :
        /\ Holds(pass[k].conversation, {e})
        /\ disk' = disk \cup {<<pass[k].conversation, e>>}
        /\ pass' = [pass EXCEPT ![k].large = @ \ {e}, ![k].written = {e}]
    /\ UNCHANGED <<conversations, backups, host, carrier, pruner, starts, listed, deleted>>

RecordFile(k) ==
    /\ pass[k].at = "folding" /\ pass[k].written # {}
    /\ pass[k].conversation \in Live
    /\ Write(pass[k].conversation,
             [conversations[pass[k].conversation] EXCEPT !.offloads = @ \cup pass[k].written])
    /\ pass' = [pass EXCEPT ![k].written = {}]
    /\ UNCHANGED <<disk, backups, host, carrier, pruner, starts, listed, deleted>>

\* CreateLeafSummary: every source must be there.
CreateLeaf(k) ==
    /\ pass[k].at = "folding" /\ pass[k].large = {} /\ pass[k].written = {}
    /\ Holds(pass[k].conversation, pass[k].block)
    /\ Write(pass[k].conversation,
             [conversations[pass[k].conversation] EXCEPT !.summaries = @ \cup {pass[k].block}])
    /\ pass' = [pass EXCEPT ![k] =
          [at |-> "read", conversation |-> @.conversation,
           summaries |-> @.summaries \cup {@.block}, messages |-> @.messages \ @.block]]
    /\ UNCHANGED <<disk, backups, host, carrier, pruner, starts, listed, deleted>>

\* ReplaceContextItems: the conversation must be there, what the items name is
\* not looked up.
Persist(k) ==
    /\ pass[k].at = "read" /\ pass[k].conversation \in Live
    /\ Write(pass[k].conversation,
             [conversations[pass[k].conversation] EXCEPT
                !.window = [messages |-> pass[k].messages, summaries |-> pass[k].summaries]])
    /\ pass' = [pass EXCEPT ![k] = Idle]
    /\ UNCHANGED <<disk, backups, host, carrier, pruner, starts, listed, deleted>>

\* An error, a row that is gone among them, or a kill.
EndPass(k) ==
    /\ pass[k] # Idle
    /\ pass' = [pass EXCEPT ![k] = Idle]
    /\ UNCHANGED <<conversations, disk, backups, host, carrier, pruner, starts, listed, deleted>>

\* MarkSummaryExpanded, after `acm expand` has walked a summary.
Expand(c) ==
    /\ \E s \in conversations[c].summaries :
        Write(c, [conversations[c] EXCEPT !.expanded = @ \cup {s}])
    /\ UNCHANGED <<disk, backups, host, pass, carrier, pruner, starts, listed, deleted>>

(***************************************************************************)
(* Pins and carry-over                                                     *)
(***************************************************************************)
SetPin(c) == Write(c, [conversations[c] EXCEPT !.pinned = TRUE])

\* SetConversationPin by `acm pin`; no command removes a pin.
Pin(c) ==
    /\ SetPin(c)
    /\ UNCHANGED <<disk, backups, host, pass, carrier, pruner, starts, listed, deleted>>

\* selectCarryOverSummaries.
Select(r) ==
    /\ Start
    /\ carrier[r] = Idle
    /\ \E source \in Live, target \in Conversations :
        /\ conversations[source].summaries # {}
        /\ carrier' = [carrier EXCEPT ![r] = [at |-> "selected", target |-> target,
              seed |-> [source |-> source, summaries |-> conversations[source].summaries]]]
    /\ UNCHANGED <<conversations, disk, backups, host, pass, pruner, listed, deleted>>

\* The seed's Ingest.
EnsureTarget(r) ==
    /\ carrier[r].at = "selected"
    /\ Ensure(carrier[r].target)
    /\ carrier' = [carrier EXCEPT ![r].at = "seeding"]
    /\ UNCHANGED <<disk, backups, host, pass, pruner, starts, listed, deleted>>

\* Its external ID names the source: a seed that is there stays as it is.
AppendSeed(r) ==
    /\ carrier[r].at = "seeding" /\ carrier[r].target \in Live
    /\ LET row == conversations[carrier[r].target]
       IN  Write(carrier[r].target,
             IF \E seed \in row.seeds : seed.source = carrier[r].seed.source THEN row
             ELSE [row EXCEPT !.seeds = @ \cup {carrier[r].seed}, !.inactive = FALSE])
    /\ carrier' = [carrier EXCEPT ![r].at = "seeded"]
    /\ UNCHANGED <<disk, backups, host, pass, pruner, starts, listed, deleted>>

PinSource(r) ==
    /\ carrier[r].at = "seeded"
    /\ SetPin(carrier[r].seed.source)
    /\ carrier' = [carrier EXCEPT ![r] = Idle]
    /\ UNCHANGED <<disk, backups, host, pass, pruner, starts, listed, deleted>>

\* An error or a kill.
EndCarry(r) ==
    /\ carrier[r] # Idle
    /\ carrier' = [carrier EXCEPT ![r] = Idle]
    /\ UNCHANGED <<conversations, disk, backups, host, pass, pruner, starts, listed, deleted>>

(***************************************************************************)
(* Prune                                                                   *)
(***************************************************************************)
\* Time passes without activity until updated_at is before the cutoff.
Age(c) ==
    /\ Write(c, [conversations[c] EXCEPT !.inactive = TRUE])
    /\ UNCHANGED <<disk, backups, host, pass, carrier, pruner, starts, listed, deleted>>

\* Seeded fault: --force overrides a pin.
EligibleByForce(c, force) ==
    LET row == conversations[c]
    IN  row.inactive /\ (force \/ (~row.pinned /\ row.summaries \subseteq row.expanded))

\* printPrunePlan over the candidates.
Eligible(c, force) ==
    LET row == conversations[c]
    IN  /\ row.inactive /\ ~row.pinned
        /\ force \/ row.summaries \subseteq row.expanded

\* ListPruneCandidates; its limit may leave out any of them.
List(p) ==
    /\ Start
    /\ pruner[p] = Idle
    /\ \E force \in BOOLEAN : \E ids \in SUBSET {c \in Live : Eligible(c, force)} \ {{}} :
        /\ pruner' = [pruner EXCEPT ![p] = [at |-> "listed", ids |-> ids]]
        /\ listed' = [listed EXCEPT ![p] = [c \in ids |-> conversations[c].messages]]
    /\ UNCHANGED <<conversations, disk, backups, host, pass, carrier, deleted>>

\* VACUUM INTO copies the database as it is; the copy is verified.
Backup(p) ==
    /\ pruner[p].at = "listed"
    /\ backups' = [c \in Conversations |->
          backups[c] \cup (IF c \in Live THEN conversations[c].messages ELSE {})]
    /\ pruner' = [pruner EXCEPT ![p].at = "copied"]
    /\ UNCHANGED <<conversations, disk, host, pass, carrier, starts, listed, deleted>>

OffloadsOf(ids) ==
    {f \in Conversations \X Events : f[1] \in ids \cap Live /\ f[2] \in conversations[f[1]].offloads}

\* The ghost of a deletion: nothing of what another prune listed is left in the
\* conversations deleted.
Unlist(p, ids) ==
    listed' = [q \in Pruners |->
        IF q = p THEN <<>>
        ELSE [c \in DOMAIN listed[q] |-> IF c \in ids THEN {} ELSE listed[q][c]]]

\* Seeded fault: the deletion does not wait for the snapshot.
DeleteUnsaved(p) ==
    /\ pruner[p].at \in {"listed", "copied"}
    /\ LET ids == pruner[p].ids
       IN  /\ conversations' = [c \in Live \ ids |-> conversations[c]]
           /\ deleted' = deleted \cup (ids \cap Live)
           /\ pruner' = [pruner EXCEPT ![p] = [at |-> "cleaning", paths |-> OffloadsOf(ids)]]
    /\ Unlist(p, pruner[p].ids)
    /\ UNCHANGED <<disk, backups, host, pass, carrier, starts>>

\* Seeded fault: files are removed although the transaction was rolled back.
DeleteIgnoringError(p) ==
    /\ pruner[p].at = "copied"
    /\ LET ids == pruner[p].ids
       IN  /\ \/ /\ conversations' = [c \in Live \ ids |-> conversations[c]]
                 /\ deleted' = deleted \cup (ids \cap Live)
              \/ UNCHANGED <<conversations, deleted>>
           /\ pruner' = [pruner EXCEPT ![p] = [at |-> "cleaning", paths |-> OffloadsOf(ids)]]
    /\ Unlist(p, pruner[p].ids)
    /\ UNCHANGED <<disk, backups, host, pass, carrier, starts>>

\* DeleteConversations: one transaction over the listed IDs; nothing the list
\* was made from is looked at again.
Delete(p) ==
    /\ pruner[p].at = "copied"
    /\ LET ids == pruner[p].ids
       IN  /\ conversations' = [c \in Live \ ids |-> conversations[c]]
           /\ deleted' = deleted \cup (ids \cap Live)
           /\ pruner' = [pruner EXCEPT ![p] = [at |-> "cleaning", paths |-> OffloadsOf(ids)]]
    /\ Unlist(p, pruner[p].ids)
    /\ UNCHANGED <<disk, backups, host, pass, carrier, starts>>

\* removeOffloads, one file after another.
RemoveFile(p) ==
    /\ pruner[p].at = "cleaning"
    /\ \E f \in pruner[p].paths :
        /\ disk' = disk \ {f}
        /\ pruner' = [pruner EXCEPT ![p].paths = @ \ {f}]
    /\ UNCHANGED <<conversations, backups, host, pass, carrier, starts, listed, deleted>>

\* The prune is done, fails or is killed.
EndPrune(p) ==
    /\ pruner[p] # Idle
    /\ pruner' = [pruner EXCEPT ![p] = Idle]
    /\ listed' = [listed EXCEPT ![p] = <<>>]
    /\ UNCHANGED <<conversations, disk, backups, host, pass, carrier, starts, deleted>>

Next ==
    \/ \E h \in Hosts : BeginIngest(h) \/ AppendMessage(h)
    \/ \E k \in Compactors :
        \/ BeginPass(k) \/ BeginFold(k) \/ WriteFile(k) \/ RecordFile(k)
        \/ CreateLeaf(k) \/ Persist(k) \/ EndPass(k)
    \/ \E c \in Live : Expand(c) \/ Pin(c) \/ Age(c)
    \/ \E r \in Carriers :
        Select(r) \/ EnsureTarget(r) \/ AppendSeed(r) \/ PinSource(r) \/ EndCarry(r)
    \/ \E p \in Pruners : List(p) \/ Backup(p) \/ Delete(p) \/ RemoveFile(p) \/ EndPrune(p)

Spec == Init /\ [][Next]_vars

(***************************************************************************)
(* Properties                                                              *)
(***************************************************************************)
\* Rows, files and processes hold what the schema and the Go types allow.
TypeOK ==
    /\ Live \subseteq Conversations
    /\ \A c \in Live : conversations[c] \in Row
    /\ disk \subseteq Conversations \X Events
    /\ backups \in [Conversations -> SUBSET Events]
    /\ \A k \in Compactors : pass[k] # Idle =>
        /\ pass[k].at \in {"read", "folding"} /\ pass[k].conversation \in Conversations
        /\ pass[k].messages \subseteq Events /\ pass[k].summaries \subseteq Summary
    /\ \A p \in Pruners : pruner[p].at \in {"listed", "copied"} =>
        pruner[p].ids \subseteq Conversations /\ DOMAIN listed[p] = pruner[p].ids
    /\ deleted \subseteq Conversations

Planned(c) == \E p \in Pruners : pruner[p].at \in {"listed", "copied"} /\ c \in pruner[p].ids

\* A pin that no running prune has overlooked protects its conversation for
\* good: neither --force nor any race removes it or lets it be listed.
PinHolds ==
    [][\A c \in Live : conversations[c].pinned /\ ~Planned(c)
         => c \in Live' /\ conversations'[c].pinned /\ ~Planned(c)']_vars

\* Whatever a conversation has held since a prune listed it is in a verified
\* snapshot by the time that prune deletes it, and nothing is deleted that was not
\* listed.
RollbackCoversPlan ==
    [][\A c \in Live \ Live' : \E p \in Pruners :
         c \in DOMAIN listed[p] /\ listed[p][c] \subseteq backups[c]]_vars

\* A summary always has its sources, even when a pass outlives a deletion of
\* its conversation and the session is captured again.  A conversation that was
\* never deleted also has a window that resolves and the files of its offloads,
\* whatever prunes fail, race or die, and the seeds taken from it resolve.
NothingDangles ==
    \A c \in Live :
        /\ UNION conversations[c].summaries \subseteq conversations[c].messages
        /\ c \notin deleted =>
            /\ Resolves(conversations[c])
            /\ \A e \in conversations[c].offloads : <<c, e>> \in disk
        /\ \A seed \in conversations[c].seeds : seed.source \notin deleted =>
            seed.source \in Live /\ seed.summaries \subseteq conversations[seed.source].summaries

\* ADR 0003: pins always win.
PinsAlwaysWin == [][\A c \in Live : conversations[c].pinned => c \in Live']_vars
=============================================================================
