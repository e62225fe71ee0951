--------------------------- MODULE RetentionProofs ---------------------------
(***************************************************************************)
(* Proofs about Retention for every set of conversations, events and       *)
(* processes, and any number of commands.                                  *)
(***************************************************************************)
EXTENDS Retention, TLAPS

(***************************************************************************)
(* Types                                                                   *)
(***************************************************************************)
Ingesting == [at : {"appending"}, conversation : Conversations, event : Events]

Reading == [at : {"read"}, conversation : Conversations, summaries : SUBSET Summary,
            messages : SUBSET Events]

Folding == [at : {"folding"}, conversation : Conversations, summaries : SUBSET Summary,
            messages : SUBSET Events, block : Summary, large : SUBSET Events,
            written : SUBSET Events]

Carrying == [at : {"selected", "seeding", "seeded"}, target : Conversations, seed : Seed]

Planning == [at : {"listed", "copied"}, ids : SUBSET Conversations]

Cleaning == [at : {"cleaning"}, paths : SUBSET (Conversations \X Events)]

RowsOK ==
    /\ Live \subseteq Conversations
    /\ \A c \in Live : conversations[c] \in Row

ProcessesOK ==
    /\ host \in [Hosts -> {Idle} \cup Ingesting]
    /\ pass \in [Compactors -> {Idle} \cup Reading \cup Folding]
    /\ carrier \in [Carriers -> {Idle} \cup Carrying]
    /\ pruner \in [Pruners -> {Idle} \cup Planning \cup Cleaning]

RestOK ==
    /\ disk \subseteq Conversations \X Events
    /\ backups \in [Conversations -> SUBSET Events]
    /\ deleted \subseteq Conversations
    /\ DOMAIN listed = Pruners
    /\ \A p \in Pruners : pruner[p].at \in {"listed", "copied"} => DOMAIN listed[p] = pruner[p].ids

Types == RowsOK /\ ProcessesOK /\ RestOK

\* Which record a process is in, by its position.
LEMMA Positions ==
    ASSUME ProcessesOK
    PROVE  /\ \A h \in Hosts : host[h].at = "appending" => host[h] \in Ingesting
           /\ \A k \in Compactors : pass[k].at = "read" => pass[k] \in Reading
           /\ \A k \in Compactors : pass[k].at = "folding" => pass[k] \in Folding
           /\ \A r \in Carriers : carrier[r].at \in {"selected", "seeding", "seeded"}
                                    => carrier[r] \in Carrying
           /\ \A p \in Pruners : pruner[p].at \in {"listed", "copied"} => pruner[p] \in Planning
           /\ \A p \in Pruners : pruner[p].at = "cleaning" => pruner[p] \in Cleaning
<1>1. \A h \in Hosts : host[h].at = "appending" => host[h] \in Ingesting
  BY DEF ProcessesOK, Idle
<1>2. \A k \in Compactors : /\ pass[k].at = "read" => pass[k] \in Reading
                            /\ pass[k].at = "folding" => pass[k] \in Folding
  BY DEF ProcessesOK, Idle, Reading, Folding
<1>3. \A r \in Carriers : carrier[r].at \in {"selected", "seeding", "seeded"}
                            => carrier[r] \in Carrying
  BY DEF ProcessesOK, Idle
<1>4. \A p \in Pruners : /\ pruner[p].at \in {"listed", "copied"} => pruner[p] \in Planning
                         /\ pruner[p].at = "cleaning" => pruner[p] \in Cleaning
  BY DEF ProcessesOK, Idle, Planning, Cleaning
<1> QED
  BY <1>1, <1>2, <1>3, <1>4

\* What a write leaves in the rows.
LEMMA WriteFacts ==
    ASSUME NEW c, NEW row, Write(c, row)
    PROVE  /\ Live' = Live
           /\ c \in Live => conversations'[c] = row
           /\ \A d \in Live : d # c => conversations'[d] = conversations[d]
  BY DEF Write, Live

LEMMA WriteRowsOK ==
    ASSUME RowsOK, NEW c, NEW row, Write(c, row), c \in Live => row \in Row
    PROVE  RowsOK'
<1>1. /\ Live' = Live
      /\ c \in Live => conversations'[c] = row
      /\ \A d \in Live : d # c => conversations'[d] = conversations[d]
  BY DEF Write, Live
<1> QED
  BY <1>1 DEF RowsOK

LEMMA EnsureRowsOK ==
    ASSUME RowsOK, NEW c \in Conversations, Ensure(c)
    PROVE  RowsOK' /\ Live' = Live \cup {c}
<1>1. CASE c \in Live
  <2>1. [conversations[c] EXCEPT !.inactive = FALSE] \in Row
    BY <1>1 DEF RowsOK, Row
  <2>2. Write(c, [conversations[c] EXCEPT !.inactive = FALSE])
    BY <1>1 DEF Ensure
  <2>3. Live' = Live
    BY <2>2 DEF Write, Live
  <2> QED
    BY <1>1, <2>1, <2>2, <2>3, WriteRowsOK
<1>2. CASE c \notin Live
  <2>1. NewRow \in Row
    BY DEF NewRow, Row, EmptyWindow, Window
  <2>2. /\ Live' = Live \cup {c} /\ conversations'[c] = NewRow
        /\ \A d \in Live : conversations'[d] = conversations[d]
    BY <1>2 DEF Ensure, Live
  <2> QED
    BY <2>1, <2>2 DEF RowsOK
<1> QED
  BY <1>1, <1>2

LEMMA TypesInit == Init => Types
<1> SUFFICES ASSUME Init PROVE Types
  OBVIOUS
<1>1. Live = {}
  BY DEF Init, Live
<1>2. RowsOK
  BY <1>1 DEF RowsOK
<1>3. ProcessesOK
  BY DEF Init, ProcessesOK
<1>4. RestOK
  BY DEF Init, RestOK, Idle
<1> QED
  BY <1>2, <1>3, <1>4 DEF Types

\* The rest is untouched when a step changes no file, snapshot or prune.
LEMMA RestKept ==
    ASSUME RestOK, UNCHANGED <<disk, backups, deleted, listed, pruner>>
    PROVE  RestOK'
  BY DEF RestOK

LEMMA TypesIngest ==
    ASSUME Types, NEW h \in Hosts, BeginIngest(h) \/ AppendMessage(h)
    PROVE  Types'
<1>1. CASE BeginIngest(h)
  <2>1. PICK c \in Conversations, e \in Events :
          /\ Ensure(c)
          /\ host' = [host EXCEPT ![h] = [at |-> "appending", conversation |-> c, event |-> e]]
    BY <1>1, EventAssumption DEF BeginIngest
  <2>2. RowsOK'
    BY <2>1, EnsureRowsOK DEF Types
  <2>3. ProcessesOK'
    <3>1. [at |-> "appending", conversation |-> c, event |-> e] \in Ingesting
      BY DEF Ingesting
    <3> QED BY <1>1, <2>1, <3>1 DEF BeginIngest, Types, ProcessesOK
  <2>4. RestOK'
    BY <1>1, RestKept DEF BeginIngest, Types
  <2> QED BY <2>2, <2>3, <2>4 DEF Types
<1>2. CASE AppendMessage(h)
  <2> DEFINE c == host[h].conversation
             e == host[h].event
  <2>1. c \in Conversations /\ e \in Events
    BY <1>2, Positions DEF AppendMessage, Types, Ingesting
  <2>2. RowsOK'
    <3> DEFINE row == IF e \in conversations[c].messages THEN conversations[c]
                      ELSE [conversations[c] EXCEPT !.messages = @ \cup {e}, !.inactive = FALSE]
    <3>1. Write(c, row)
      BY <1>2 DEF AppendMessage
    <3>2. c \in Live => row \in Row
      BY <2>1 DEF Types, RowsOK, Row
    <3> HIDE DEF row, c
    <3> QED BY <3>1, <3>2, WriteRowsOK DEF Types
  <2>3. ProcessesOK'
    BY <1>2 DEF AppendMessage, Types, ProcessesOK
  <2>4. RestOK'
    BY <1>2, RestKept DEF AppendMessage, Types
  <2> QED BY <2>2, <2>3, <2>4 DEF Types
<1> QED
  BY <1>1, <1>2

LEMMA TypesPass ==
    ASSUME Types, NEW k \in Compactors,
           \/ BeginPass(k) \/ BeginFold(k) \/ WriteFile(k) \/ RecordFile(k)
           \/ CreateLeaf(k) \/ Persist(k) \/ EndPass(k)
    PROVE  Types'
<1> DEFINE c == pass[k].conversation
<1>1. CASE BeginPass(k)
  <2>1. PICK d \in Live :
          pass' = [pass EXCEPT ![k] =
            [at |-> "read", conversation |-> d, summaries |-> conversations[d].window.summaries,
             messages |-> conversations[d].window.messages
                            \cup (conversations[d].messages
                                    \ UNION conversations[d].window.summaries)]]
    BY <1>1 DEF BeginPass
  <2>2. conversations[d] \in Row /\ d \in Conversations
    BY DEF Types, RowsOK
  <2>3. pass'[k] \in Reading
    <3>1. /\ conversations[d].window.summaries \subseteq Summary
          /\ conversations[d].window.messages \subseteq Events
          /\ conversations[d].messages \subseteq Events
      BY <2>2 DEF Row, Window
    <3> QED BY <2>1, <2>2, <3>1 DEF Reading, Types, ProcessesOK
  <2>4. ProcessesOK'
    BY <1>1, <2>1, <2>3 DEF BeginPass, Types, ProcessesOK
  <2>5. RowsOK' /\ RestOK'
    BY <1>1, RestKept DEF BeginPass, Types, RowsOK, Live
  <2> QED BY <2>4, <2>5 DEF Types
<1>2. CASE BeginFold(k)
  <2>1. PICK block \in SUBSET pass[k].messages \ {{}} :
          pass' = [pass EXCEPT ![k] =
            [at |-> "folding", conversation |-> pass[k].conversation,
             summaries |-> pass[k].summaries, messages |-> pass[k].messages,
             block |-> block, large |-> block \cap Large, written |-> {}]]
    BY <1>2 DEF BeginFold, Types, ProcessesOK
  <2>2. pass[k] \in Reading
    BY <1>2, Positions DEF BeginFold, Types
  <2>3. pass'[k] \in Folding
    BY <2>1, <2>2 DEF Reading, Folding, Summary, Types, ProcessesOK
  <2>4. ProcessesOK'
    BY <1>2, <2>1, <2>3 DEF BeginFold, Types, ProcessesOK
  <2>5. RowsOK' /\ RestOK'
    BY <1>2, RestKept DEF BeginFold, Types, RowsOK, Live
  <2> QED BY <2>4, <2>5 DEF Types
<1>3. CASE WriteFile(k)
  <2>1. PICK e \in pass[k].large :
          /\ disk' = disk \cup {<<pass[k].conversation, e>>}
          /\ pass' = [pass EXCEPT ![k].large = @ \ {e}, ![k].written = {e}]
    BY <1>3 DEF WriteFile
  <2>2. pass[k] \in Folding
    BY <1>3, Positions DEF WriteFile, Types
  <2>3. pass'[k] \in Folding
    BY <2>1, <2>2 DEF Folding, Types, ProcessesOK
  <2>4. ProcessesOK'
    BY <1>3, <2>1, <2>3 DEF WriteFile, Types, ProcessesOK
  <2>5. disk' \subseteq Conversations \X Events
    BY <2>1, <2>2 DEF Folding, Types, RestOK
  <2>6. RowsOK' /\ RestOK'
    BY <1>3, <2>5 DEF WriteFile, Types, RowsOK, Live, RestOK
  <2> QED BY <2>4, <2>6 DEF Types
<1>4. CASE RecordFile(k)
  <2>1. pass[k] \in Folding
    BY <1>4, Positions DEF RecordFile, Types
  <2>2. RowsOK'
    <3> DEFINE row == [conversations[c] EXCEPT !.offloads = @ \cup pass[k].written]
    <3>1. Write(c, row)
      BY <1>4 DEF RecordFile
    <3>2. c \in Live => row \in Row
      BY <2>1 DEF Types, RowsOK, Row, Folding
    <3> HIDE DEF row, c
    <3> QED BY <3>1, <3>2, WriteRowsOK DEF Types
  <2>3. pass'[k] \in Folding
    BY <1>4, <2>1 DEF RecordFile, Folding, Types, ProcessesOK
  <2>4. ProcessesOK'
    BY <1>4, <2>3 DEF RecordFile, Types, ProcessesOK
  <2>5. RestOK'
    BY <1>4, RestKept DEF RecordFile, Types
  <2> QED BY <2>2, <2>4, <2>5 DEF Types
<1>5. CASE CreateLeaf(k)
  <2>1. pass[k] \in Folding
    BY <1>5, Positions DEF CreateLeaf, Types
  <2>2. RowsOK'
    <3> DEFINE row == [conversations[c] EXCEPT !.summaries = @ \cup {pass[k].block}]
    <3>1. Write(c, row)
      BY <1>5 DEF CreateLeaf
    <3>2. c \in Live => row \in Row
      BY <2>1 DEF Types, RowsOK, Row, Folding
    <3> HIDE DEF row, c
    <3> QED BY <3>1, <3>2, WriteRowsOK DEF Types
  <2>3. pass'[k] \in Reading
    BY <1>5, <2>1 DEF CreateLeaf, Folding, Reading, Types, ProcessesOK
  <2>4. ProcessesOK'
    BY <1>5, <2>3 DEF CreateLeaf, Types, ProcessesOK
  <2>5. RestOK'
    BY <1>5, RestKept DEF CreateLeaf, Types
  <2> QED BY <2>2, <2>4, <2>5 DEF Types
<1>6. CASE Persist(k)
  <2>1. pass[k] \in Reading
    BY <1>6, Positions DEF Persist, Types
  <2>2. RowsOK'
    <3> DEFINE row == [conversations[c] EXCEPT
                         !.window = [messages |-> pass[k].messages, summaries |-> pass[k].summaries]]
    <3>1. Write(c, row)
      BY <1>6 DEF Persist
    <3>2. c \in Live => row \in Row
      BY <2>1 DEF Types, RowsOK, Row, Reading, Window
    <3> HIDE DEF row, c
    <3> QED BY <3>1, <3>2, WriteRowsOK DEF Types
  <2>3. ProcessesOK'
    BY <1>6 DEF Persist, Types, ProcessesOK
  <2>4. RestOK'
    BY <1>6, RestKept DEF Persist, Types
  <2> QED BY <2>2, <2>3, <2>4 DEF Types
<1>7. CASE EndPass(k)
  <2>1. ProcessesOK'
    BY <1>7 DEF EndPass, Types, ProcessesOK
  <2>2. RowsOK' /\ RestOK'
    BY <1>7, RestKept DEF EndPass, Types, RowsOK, Live
  <2> QED BY <2>1, <2>2 DEF Types
<1> QED
  BY <1>1, <1>2, <1>3, <1>4, <1>5, <1>6, <1>7

LEMMA TypesRow ==
    ASSUME Types, NEW c \in Live, Expand(c) \/ Pin(c) \/ Age(c)
    PROVE  Types'
<1>1. conversations[c] \in Row
  BY DEF Types, RowsOK
<1>2. \E row \in Row : Write(c, row)
  <2>1. CASE Expand(c)
    <3>1. PICK s \in conversations[c].summaries :
            Write(c, [conversations[c] EXCEPT !.expanded = @ \cup {s}])
      BY <2>1 DEF Expand
    <3>2. [conversations[c] EXCEPT !.expanded = @ \cup {s}] \in Row
      BY <1>1 DEF Row
    <3> QED BY <3>1, <3>2
  <2>2. CASE Pin(c)
    <3>1. [conversations[c] EXCEPT !.pinned = TRUE] \in Row
      BY <1>1 DEF Row
    <3> QED BY <2>2, <3>1 DEF Pin, SetPin
  <2>3. CASE Age(c)
    <3>1. [conversations[c] EXCEPT !.inactive = TRUE] \in Row
      BY <1>1 DEF Row
    <3> QED BY <2>3, <3>1 DEF Age
  <2> QED BY <2>1, <2>2, <2>3
<1>3. RowsOK'
  BY <1>2, WriteRowsOK DEF Types
<1>4. UNCHANGED <<disk, backups, host, pass, carrier, pruner, listed, deleted>>
  BY DEF Expand, Pin, Age
<1> QED
  BY <1>3, <1>4, RestKept DEF Types, ProcessesOK

LEMMA TypesCarry ==
    ASSUME Types, NEW r \in Carriers,
           Select(r) \/ EnsureTarget(r) \/ AppendSeed(r) \/ PinSource(r) \/ EndCarry(r)
    PROVE  Types'
<1>1. UNCHANGED <<disk, backups, host, pass, pruner, listed, deleted>>
  BY DEF Select, EnsureTarget, AppendSeed, PinSource, EndCarry
<1>2. RestOK'
  BY <1>1, RestKept DEF Types
<1>3. CASE Select(r)
  <2>1. PICK source \in Live, target \in Conversations :
          carrier' = [carrier EXCEPT ![r] = [at |-> "selected", target |-> target,
            seed |-> [source |-> source, summaries |-> conversations[source].summaries]]]
    BY <1>3 DEF Select
  <2>2. [at |-> "selected", target |-> target,
         seed |-> [source |-> source, summaries |-> conversations[source].summaries]] \in Carrying
    BY DEF Carrying, Seed, Types, RowsOK, Row
  <2>3. ProcessesOK'
    BY <1>1, <2>1, <2>2 DEF Types, ProcessesOK
  <2>4. RowsOK'
    BY <1>3 DEF Select, Types, RowsOK, Live
  <2> QED BY <1>2, <2>3, <2>4 DEF Types
<1>4. CASE EnsureTarget(r)
  <2>1. carrier[r] \in Carrying
    BY <1>4, Positions DEF EnsureTarget, Types
  <2>2. RowsOK'
    BY <1>4, <2>1, EnsureRowsOK DEF EnsureTarget, Carrying, Types
  <2>3. carrier'[r] \in Carrying
    BY <1>4, <2>1 DEF EnsureTarget, Carrying, Types, ProcessesOK
  <2>4. ProcessesOK'
    BY <1>1, <1>4, <2>3 DEF EnsureTarget, Types, ProcessesOK
  <2> QED BY <1>2, <2>2, <2>4 DEF Types
<1>5. CASE AppendSeed(r)
  <2> DEFINE t == carrier[r].target
             row == IF \E seed \in conversations[t].seeds : seed.source = carrier[r].seed.source
                      THEN conversations[t]
                      ELSE [conversations[t] EXCEPT !.seeds = @ \cup {carrier[r].seed},
                                                    !.inactive = FALSE]
  <2>1. carrier[r] \in Carrying
    BY <1>5, Positions DEF AppendSeed, Types
  <2>2. Write(t, row)
    BY <1>5 DEF AppendSeed
  <2>3. t \in Live => row \in Row
    BY ZenonT(30), <2>1 DEF Carrying, Types, RowsOK, Row
  <2>4. RowsOK'
    <3> HIDE DEF row, t
    <3> QED BY <2>2, <2>3, WriteRowsOK DEF Types
  <2>5. carrier'[r] \in Carrying
    BY <1>5, <2>1 DEF AppendSeed, Carrying, Types, ProcessesOK
  <2>6. ProcessesOK'
    BY <1>1, <1>5, <2>5 DEF AppendSeed, Types, ProcessesOK
  <2> QED BY <1>2, <2>4, <2>6 DEF Types
<1>6. CASE PinSource(r)
  <2> DEFINE t == carrier[r].seed.source
             row == [conversations[t] EXCEPT !.pinned = TRUE]
  <2>1. Write(t, row)
    BY <1>6 DEF PinSource, SetPin
  <2>2. t \in Live => row \in Row
    BY DEF Types, RowsOK, Row
  <2>3. RowsOK'
    <3> HIDE DEF row, t
    <3> QED BY <2>1, <2>2, WriteRowsOK DEF Types
  <2>4. ProcessesOK'
    BY <1>1, <1>6 DEF PinSource, Types, ProcessesOK
  <2> QED BY <1>2, <2>3, <2>4 DEF Types
<1>7. CASE EndCarry(r)
  <2>1. ProcessesOK'
    BY <1>1, <1>7 DEF EndCarry, Types, ProcessesOK
  <2>2. RowsOK'
    BY <1>7 DEF EndCarry, Types, RowsOK, Live
  <2> QED BY <1>2, <2>1, <2>2 DEF Types
<1> QED
  BY <1>3, <1>4, <1>5, <1>6, <1>7

LEMMA TypesPrune ==
    ASSUME Types, NEW p \in Pruners,
           List(p) \/ Backup(p) \/ Delete(p) \/ RemoveFile(p) \/ EndPrune(p)
    PROVE  Types'
<1>1. CASE List(p)
  <2>1. PICK ids \in SUBSET Live :
          /\ pruner' = [pruner EXCEPT ![p] = [at |-> "listed", ids |-> ids]]
          /\ listed' = [listed EXCEPT ![p] = [c \in ids |-> conversations[c].messages]]
    BY <1>1 DEF List
  <2>2. [at |-> "listed", ids |-> ids] \in Planning
    BY DEF Planning, Types, RowsOK
  <2>3. ProcessesOK'
    BY <1>1, <2>1, <2>2 DEF List, Types, ProcessesOK
  <2>4. RestOK'
    BY <1>1, <2>1 DEF List, Types, RestOK, ProcessesOK
  <2>5. RowsOK'
    BY <1>1 DEF List, Types, RowsOK, Live
  <2> QED BY <2>3, <2>4, <2>5 DEF Types
<1>2. CASE Backup(p)
  <2>1. pruner[p] \in Planning
    BY <1>2, Positions DEF Backup, Types
  <2>2. /\ pruner'[p] \in Planning /\ pruner'[p].ids = pruner[p].ids
        /\ \A q \in Pruners : q # p => pruner'[q] = pruner[q]
    BY <1>2, <2>1 DEF Backup, Planning, Types, ProcessesOK
  <2>3. ProcessesOK'
    BY <1>2, <2>2 DEF Backup, Types, ProcessesOK
  <2>4. backups' \in [Conversations -> SUBSET Events]
    BY <1>2 DEF Backup, Types, RestOK, RowsOK, Row
  <2>5. RestOK'
    BY <1>2, <2>2, <2>4 DEF Backup, Types, RestOK
  <2>6. RowsOK'
    BY <1>2 DEF Backup, Types, RowsOK, Live
  <2> QED BY <2>3, <2>5, <2>6 DEF Types
<1>3. CASE Delete(p)
  <2> DEFINE ids == pruner[p].ids
  <2>1. /\ conversations' = [c \in Live \ ids |-> conversations[c]]
        /\ deleted' = deleted \cup (ids \cap Live)
        /\ pruner' = [pruner EXCEPT ![p] = [at |-> "cleaning", paths |-> OffloadsOf(ids)]]
        /\ Unlist(p, ids)
        /\ UNCHANGED <<disk, backups, host, pass, carrier>>
    BY <1>3 DEF Delete
  <2>2. RowsOK'
    BY <2>1 DEF Types, RowsOK, Live
  <2>3. [at |-> "cleaning", paths |-> OffloadsOf(ids)] \in Cleaning
    BY DEF Cleaning, OffloadsOf
  <2>4. ProcessesOK'
    BY <2>1, <2>3 DEF Types, ProcessesOK
  <2>5. RestOK'
    <3>1. /\ pruner'[p].at = "cleaning"
          /\ \A q \in Pruners : q # p => pruner'[q] = pruner[q]
      BY <2>1 DEF Types, ProcessesOK
    <3>2. /\ DOMAIN listed' = Pruners
          /\ \A q \in Pruners : q # p => DOMAIN listed'[q] = DOMAIN listed[q]
      BY <2>1 DEF Unlist
    <3> QED BY <2>1, <3>1, <3>2 DEF Types, RestOK, RowsOK
  <2> QED BY <2>2, <2>4, <2>5 DEF Types
<1>4. CASE RemoveFile(p)
  <2>1. pruner[p] \in Cleaning
    BY <1>4, Positions DEF RemoveFile, Types
  <2>2. /\ pruner'[p] \in Cleaning /\ pruner'[p].at = "cleaning"
        /\ \A q \in Pruners : q # p => pruner'[q] = pruner[q]
    BY <1>4, <2>1 DEF RemoveFile, Cleaning, Types, ProcessesOK
  <2>3. ProcessesOK'
    BY <1>4, <2>2 DEF RemoveFile, Types, ProcessesOK
  <2>4. RestOK'
    BY <1>4, <2>2 DEF RemoveFile, Types, RestOK
  <2>5. RowsOK'
    BY <1>4 DEF RemoveFile, Types, RowsOK, Live
  <2> QED BY <2>3, <2>4, <2>5 DEF Types
<1>5. CASE EndPrune(p)
  <2>1. ProcessesOK'
    BY <1>5 DEF EndPrune, Types, ProcessesOK
  <2>2. RestOK'
    BY <1>5 DEF EndPrune, Types, RestOK, ProcessesOK, Idle
  <2>3. RowsOK'
    BY <1>5 DEF EndPrune, Types, RowsOK, Live
  <2> QED BY <2>1, <2>2, <2>3 DEF Types
<1> QED
  BY <1>1, <1>2, <1>3, <1>4, <1>5

LEMMA TypesNext == Types /\ [Next]_vars => Types'
<1>1. Types /\ UNCHANGED vars => Types'
  BY DEF vars, Types, RowsOK, Live, ProcessesOK, RestOK
<1> QED
  BY <1>1, TypesIngest, TypesPass, TypesRow, TypesCarry, TypesPrune DEF Next

\* Rows, files and processes always hold what the schema and the Go types allow.
THEOREM RetentionTypeCorrect == Spec => []TypeOK
<1>1. Types => TypeOK
  <2> SUFFICES ASSUME Types PROVE TypeOK
    OBVIOUS
  <2>1. \A k \in Compactors : pass[k] # Idle =>
          /\ pass[k].at \in {"read", "folding"} /\ pass[k].conversation \in Conversations
          /\ pass[k].messages \subseteq Events /\ pass[k].summaries \subseteq Summary
    BY DEF Types, ProcessesOK, Reading, Folding
  <2>2. \A p \in Pruners : pruner[p].at \in {"listed", "copied"} =>
          pruner[p].ids \subseteq Conversations /\ DOMAIN listed[p] = pruner[p].ids
    BY Positions DEF Types, RestOK, Planning
  <2> QED
    BY <2>1, <2>2 DEF Types, RowsOK, RestOK, TypeOK
<1> QED
  BY <1>1, TypesInit, TypesNext, PTL DEF Spec

(***************************************************************************)
(* Growing rows                                                            *)
(***************************************************************************)
\* Nothing is deleted, and no row loses a message or a summary.
Grows ==
    /\ deleted' = deleted
    /\ \A c \in Live :
        /\ c \in Live'
        /\ conversations[c].messages \subseteq conversations'[c].messages
        /\ conversations[c].summaries \subseteq conversations'[c].summaries

LEMMA EnsureGrows ==
    ASSUME RowsOK, NEW c \in Conversations, Ensure(c), deleted' = deleted
    PROVE  /\ Grows
           /\ \A d \in Live' : \/ d \notin Live /\ conversations'[d] = NewRow
                               \/ /\ d \in Live
                                  /\ conversations'[d].messages = conversations[d].messages
                                  /\ conversations'[d].summaries = conversations[d].summaries
                                  /\ conversations'[d].window = conversations[d].window
                                  /\ conversations'[d].offloads = conversations[d].offloads
                                  /\ conversations'[d].seeds = conversations[d].seeds
                                  /\ conversations'[d].pinned = conversations[d].pinned
<1>1. CASE c \in Live
  <2>1. /\ Live' = Live
        /\ conversations'[c] = [conversations[c] EXCEPT !.inactive = FALSE]
        /\ \A d \in Live : d # c => conversations'[d] = conversations[d]
    BY <1>1 DEF Ensure, Write, Live
  <2>2. conversations[c] \in Row
    BY <1>1 DEF RowsOK
  <2> QED
    BY <2>1, <2>2 DEF Row, Grows
<1>2. CASE c \notin Live
  <2>1. /\ Live' = Live \cup {c} /\ conversations'[c] = NewRow
        /\ \A d \in Live : conversations'[d] = conversations[d]
    BY <1>2 DEF Ensure, Live
  <2> QED
    BY <1>2, <2>1 DEF Grows
<1> QED
  BY <1>1, <1>2

(***************************************************************************)
(* The inductive invariant                                                 *)
(***************************************************************************)
\* A seed resolves as long as its source was never deleted.
Available(seed) ==
    seed.source \notin deleted =>
        seed.source \in Live /\ seed.summaries \subseteq conversations[seed.source].summaries

RowSound(c) ==
    /\ UNION conversations[c].summaries \subseteq conversations[c].messages
    /\ c \notin deleted =>
        /\ Resolves(conversations[c])
        /\ \A e \in conversations[c].offloads : <<c, e>> \in disk
    /\ \A seed \in conversations[c].seeds : Available(seed)

\* What a pass read of a conversation that was never deleted is still there.
PassSound(k) ==
    pass[k] # Idle /\ pass[k].conversation \notin deleted =>
        /\ pass[k].conversation \in Live
        /\ pass[k].messages \subseteq conversations[pass[k].conversation].messages
        /\ pass[k].summaries \subseteq conversations[pass[k].conversation].summaries
        /\ pass[k].at = "folding" =>
            \A e \in pass[k].written : <<pass[k].conversation, e>> \in disk

CarrySound(r) == carrier[r] # Idle => Available(carrier[r].seed)

\* A prune removes files of conversations it has deleted, and what it saw of a
\* conversation is still there, or the conversation has been deleted meanwhile.
PruneSound(p) ==
    /\ pruner[p].at = "cleaning" => \A f \in pruner[p].paths : f[1] \in deleted
    /\ pruner[p].at \in {"listed", "copied"} => \A c \in pruner[p].ids :
        listed[p][c] \subseteq (IF c \in Live THEN conversations[c].messages ELSE {})
    /\ pruner[p].at = "copied" => \A c \in pruner[p].ids : listed[p][c] \subseteq backups[c]

Sound ==
    /\ \A c \in Live : RowSound(c)
    /\ \A k \in Compactors : PassSound(k)
    /\ \A r \in Carriers : CarrySound(r)
    /\ \A p \in Pruners : PruneSound(p)

IInv == Types /\ Sound

\* What a step leaves of the conversations that are never deleted.
Kept ==
    /\ deleted \subseteq deleted'
    /\ \A c \in Live : c \notin deleted' =>
        /\ c \in Live'
        /\ conversations[c].messages \subseteq conversations'[c].messages
        /\ conversations[c].summaries \subseteq conversations'[c].summaries
    /\ \A c, e : c \notin deleted' /\ <<c, e>> \in disk => <<c, e>> \in disk'

LEMMA AvailableKept ==
    ASSUME Kept, NEW seed, Available(seed)
    PROVE  Available(seed)'
  BY DEF Kept, Available

LEMMA RowKept ==
    ASSUME Kept, NEW c \in Live, RowSound(c),
           conversations[c].messages \subseteq conversations'[c].messages,
           conversations'[c].summaries = conversations[c].summaries,
           conversations'[c].window = conversations[c].window,
           conversations'[c].offloads = conversations[c].offloads,
           conversations'[c].seeds = conversations[c].seeds
    PROVE  RowSound(c)'
<1>1. \A seed \in conversations[c].seeds : Available(seed)'
  BY AvailableKept DEF RowSound
<1> QED
  BY <1>1 DEF RowSound, Kept, Resolves

LEMMA PassKept ==
    ASSUME Kept, NEW k \in Compactors, PassSound(k), pass'[k] = pass[k]
    PROVE  PassSound(k)'
  BY DEF Kept, PassSound

LEMMA CarryKept ==
    ASSUME Kept, NEW r \in Carriers, CarrySound(r), carrier'[r] = carrier[r]
    PROVE  CarrySound(r)'
  BY DEF Kept, CarrySound, Available

LEMMA PruneKept ==
    ASSUME Grows, NEW p \in Pruners, PruneSound(p), pruner'[p] = pruner[p],
           listed'[p] = listed[p], \A c \in Conversations : backups[c] \subseteq backups'[c],
           Types
    PROVE  PruneSound(p)'
<1>1. pruner[p].at = "cleaning" => \A f \in pruner[p].paths : f[1] \in deleted'
  BY DEF Grows, PruneSound
<1>2. pruner[p].at \in {"listed", "copied"} => \A c \in pruner[p].ids :
        listed[p][c] \subseteq (IF c \in Live' THEN conversations'[c].messages ELSE {})
  BY DEF Grows, PruneSound
<1>3. pruner[p].at = "copied" => \A c \in pruner[p].ids : listed[p][c] \subseteq backups'[c]
  BY Positions DEF PruneSound, Types, Planning
<1> QED
  BY <1>1, <1>2, <1>3 DEF PruneSound

\* A step that only lets rows grow leaves every process sound that it does not
\* move.
LEMMA OthersKept ==
    ASSUME IInv, Grows, disk \subseteq disk',
           \A c \in Conversations : backups[c] \subseteq backups'[c]
    PROVE  /\ Kept
           /\ \A k \in Compactors : pass'[k] = pass[k] => PassSound(k)'
           /\ \A r \in Carriers : carrier'[r] = carrier[r] => CarrySound(r)'
           /\ \A p \in Pruners : pruner'[p] = pruner[p] /\ listed'[p] = listed[p]
                => PruneSound(p)'
<1>1. Kept
  BY DEF Grows, Kept
<1> QED
  BY <1>1, PassKept, CarryKept, PruneKept DEF IInv, Sound

LEMMA SoundInit == Init => Sound
<1> SUFFICES ASSUME Init PROVE Sound
  OBVIOUS
<1>1. Live = {}
  BY DEF Init, Live
<1>2. /\ \A k \in Compactors : pass[k] = Idle
      /\ \A r \in Carriers : carrier[r] = Idle
      /\ \A p \in Pruners : pruner[p].at = "idle"
  BY DEF Init, Idle
<1> QED
  BY <1>1, <1>2 DEF Sound, PassSound, CarrySound, PruneSound

LEMMA SoundIngest ==
    ASSUME IInv, NEW h \in Hosts, BeginIngest(h) \/ AppendMessage(h)
    PROVE  Sound'
<1>1. UNCHANGED <<disk, backups, pass, carrier, pruner, listed, deleted>>
  BY DEF BeginIngest, AppendMessage
<1>2. CASE BeginIngest(h)
  <2>1. PICK c \in Conversations : Ensure(c)
    BY <1>2 DEF BeginIngest
  <2>2. Grows
    BY <1>1, <2>1, EnsureGrows DEF IInv, Types
  <2>3. \A d \in Live' : RowSound(d)'
    <3>1. SUFFICES ASSUME NEW d \in Live' PROVE RowSound(d)'
      OBVIOUS
    <3>2. CASE d \notin Live /\ conversations'[d] = NewRow
      BY <3>2 DEF RowSound, NewRow, EmptyWindow, Resolves
    <3>3. CASE /\ d \in Live
               /\ conversations'[d].messages = conversations[d].messages
               /\ conversations'[d].summaries = conversations[d].summaries
               /\ conversations'[d].window = conversations[d].window
               /\ conversations'[d].offloads = conversations[d].offloads
               /\ conversations'[d].seeds = conversations[d].seeds
      BY <1>1, <2>2, <3>3, RowKept, OthersKept DEF IInv, Sound
    <3> QED
      BY <1>1, <2>1, <3>2, <3>3, EnsureGrows DEF IInv, Types
  <2> QED
    BY <1>1, <2>2, <2>3, OthersKept DEF Sound
<1>3. CASE AppendMessage(h)
  <2> DEFINE c == host[h].conversation
             row == IF host[h].event \in conversations[c].messages THEN conversations[c]
                    ELSE [conversations[c] EXCEPT !.messages = @ \cup {host[h].event},
                                                  !.inactive = FALSE]
  <2>1. Write(c, row)
    BY <1>3 DEF AppendMessage
  <2>2. \A d \in Live :
          /\ d \in Live' /\ conversations[d].messages \subseteq conversations'[d].messages
          /\ conversations'[d].summaries = conversations[d].summaries
          /\ conversations'[d].window = conversations[d].window
          /\ conversations'[d].offloads = conversations[d].offloads
          /\ conversations'[d].seeds = conversations[d].seeds
    BY <2>1 DEF Write, Live, IInv, Types, RowsOK, Row
  <2>3. Live' = Live /\ Grows
    BY <1>1, <2>1, <2>2 DEF Write, Live, Grows
  <2>4. \A d \in Live' : RowSound(d)'
    BY <1>1, <2>2, <2>3, RowKept, OthersKept DEF IInv, Sound
  <2> QED
    BY <1>1, <2>3, <2>4, OthersKept DEF Sound
<1> QED
  BY <1>2, <1>3

LEMMA SoundRow ==
    ASSUME IInv, NEW c \in Live, Expand(c) \/ Pin(c) \/ Age(c)
    PROVE  Sound'
<1>1. UNCHANGED <<disk, backups, pass, carrier, pruner, listed, deleted>>
  BY DEF Expand, Pin, Age
<1>2. \A d \in Live :
        /\ d \in Live' /\ conversations[d].messages \subseteq conversations'[d].messages
        /\ conversations'[d].summaries = conversations[d].summaries
        /\ conversations'[d].window = conversations[d].window
        /\ conversations'[d].offloads = conversations[d].offloads
        /\ conversations'[d].seeds = conversations[d].seeds
  BY DEF Expand, Pin, SetPin, Age, Write, Live, IInv, Types, RowsOK, Row
<1>3. Live' = Live /\ Grows
  BY <1>1, <1>2 DEF Expand, Pin, SetPin, Age, Write, Live, Grows
<1>4. \A d \in Live' : RowSound(d)'
  BY <1>1, <1>2, <1>3, RowKept, OthersKept DEF IInv, Sound
<1> QED
  BY <1>1, <1>3, <1>4, OthersKept DEF Sound

LEMMA SoundPass ==
    ASSUME IInv, NEW k \in Compactors,
           \/ BeginPass(k) \/ BeginFold(k) \/ WriteFile(k) \/ RecordFile(k)
           \/ CreateLeaf(k) \/ Persist(k) \/ EndPass(k)
    PROVE  Sound'
<1> DEFINE c == pass[k].conversation
<1>1. /\ UNCHANGED <<backups, carrier, pruner, listed, deleted>>
      /\ disk \subseteq disk'
      /\ \A j \in Compactors : j # k => pass'[j] = pass[j]
      /\ pass \in [Compactors -> {Idle} \cup Reading \cup Folding]
  BY DEF BeginPass, BeginFold, WriteFile, RecordFile, CreateLeaf, Persist, EndPass, IInv,
         Types, ProcessesOK
<1>2. ASSUME Grows, PassSound(k)', \A d \in Live' : RowSound(d)' PROVE Sound'
  <2>1. \A j \in Compactors : PassSound(j)'
    BY <1>1, <1>2, OthersKept
  <2>2. (\A r \in Carriers : CarrySound(r)') /\ (\A p \in Pruners : PruneSound(p)')
    BY <1>1, <1>2, OthersKept
  <2> QED BY <1>2, <2>1, <2>2 DEF Sound
<1>3. ASSUME UNCHANGED conversations
      PROVE  Grows /\ \A d \in Live' : RowSound(d)'
  <2>1. Grows /\ Live' = Live
    BY <1>1, <1>3 DEF Grows, Live
  <2> QED
    BY <1>1, <1>3, <2>1, RowKept, OthersKept DEF IInv, Sound
<1>4. CASE BeginPass(k)
  <2>1. PICK d \in Live :
          /\ Resolves(conversations[d])
          /\ pass' = [pass EXCEPT ![k] =
            [at |-> "read", conversation |-> d, summaries |-> conversations[d].window.summaries,
             messages |-> conversations[d].window.messages
                            \cup (conversations[d].messages
                                    \ UNION conversations[d].window.summaries)]]
    BY <1>4 DEF BeginPass
  <2>2. UNCHANGED conversations /\ Live' = Live
    BY <1>4 DEF BeginPass, Live
  <2>3. PassSound(k)'
    BY <1>1, <2>1, <2>2 DEF PassSound, Resolves
  <2> QED BY <1>2, <1>3, <2>2, <2>3
<1>5. CASE BeginFold(k)
  <2>1. PICK block \in SUBSET pass[k].messages \ {{}} :
          pass' = [pass EXCEPT ![k] =
            [at |-> "folding", conversation |-> pass[k].conversation,
             summaries |-> pass[k].summaries, messages |-> pass[k].messages,
             block |-> block, large |-> block \cap Large, written |-> {}]]
    BY <1>1, <1>5 DEF BeginFold
  <2>2. UNCHANGED <<conversations, disk>> /\ Live' = Live /\ pass[k] # Idle
    BY <1>5 DEF BeginFold, Live, Idle
  <2>3. PassSound(k)'
    BY <1>1, <2>1, <2>2 DEF PassSound, IInv, Sound
  <2> QED BY <1>2, <1>3, <2>2, <2>3
<1>6. CASE WriteFile(k)
  <2>1. PICK e \in pass[k].large :
          /\ disk' = disk \cup {<<pass[k].conversation, e>>}
          /\ pass' = [pass EXCEPT ![k].large = @ \ {e}, ![k].written = {e}]
    BY <1>6 DEF WriteFile
  <2>2. pass[k] \in Folding /\ UNCHANGED conversations /\ Live' = Live /\ pass[k] # Idle
    BY <1>6, Positions DEF WriteFile, IInv, Types, Live, Idle
  <2>3. /\ pass'[k].conversation = pass[k].conversation /\ pass'[k].written = {e}
        /\ pass'[k].messages = pass[k].messages /\ pass'[k].summaries = pass[k].summaries
    BY <1>1, <2>1, <2>2 DEF Folding
  <2>4. PassSound(k)'
    BY <1>1, <2>1, <2>2, <2>3 DEF PassSound, IInv, Sound
  <2> QED BY <1>2, <1>3, <2>2, <2>4
<1>7. CASE RecordFile(k)
  <2> DEFINE row == [conversations[c] EXCEPT !.offloads = @ \cup pass[k].written]
  <2>1. pass[k] \in Folding /\ pass[k] # Idle
    BY <1>7, Positions DEF RecordFile, IInv, Types, Idle
  <2>2. /\ Live' = Live /\ c \in Live /\ conversations'[c] = row /\ disk' = disk
        /\ \A d \in Live : d # c => conversations'[d] = conversations[d]
    BY <1>7 DEF RecordFile, Write, Live
  <2>3. /\ row.messages = conversations[c].messages /\ row.summaries = conversations[c].summaries
        /\ row.window = conversations[c].window /\ row.seeds = conversations[c].seeds
        /\ row.offloads = conversations[c].offloads \cup pass[k].written
    BY <2>2 DEF IInv, Types, RowsOK, Row
  <2> HIDE DEF row
  <2>4. Grows
    BY <1>1, <2>2, <2>3 DEF Grows
  <2>5. \A d \in Live' : RowSound(d)'
    <3>1. ASSUME NEW d \in Live, d = c PROVE RowSound(d)'
      <4>1. \A seed \in conversations[d].seeds : Available(seed)'
        BY <1>1, <2>4, AvailableKept, OthersKept DEF IInv, Sound, RowSound
      <4>2. RowSound(d) /\ PassSound(k)
        BY DEF IInv, Sound
      <4>3. d \notin deleted => \A e \in row.offloads : <<d, e>> \in disk
        BY <1>7, <2>1, <2>3, <3>1, <4>2 DEF RecordFile, RowSound, PassSound
      <4>4. conversations'[d] = row
        BY <2>2, <3>1
      <4> QED
        BY <1>1, <2>2, <2>3, <3>1, <4>1, <4>2, <4>3, <4>4 DEF RowSound, Resolves
    <3>2. \A d \in Live : d # c => RowSound(d)'
      BY <1>1, <2>2, <2>4, RowKept, OthersKept DEF IInv, Sound
    <3> QED BY <2>2, <3>1, <3>2
  <2>6. PassSound(k)'
    <3>1. /\ pass'[k].conversation = c /\ pass'[k].written = {}
          /\ pass'[k].messages = pass[k].messages /\ pass'[k].summaries = pass[k].summaries
      BY <1>1, <1>7, <2>1 DEF RecordFile, Folding
    <3>2. /\ conversations'[c].messages = conversations[c].messages
          /\ conversations'[c].summaries = conversations[c].summaries
      BY <2>2, <2>3
    <3>3. PassSound(k)
      BY DEF IInv, Sound
    <3> QED BY <1>1, <2>1, <2>2, <3>1, <3>2, <3>3 DEF PassSound
  <2> QED BY <1>2, <2>4, <2>5, <2>6
<1>8. CASE CreateLeaf(k)
  <2> DEFINE row == [conversations[c] EXCEPT !.summaries = @ \cup {pass[k].block}]
  <2>1. pass[k] \in Folding /\ pass[k] # Idle
    BY <1>8, Positions DEF CreateLeaf, IInv, Types, Idle
  <2>2. /\ Live' = Live /\ c \in Live /\ conversations'[c] = row /\ disk' = disk
        /\ pass[k].block \subseteq conversations[c].messages
        /\ \A d \in Live : d # c => conversations'[d] = conversations[d]
    BY <1>8 DEF CreateLeaf, Write, Live, Holds
  <2>3. /\ row.messages = conversations[c].messages /\ row.offloads = conversations[c].offloads
        /\ row.window = conversations[c].window /\ row.seeds = conversations[c].seeds
        /\ row.summaries = conversations[c].summaries \cup {pass[k].block}
    BY <2>2 DEF IInv, Types, RowsOK, Row
  <2> HIDE DEF row
  <2>4. Grows
    BY <1>1, <2>2, <2>3 DEF Grows
  <2>5. \A d \in Live' : RowSound(d)'
    <3>1. ASSUME NEW d \in Live, d = c PROVE RowSound(d)'
      <4>1. \A seed \in conversations[d].seeds : Available(seed)'
        BY <1>1, <2>4, AvailableKept, OthersKept DEF IInv, Sound, RowSound
      <4>2. RowSound(d)
        BY DEF IInv, Sound
      <4>3. UNION row.summaries \subseteq row.messages
        BY <2>2, <2>3, <3>1, <4>2 DEF RowSound
      <4>4. conversations'[d] = row
        BY <2>2, <3>1
      <4> QED
        BY <1>1, <2>2, <2>3, <3>1, <4>1, <4>2, <4>3, <4>4 DEF RowSound, Resolves
    <3>2. \A d \in Live : d # c => RowSound(d)'
      BY <1>1, <2>2, <2>4, RowKept, OthersKept DEF IInv, Sound
    <3> QED BY <2>2, <3>1, <3>2
  <2>6. PassSound(k)'
    <3>1. /\ pass'[k].conversation = c /\ pass'[k].at = "read"
          /\ pass'[k].messages \subseteq pass[k].messages
          /\ pass'[k].summaries = pass[k].summaries \cup {pass[k].block}
      BY <1>1, <1>8, <2>1 DEF CreateLeaf, Folding
    <3>2. /\ conversations'[c].messages = conversations[c].messages
          /\ conversations'[c].summaries = conversations[c].summaries \cup {pass[k].block}
      BY <2>2, <2>3
    <3>3. PassSound(k)
      BY DEF IInv, Sound
    <3> QED BY <1>1, <2>1, <2>2, <3>1, <3>2, <3>3 DEF PassSound
  <2> QED BY <1>2, <2>4, <2>5, <2>6
<1>9. CASE Persist(k)
  <2> DEFINE row == [conversations[c] EXCEPT
                       !.window = [messages |-> pass[k].messages, summaries |-> pass[k].summaries]]
  <2>1. pass[k] \in Reading /\ pass[k] # Idle
    BY <1>9, Positions DEF Persist, IInv, Types, Idle
  <2>2. /\ Live' = Live /\ c \in Live /\ conversations'[c] = row /\ disk' = disk
        /\ \A d \in Live : d # c => conversations'[d] = conversations[d]
    BY <1>9 DEF Persist, Write, Live
  <2>3. /\ row.messages = conversations[c].messages /\ row.offloads = conversations[c].offloads
        /\ row.summaries = conversations[c].summaries /\ row.seeds = conversations[c].seeds
        /\ row.window.messages = pass[k].messages /\ row.window.summaries = pass[k].summaries
    BY <2>2 DEF IInv, Types, RowsOK, Row
  <2> HIDE DEF row
  <2>4. Grows
    BY <1>1, <2>2, <2>3 DEF Grows
  <2>5. \A d \in Live' : RowSound(d)'
    <3>1. ASSUME NEW d \in Live, d = c PROVE RowSound(d)'
      <4>1. \A seed \in conversations[d].seeds : Available(seed)'
        BY <1>1, <2>4, AvailableKept, OthersKept DEF IInv, Sound, RowSound
      <4>2. RowSound(d) /\ PassSound(k)
        BY DEF IInv, Sound
      <4>3. d \notin deleted => Resolves(row)
        BY <2>1, <2>3, <3>1, <4>2 DEF PassSound, Resolves
      <4>4. conversations'[d] = row
        BY <2>2, <3>1
      <4> QED
        BY <1>1, <2>2, <2>3, <3>1, <4>1, <4>2, <4>3, <4>4 DEF RowSound
    <3>2. \A d \in Live : d # c => RowSound(d)'
      BY <1>1, <2>2, <2>4, RowKept, OthersKept DEF IInv, Sound
    <3> QED BY <2>2, <3>1, <3>2
  <2>6. PassSound(k)'
    BY <1>1, <1>9 DEF Persist, PassSound
  <2> QED BY <1>2, <2>4, <2>5, <2>6
<1>10. CASE EndPass(k)
  <2>1. UNCHANGED conversations /\ PassSound(k)'
    BY <1>1, <1>10 DEF EndPass, PassSound
  <2> QED BY <1>2, <1>3, <2>1
<1> QED
  BY <1>4, <1>5, <1>6, <1>7, <1>8, <1>9, <1>10

LEMMA SoundCarry ==
    ASSUME IInv, NEW r \in Carriers,
           Select(r) \/ EnsureTarget(r) \/ AppendSeed(r) \/ PinSource(r) \/ EndCarry(r)
    PROVE  Sound'
<1>1. /\ UNCHANGED <<backups, disk, pass, pruner, listed, deleted>>
      /\ \A q \in Carriers : q # r => carrier'[q] = carrier[q]
      /\ carrier \in [Carriers -> {Idle} \cup Carrying]
  BY DEF Select, EnsureTarget, AppendSeed, PinSource, EndCarry, IInv, Types, ProcessesOK
<1>2. ASSUME Grows, CarrySound(r)', \A d \in Live' : RowSound(d)' PROVE Sound'
  <2>1. \A q \in Carriers : CarrySound(q)'
    BY <1>1, <1>2, OthersKept
  <2>2. (\A k \in Compactors : PassSound(k)') /\ (\A p \in Pruners : PruneSound(p)')
    BY <1>1, <1>2, OthersKept
  <2> QED BY <1>2, <2>1, <2>2 DEF Sound
<1>3. ASSUME UNCHANGED conversations
      PROVE  Grows /\ \A d \in Live' : RowSound(d)'
  <2>1. Grows /\ Live' = Live
    BY <1>1, <1>3 DEF Grows, Live
  <2> QED
    BY <1>1, <1>3, <2>1, RowKept, OthersKept DEF IInv, Sound
<1>4. ASSUME Grows, carrier[r] # Idle, carrier'[r].seed = carrier[r].seed PROVE CarrySound(r)'
  <2>1. Available(carrier[r].seed)
    BY <1>4 DEF IInv, Sound, CarrySound
  <2>2. Kept
    BY <1>1, <1>4, OthersKept
  <2> QED
    BY <1>4, <2>1, <2>2, AvailableKept DEF CarrySound, Kept, Available
<1>5. CASE Select(r)
  <2>1. PICK source \in Live, target \in Conversations :
          carrier' = [carrier EXCEPT ![r] = [at |-> "selected", target |-> target,
            seed |-> [source |-> source, summaries |-> conversations[source].summaries]]]
    BY <1>5 DEF Select
  <2>2. UNCHANGED conversations /\ Live' = Live
    BY <1>5 DEF Select, Live
  <2>3. CarrySound(r)'
    BY <1>1, <2>1, <2>2 DEF CarrySound, Available
  <2> QED BY <1>2, <1>3, <2>2, <2>3
<1>6. CASE EnsureTarget(r)
  <2>1. carrier[r] \in Carrying /\ carrier[r] # Idle /\ Ensure(carrier[r].target)
    BY <1>6, Positions DEF EnsureTarget, IInv, Types, Idle
  <2>2. carrier[r].target \in Conversations /\ carrier'[r].seed = carrier[r].seed
    BY <1>1, <1>6, <2>1 DEF EnsureTarget, Carrying
  <2>3. Grows
    BY <1>1, <2>1, <2>2, EnsureGrows DEF IInv, Types
  <2>4. \A d \in Live' : RowSound(d)'
    <3>1. SUFFICES ASSUME NEW d \in Live' PROVE RowSound(d)'
      OBVIOUS
    <3>2. CASE d \notin Live /\ conversations'[d] = NewRow
      BY <3>2 DEF RowSound, NewRow, EmptyWindow, Resolves
    <3>3. CASE /\ d \in Live
               /\ conversations'[d].messages = conversations[d].messages
               /\ conversations'[d].summaries = conversations[d].summaries
               /\ conversations'[d].window = conversations[d].window
               /\ conversations'[d].offloads = conversations[d].offloads
               /\ conversations'[d].seeds = conversations[d].seeds
      BY <1>1, <2>3, <3>3, RowKept, OthersKept DEF IInv, Sound
    <3> QED
      BY <1>1, <2>1, <2>2, <3>2, <3>3, EnsureGrows DEF IInv, Types
  <2> QED BY <1>2, <1>4, <2>1, <2>2, <2>3, <2>4
<1>7. CASE AppendSeed(r)
  <2> DEFINE t == carrier[r].target
             row == IF \E seed \in conversations[t].seeds : seed.source = carrier[r].seed.source
                      THEN conversations[t]
                      ELSE [conversations[t] EXCEPT !.seeds = @ \cup {carrier[r].seed},
                                                    !.inactive = FALSE]
  <2>1. carrier[r] \in Carrying /\ carrier[r] # Idle
    BY <1>7, Positions DEF AppendSeed, IInv, Types, Idle
  <2>2. /\ Live' = Live /\ t \in Live /\ conversations'[t] = row
        /\ \A d \in Live : d # t => conversations'[d] = conversations[d]
    BY <1>7 DEF AppendSeed, Write, Live
  <2>3. /\ row.messages = conversations[t].messages /\ row.summaries = conversations[t].summaries
        /\ row.window = conversations[t].window /\ row.offloads = conversations[t].offloads
        /\ row.seeds \subseteq conversations[t].seeds \cup {carrier[r].seed}
    BY <2>2 DEF IInv, Types, RowsOK, Row
  <2>4. carrier'[r].seed = carrier[r].seed
    BY <1>1, <1>7, <2>1 DEF AppendSeed, Carrying
  <2> HIDE DEF row
  <2>5. Grows
    BY <1>1, <2>2, <2>3 DEF Grows
  <2>6. Available(carrier[r].seed)
    BY <2>1 DEF IInv, Sound, CarrySound
  <2>7. \A d \in Live' : RowSound(d)'
    <3>1. ASSUME NEW d \in Live, d = t PROVE RowSound(d)'
      <4>1. RowSound(d)
        BY DEF IInv, Sound
      <4>2. \A seed : seed \in row.seeds => Available(seed)
        BY <2>3, <2>6, <3>1, <4>1 DEF RowSound
      <4>3. \A seed : seed \in row.seeds => Available(seed)'
        BY <1>1, <2>5, <4>2, AvailableKept, OthersKept
      <4>4. conversations'[d] = row
        BY <2>2, <3>1
      <4> QED
        BY <1>1, <2>2, <2>3, <3>1, <4>1, <4>3, <4>4 DEF RowSound, Resolves
    <3>2. \A d \in Live : d # t => RowSound(d)'
      BY <1>1, <2>2, <2>5, RowKept, OthersKept DEF IInv, Sound
    <3> QED BY <2>2, <3>1, <3>2
  <2> QED BY <1>2, <1>4, <2>1, <2>4, <2>5, <2>7
<1>8. CASE PinSource(r)
  <2>1. \A d \in Live :
          /\ d \in Live' /\ conversations[d].messages \subseteq conversations'[d].messages
          /\ conversations'[d].summaries = conversations[d].summaries
          /\ conversations'[d].window = conversations[d].window
          /\ conversations'[d].offloads = conversations[d].offloads
          /\ conversations'[d].seeds = conversations[d].seeds
    BY <1>8 DEF PinSource, SetPin, Write, Live, IInv, Types, RowsOK, Row
  <2>2. Live' = Live /\ Grows
    BY <1>1, <1>8, <2>1 DEF PinSource, SetPin, Write, Live, Grows
  <2>3. \A d \in Live' : RowSound(d)'
    BY <1>1, <2>1, <2>2, RowKept, OthersKept DEF IInv, Sound
  <2>4. CarrySound(r)'
    BY <1>1, <1>8 DEF PinSource, CarrySound
  <2> QED BY <1>2, <2>2, <2>3, <2>4
<1>9. CASE EndCarry(r)
  <2>1. UNCHANGED conversations /\ CarrySound(r)'
    BY <1>1, <1>9 DEF EndCarry, CarrySound
  <2> QED BY <1>2, <1>3, <2>1
<1> QED
  BY <1>5, <1>6, <1>7, <1>8, <1>9

LEMMA SoundPrune ==
    ASSUME IInv, NEW p \in Pruners,
           List(p) \/ Backup(p) \/ Delete(p) \/ RemoveFile(p) \/ EndPrune(p)
    PROVE  Sound'
<1>1. /\ UNCHANGED <<pass, carrier>>
      /\ pruner \in [Pruners -> {Idle} \cup Planning \cup Cleaning] /\ DOMAIN listed = Pruners
      /\ \A q \in Pruners : q # p => pruner'[q] = pruner[q]
  BY DEF List, Backup, Delete, RemoveFile, EndPrune, IInv, Types, ProcessesOK, RestOK
<1>2. ASSUME UNCHANGED <<conversations, disk, deleted>>,
             \A q \in Pruners : q # p => listed'[q] = listed[q],
             \A c \in Conversations : backups[c] \subseteq backups'[c],
             PruneSound(p)'
      PROVE  Sound'
  <2>1. Grows /\ Live' = Live
    BY <1>2 DEF Grows, Live
  <2>2. \A d \in Live' : RowSound(d)'
    BY <1>2, <2>1, RowKept, OthersKept DEF IInv, Sound
  <2>3. /\ \A k \in Compactors : PassSound(k)'
        /\ \A r \in Carriers : CarrySound(r)'
        /\ \A q \in Pruners : PruneSound(q)'
    BY <1>1, <1>2, <2>1, OthersKept
  <2> QED BY <2>2, <2>3 DEF Sound
<1>3. CASE List(p)
  <2>1. PICK ids \in SUBSET Live :
          /\ pruner' = [pruner EXCEPT ![p] = [at |-> "listed", ids |-> ids]]
          /\ listed' = [listed EXCEPT ![p] = [c \in ids |-> conversations[c].messages]]
    BY <1>3 DEF List
  <2>2. UNCHANGED <<conversations, disk, deleted, backups>> /\ Live' = Live
    BY <1>3 DEF List, Live
  <2>3. PruneSound(p)'
    BY <1>1, <2>1, <2>2 DEF PruneSound
  <2> QED BY <1>1, <1>2, <2>1, <2>2, <2>3
<1>4. CASE Backup(p)
  <2>1. pruner[p] \in Planning /\ PruneSound(p) /\ pruner[p].at = "listed"
    BY <1>4, Positions DEF Backup, IInv, Types, Sound
  <2>2. UNCHANGED <<conversations, disk, deleted, listed>> /\ Live' = Live
    BY <1>4 DEF Backup, Live
  <2>3. \A c \in Conversations :
          backups'[c] = backups[c] \cup (IF c \in Live THEN conversations[c].messages ELSE {})
    BY <1>4 DEF Backup
  <2>4. /\ pruner'[p].at = "copied" /\ pruner'[p].ids = pruner[p].ids
        /\ pruner[p].ids \subseteq Conversations
    BY <1>1, <1>4, <2>1 DEF Backup, Planning
  <2>5. PruneSound(p)'
    BY <2>1, <2>2, <2>3, <2>4 DEF PruneSound
  <2> QED BY <1>2, <2>2, <2>3, <2>5
<1>5. CASE Delete(p)
  <2> DEFINE ids == pruner[p].ids
  <2>1. /\ Live' = Live \ ids /\ \A c \in Live' : conversations'[c] = conversations[c]
        /\ deleted' = deleted \cup (ids \cap Live)
        /\ pruner'[p] = [at |-> "cleaning", paths |-> OffloadsOf(ids)]
        /\ UNCHANGED <<disk, backups>>
    BY <1>1, <1>5 DEF Delete, Live
  <2>2. Kept
    BY <2>1 DEF Kept
  <2>3. \A d \in Live' : RowSound(d)'
    BY <2>1, <2>2, RowKept DEF IInv, Sound
  <2>4. /\ \A k \in Compactors : PassSound(k)'
        /\ \A r \in Carriers : CarrySound(r)'
    BY <1>1, <2>2, PassKept, CarryKept DEF IInv, Sound
  <2>5. PruneSound(p)'
    <3>1. \A f \in OffloadsOf(ids) : f[1] \in deleted'
      BY <2>1 DEF OffloadsOf
    <3> QED BY <2>1, <3>1 DEF PruneSound
  <2>6. ASSUME NEW q \in Pruners, q # p PROVE PruneSound(q)'
    <3>1. PruneSound(q) /\ pruner'[q] = pruner[q]
      BY <1>1, <2>6 DEF IInv, Sound
    <3>2. \A c \in DOMAIN listed[q] : listed'[q][c] = IF c \in ids THEN {} ELSE listed[q][c]
      BY <1>5, <2>6 DEF Delete, Unlist
    <3>3. pruner[q].at \in {"listed", "copied"} => DOMAIN listed[q] = pruner[q].ids
      BY DEF IInv, Types, RestOK
    <3> QED BY <2>1, <3>1, <3>2, <3>3 DEF PruneSound
  <2> QED BY <2>3, <2>4, <2>5, <2>6 DEF Sound
<1>6. CASE RemoveFile(p)
  <2>1. PICK f \in pruner[p].paths :
          /\ disk' = disk \ {f}
          /\ pruner' = [pruner EXCEPT ![p].paths = @ \ {f}]
    BY <1>6 DEF RemoveFile
  <2>2. pruner[p] \in Cleaning /\ pruner[p].at = "cleaning" /\ PruneSound(p)
    BY <1>6, Positions DEF RemoveFile, IInv, Types, Sound
  <2>3. UNCHANGED <<conversations, deleted, listed, backups>> /\ Live' = Live
    BY <1>6 DEF RemoveFile, Live
  <2>4. \A c, e : c \notin deleted /\ <<c, e>> \in disk => <<c, e>> \in disk'
    BY <2>1, <2>2 DEF PruneSound
  <2>5. Kept /\ Grows
    BY <2>3, <2>4 DEF Kept, Grows
  <2>6. \A d \in Live' : RowSound(d)'
    BY <2>3, <2>5, RowKept DEF IInv, Sound
  <2>7. /\ \A k \in Compactors : PassSound(k)'
        /\ \A r \in Carriers : CarrySound(r)'
    BY <1>1, <2>5, PassKept, CarryKept DEF IInv, Sound
  <2>8. PruneSound(p)'
    <3>1. pruner'[p].at = "cleaning" /\ pruner'[p].paths \subseteq pruner[p].paths
      BY <1>1, <2>1, <2>2 DEF Cleaning
    <3> QED BY <2>2, <2>3, <3>1 DEF PruneSound
  <2>9. \A q \in Pruners : q # p => PruneSound(q)'
    BY <1>1, <2>3, <2>5, PruneKept DEF IInv, Sound
  <2> QED BY <2>6, <2>7, <2>8, <2>9 DEF Sound
<1>7. CASE EndPrune(p)
  <2>1. /\ UNCHANGED <<conversations, disk, deleted, backups>>
        /\ pruner'[p] = Idle /\ \A q \in Pruners : q # p => listed'[q] = listed[q]
    BY <1>1, <1>7 DEF EndPrune
  <2>2. PruneSound(p)'
    BY <2>1 DEF PruneSound, Idle
  <2> QED BY <1>2, <2>1, <2>2
<1> QED
  BY <1>3, <1>4, <1>5, <1>6, <1>7

LEMMA IInvInvariant == Spec => []IInv
<1>1. Init => IInv
  BY TypesInit, SoundInit DEF IInv
<1>2. IInv /\ [Next]_vars => IInv'
  <2>1. IInv /\ UNCHANGED vars => Sound'
    BY DEF vars, IInv, Sound, RowSound, PassSound, CarrySound, PruneSound, Available, Live
  <2>2. IInv /\ Next => Sound'
    BY SoundIngest, SoundPass, SoundRow, SoundCarry, SoundPrune DEF Next
  <2> QED
    BY <2>1, <2>2, TypesNext DEF IInv
<1> QED
  BY <1>1, <1>2, PTL DEF Spec

\* A summary always has its sources.  A conversation that was never deleted also
\* has a window that resolves, the files of its offloads and the summaries seeds
\* were taken from, whatever passes, prunes and carry-overs run at once.
THEOREM NothingEverDangles == Spec => []NothingDangles
<1>1. IInv => NothingDangles
  BY DEF IInv, Sound, RowSound, Available, NothingDangles
<1> QED
  BY <1>1, IInvInvariant, PTL

\* Whatever a conversation has held since a prune listed it is in a verified
\* snapshot by the time that prune deletes it, however many prunes run at once.
THEOREM RollbackAlwaysCoversPlan == Spec => RollbackCoversPlan
<1> DEFINE Covered ==
      \A c \in Live \ Live' : \E p \in Pruners :
        c \in DOMAIN listed[p] /\ listed[p][c] \subseteq backups[c]
<1>1. IInv /\ [Next]_vars => [Covered]_vars
  <2> SUFFICES ASSUME IInv, Next, NEW c \in Live \ Live'
               PROVE  \E p \in Pruners :
                        c \in DOMAIN listed[p] /\ listed[p][c] \subseteq backups[c]
    OBVIOUS
  <2>1. ASSUME NEW p \in Pruners, Delete(p)
        PROVE  c \in DOMAIN listed[p] /\ listed[p][c] \subseteq backups[c]
    <3>1. c \in pruner[p].ids /\ pruner[p].at = "copied"
      BY <2>1 DEF Delete, Live
    <3> QED BY <3>1 DEF IInv, Types, RestOK, Sound, PruneSound
  <2>2. ASSUME NEW h \in Hosts, BeginIngest(h) \/ AppendMessage(h) PROVE FALSE
    BY <2>2 DEF BeginIngest, AppendMessage, Ensure, Write, Live
  <2>3. ASSUME NEW k \in Compactors,
               \/ BeginPass(k) \/ BeginFold(k) \/ WriteFile(k) \/ RecordFile(k)
               \/ CreateLeaf(k) \/ Persist(k) \/ EndPass(k)
        PROVE  FALSE
    BY <2>3 DEF BeginPass, BeginFold, WriteFile, RecordFile, CreateLeaf, Persist, EndPass,
                Write, Live
  <2>4. ASSUME NEW d \in Live, Expand(d) \/ Pin(d) \/ Age(d) PROVE FALSE
    BY <2>4 DEF Expand, Pin, SetPin, Age, Write, Live
  <2>5. ASSUME NEW r \in Carriers,
               Select(r) \/ EnsureTarget(r) \/ AppendSeed(r) \/ PinSource(r) \/ EndCarry(r)
        PROVE  FALSE
    BY <2>5 DEF Select, EnsureTarget, AppendSeed, PinSource, SetPin, EndCarry, Ensure, Write, Live
  <2>6. ASSUME NEW p \in Pruners, List(p) \/ Backup(p) \/ RemoveFile(p) \/ EndPrune(p)
        PROVE  FALSE
    BY <2>6 DEF List, Backup, RemoveFile, EndPrune, Live
  <2> QED
    BY <2>1, <2>2, <2>3, <2>4, <2>5, <2>6 DEF Next
<1> QED
  BY <1>1, IInvInvariant, PTL DEF Spec, RollbackCoversPlan

\* A pin that no running prune has overlooked protects its conversation for good:
\* neither --force nor any race removes it or lets it be listed.
THEOREM PinAlwaysHolds == Spec => PinHolds
<1> DEFINE Protected ==
             \A c \in Live : conversations[c].pinned /\ ~Planned(c)
               => c \in Live' /\ conversations'[c].pinned /\ ~Planned(c)'
<1>1. IInv /\ [Next]_vars => [Protected]_vars
  <2> SUFFICES ASSUME IInv, Next, NEW c \in Live, conversations[c].pinned, ~Planned(c)
               PROVE  c \in Live' /\ conversations'[c].pinned /\ ~Planned(c)'
    OBVIOUS
  <2>1. conversations[c] \in Row
    BY DEF IInv, Types, RowsOK
  <2>2. ASSUME NEW h \in Hosts, BeginIngest(h) \/ AppendMessage(h)
        PROVE  c \in Live' /\ conversations'[c].pinned /\ ~Planned(c)'
    <3>1. c \in Live' /\ conversations'[c].pinned
      <4>1. ASSUME NEW d \in Conversations, Ensure(d) PROVE c \in Live' /\ conversations'[c].pinned
        BY <2>2, <4>1, EnsureGrows DEF Grows, IInv, Types, BeginIngest, AppendMessage
      <4>2. CASE AppendMessage(h)
        <5>1. c \in Live' /\ conversations'[c].pinned = conversations[c].pinned
          BY <2>1, <4>2 DEF AppendMessage, Write, Live, Row
        <5> QED BY <5>1
      <4> QED BY <2>2, <4>1, <4>2 DEF BeginIngest
    <3> QED BY <2>2, <3>1 DEF BeginIngest, AppendMessage, Planned
  <2>3. ASSUME NEW k \in Compactors,
               \/ BeginPass(k) \/ BeginFold(k) \/ WriteFile(k) \/ RecordFile(k)
               \/ CreateLeaf(k) \/ Persist(k) \/ EndPass(k)
        PROVE  c \in Live' /\ conversations'[c].pinned /\ ~Planned(c)'
    <3>1. c \in Live' /\ conversations'[c].pinned
      BY SMTT(30), <2>1, <2>3 DEF BeginPass, BeginFold, WriteFile, RecordFile, CreateLeaf, Persist, EndPass,
                  Write, Live, Row
    <3> QED
      BY <2>3, <3>1 DEF BeginPass, BeginFold, WriteFile, RecordFile, CreateLeaf, Persist, EndPass,
                        Planned
  <2>4. ASSUME NEW d \in Live, Expand(d) \/ Pin(d) \/ Age(d)
        PROVE  c \in Live' /\ conversations'[c].pinned /\ ~Planned(c)'
    <3>1. c \in Live' /\ conversations'[c].pinned
      BY <2>1, <2>4 DEF Expand, Pin, SetPin, Age, Write, Live, Row
    <3> QED BY <2>4, <3>1 DEF Expand, Pin, Age, Planned
  <2>5. ASSUME NEW r \in Carriers,
               Select(r) \/ EnsureTarget(r) \/ AppendSeed(r) \/ PinSource(r) \/ EndCarry(r)
        PROVE  c \in Live' /\ conversations'[c].pinned /\ ~Planned(c)'
    <3>1. c \in Live' /\ conversations'[c].pinned
      <4>1. CASE EnsureTarget(r)
        <5>1. carrier[r].target \in Conversations /\ Ensure(carrier[r].target)
          BY <4>1, Positions DEF EnsureTarget, Carrying, IInv, Types
        <5> QED BY <4>1, <5>1, EnsureGrows DEF Grows, EnsureTarget, IInv, Types
      <4>2. CASE AppendSeed(r)
        <5>1. c \in Live' /\ conversations'[c].pinned = conversations[c].pinned
          BY <2>1, <4>2 DEF AppendSeed, Write, Live, Row
        <5> QED BY <5>1
      <4>3. CASE PinSource(r)
        BY <2>1, <4>3 DEF PinSource, SetPin, Write, Live, Row
      <4>4. CASE Select(r) \/ EndCarry(r)
        BY <4>4 DEF Select, EndCarry, Live
      <4> QED BY <2>5, <4>1, <4>2, <4>3, <4>4
    <3> QED
      BY <2>5, <3>1 DEF Select, EnsureTarget, AppendSeed, PinSource, EndCarry, Planned
  <2>6. ASSUME NEW p \in Pruners,
               List(p) \/ Backup(p) \/ Delete(p) \/ RemoveFile(p) \/ EndPrune(p)
        PROVE  c \in Live' /\ conversations'[c].pinned /\ ~Planned(c)'
    <3>1. /\ pruner \in [Pruners -> {Idle} \cup Planning \cup Cleaning]
          /\ \A q \in Pruners : q # p => pruner'[q] = pruner[q]
      BY <2>6 DEF List, Backup, Delete, RemoveFile, EndPrune, IInv, Types, ProcessesOK
    <3>2. c \in Live' /\ conversations'[c] = conversations[c]
      BY <2>6 DEF List, Backup, Delete, RemoveFile, EndPrune, Live, Planned
    <3>3. pruner'[p].at \in {"listed", "copied"} => c \notin pruner'[p].ids
      <4>1. CASE List(p)
        BY <3>1, <4>1 DEF List, Eligible
      <4>2. CASE Backup(p)
        <5>1. pruner[p] \in Planning /\ pruner[p].at = "listed"
          BY <4>2, Positions DEF Backup, IInv, Types
        <5>2. pruner'[p].ids = pruner[p].ids
          BY <3>1, <4>2, <5>1 DEF Backup, Planning
        <5> QED BY <5>1, <5>2 DEF Planned
      <4>3. CASE Delete(p)
        BY <3>1, <4>3 DEF Delete
      <4>4. CASE RemoveFile(p)
        <5>1. pruner[p] \in Cleaning
          BY <4>4, Positions DEF RemoveFile, IInv, Types
        <5> QED BY <3>1, <4>4, <5>1 DEF RemoveFile, Cleaning
      <4>5. CASE EndPrune(p)
        BY <3>1, <4>5 DEF EndPrune, Idle
      <4> QED BY <2>6, <4>1, <4>2, <4>3, <4>4, <4>5
    <3> QED
      BY <3>1, <3>2, <3>3 DEF Planned
  <2> QED
    BY <2>2, <2>3, <2>4, <2>5, <2>6 DEF Next
<1> QED
  BY <1>1, IInvInvariant, PTL DEF Spec, PinHolds
==============================================================================
