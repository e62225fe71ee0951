--------------------------- MODULE InstallProofs ---------------------------
(***************************************************************************)
(* Proofs about Install for every set of installers and every bound.       *)
(*                                                                         *)
(* Each kind of file has a form that every edit of acm or of the user      *)
(* keeps, and the part of it that an installation may replace is bounded   *)
(* by markers; what a run holds between its read and its rename is such a  *)
(* text too, and settled, so that it does not matter which of several      *)
(* installations renames last.                                             *)
(***************************************************************************)
EXTENDS Install, FiniteFacts, FiniteSetTheorems, TLAPS

-----------------------------------------------------------------------------
(* Texts *)

Blocks == {Block("old"), Block("new")}
Notifies == {Notify("acm"), Notify("user")}
Covering(event) == {Hook(event), Wrapped(event)}

Owned == {Own(n) : n \in Nat}

Hooks == UNION {Covering(event) : event \in HookEvents}
Singles == {Broken, Allow, Legacy, Start, End, Plugin("old"), Plugin("new")}

Items == Hooks \cup Blocks \cup Notifies \cup Owned \cup Singles

Texts == Seq(Items)

Some(text, items) == \E i \in DOMAIN text : text[i] \in items

AtMostOne(text, items) ==
    \A i, j \in DOMAIN text : text[i] \in items /\ text[j] \in items => i = j

-----------------------------------------------------------------------------
(* What a file of acm's is at any time, and once it is settled *)

Hooked == {"settings.json", "hooks.json"}
Docs == {"CLAUDE.md", "AGENTS.md", "opencode/AGENTS.md"}

HookForm(text) ==
    /\ \A event \in HookEvents : AtMostOne(text, Covering(event))
    /\ AtMostOne(text, {Allow})

NotifyForm(text) ==
    /\ AtMostOne(text, Notifies)
    /\ Has(text, Legacy) => ~ Has(text, Notify("acm"))

\* The end marker closes acm's block, which is below every start marker.
DocForm(text) ==
    /\ AtMostOne(text, Blocks)
    /\ AtMostOne(text, {End})
    /\ \A e \in DOMAIN text : text[e] = End =>
          \E b \in DOMAIN text :
             /\ text[b] \in Blocks /\ b < e
             /\ \E s \in DOMAIN text : text[s] = Start
             /\ \A s \in DOMAIN text : text[s] = Start => s < b

Form(path, text) ==
    /\ path \in Hooked => HookForm(text)
    /\ path = "config.toml" => NotifyForm(text)
    /\ path \in Docs => DocForm(text)

\* Every part of acm's is there; its form allows no second one.
Complete(path, text) ==
    /\ path \in Hooked => \A event \in HookEvents : Some(text, Covering(event))
    /\ path = "settings.json" => Some(text, {Allow})
    /\ path = "config.toml" => Some(text, Notifies)
    /\ path = "server.ts" => text = <<Plugin("new")>>
    /\ path \in Docs => Some(text, Blocks)

\* An occurrence of the item that no edit of acm replaces: below a start
\* marker only if it is below an end marker too.
Shielded(text, item) ==
    \E i \in DOMAIN text :
        /\ text[i] = item
        /\ \A s \in DOMAIN text : text[s] = Start /\ s < i =>
              \E e \in DOMAIN text : text[e] = End /\ e < i

Keeps(path, text, item) ==
    /\ Has(text, item)
    /\ path \in Docs => Shielded(text, item)

-----------------------------------------------------------------------------
(* The invariant *)

Config(path) == config[link[path]]

RunRecord == [at : {"idle", "reading", "renaming", "ended"}, agent : Hosts, next : Nat, text : Texts]

LinksOK ==
    link \in {[q \in Paths |-> IF shared /\ q \in {"CLAUDE.md", "AGENTS.md"} THEN Dotfile ELSE q] :
                 shared \in BOOLEAN}

\* The file a run is at, and those it has settled.
FileOf(run) == Files(run.agent)[run.next]

Done(run) ==
    CASE run.at \in Busy -> {Files(run.agent)[k] : k \in 1 .. (run.next - 1)}
      [] run.at = "ended" -> ToSet(Files(run.agent))
      [] OTHER -> {}

RunOK(run) ==
    /\ run.at \in Busy => run.next \in 1 .. Len(Files(run.agent))
    /\ \A path \in Done(run) : Complete(path, Config(path))
    /\ run.at = "renaming" =>
          /\ Form(FileOf(run), run.text)
          /\ Complete(FileOf(run), run.text)
          /\ \A w \in written \ exposed :
                w[1] = link[FileOf(run)] => Keeps(FileOf(run), run.text, w[2])

FilesOK ==
    /\ \A path \in Paths : Form(path, Config(path))
    /\ \A path \in Paths : \A w \in written \ exposed :
          w[1] = link[path] => Keeps(path, Config(path), w[2])

IInv ==
    /\ LinksOK
    /\ config \in [Targets -> Texts]
    /\ installer \in [Installers -> RunRecord]
    /\ written \subseteq Targets \X Owned
    /\ IsFiniteSet(written)
    /\ \A w \in written : \E path \in Paths : path # "server.ts" /\ link[path] = w[1]
    /\ FilesOK
    /\ \A p \in Installers : RunOK(installer[p])

-----------------------------------------------------------------------------
(* Texts and counts *)

LEMMA ItemKinds ==
    /\ \A event \in HookEvents : \A x \in Covering(event) : x.kind \in {"hook", "wrapped"} /\ x.what = event
    /\ \A x \in Blocks : x.kind = "block"
    /\ \A x \in Notifies : x.kind = "notify"
    /\ \A x \in Owned : x.kind = "own"
    /\ Allow.kind = "allow" /\ Legacy.kind = "legacy" /\ Broken.kind = "broken"
    /\ Start.kind = "marker" /\ End.kind = "marker" /\ Start # End
    /\ \A x \in Items : x.kind = "notify" => x \in Notifies
    /\ \A x \in Items : x.kind = "block" => x \in Blocks
<1>1. \A event \in HookEvents : \A x \in Covering(event) : x.kind \in {"hook", "wrapped"} /\ x.what = event
  BY DEF Covering, Hook, Wrapped, Item
<1>2. \A x \in Blocks : x.kind = "block"
  BY DEF Blocks, Block, Item
<1>3. \A x \in Notifies : x.kind = "notify"
  BY DEF Notifies, Notify, Item
<1>4. \A x \in Owned : x.kind = "own"
  BY DEF Owned, Own, Item
<1>5. /\ Allow.kind = "allow" /\ Legacy.kind = "legacy" /\ Broken.kind = "broken"
      /\ Start.kind = "marker" /\ End.kind = "marker" /\ Start # End
      /\ Plugin("old").kind = "plugin" /\ Plugin("new").kind = "plugin"
  <2>1. Start.what = "start" /\ End.what = "end"
    BY DEF Start, End, Item
  <2>2. Start # End
    BY <2>1
  <2> QED  BY <2>2 DEF Allow, Legacy, Broken, Start, End, Plugin, Item
<1>6. ASSUME NEW x \in Items
      PROVE  (x.kind = "notify" => x \in Notifies) /\ (x.kind = "block" => x \in Blocks)
  <2>1. x \in Hooks \/ x \in Blocks \/ x \in Notifies \/ x \in Owned \/ x \in Singles
    BY DEF Items
  <2>2. CASE x \in Hooks
    BY <1>1, <2>2 DEF Hooks
  <2>3. CASE x \in Blocks \/ x \in Notifies \/ x \in Owned
    BY <1>2, <1>3, <1>4, <2>3
  <2>4. CASE x \in Singles
    <3>1. x.kind # "notify" /\ x.kind # "block"
      BY <1>5, <2>4 DEF Singles
    <3> QED  BY <3>1
  <2> QED  BY <2>1, <2>2, <2>3, <2>4
<1> QED  BY <1>1, <1>2, <1>3, <1>4, <1>5, <1>6

LEMMA HasSome ==
    ASSUME NEW text, NEW x
    PROVE  Has(text, x) <=> Some(text, {x})
BY DEF Has, ToSet, Some

LEMMA CountOne ==
    ASSUME NEW text \in Texts, NEW items
    PROVE  Count(text, items) = 1 <=> Some(text, items) /\ AtMostOne(text, items)
<1> DEFINE I == {i \in DOMAIN text : text[i] \in items}
<1>1. DOMAIN text = 1 .. Len(text) /\ Len(text) \in Nat
  BY DEF Texts
<1>2. IsFiniteSet(I)
  <2>1. IsFiniteSet(1 .. Len(text))
    BY <1>1, FS_Interval
  <2>2. I \in SUBSET (1 .. Len(text))
    BY <1>1
  <2> QED  BY <2>1, <2>2, FS_Subset
<1>3. Cardinality(I) = 1 <=> \E i : I = {i}
  <2> HIDE DEF I
  <2> QED  BY <1>2, FS_Singleton
<1>4. (\E i : I = {i}) <=> Some(text, items) /\ AtMostOne(text, items)
  <2>1. ASSUME NEW i, I = {i} PROVE Some(text, items) /\ AtMostOne(text, items)
    BY <2>1 DEF Some, AtMostOne
  <2>2. ASSUME Some(text, items), AtMostOne(text, items) PROVE \E i : I = {i}
    <3>1. PICK i \in DOMAIN text : text[i] \in items
      BY <2>2 DEF Some
    <3>2. I = {i}
      BY <2>2, <3>1 DEF AtMostOne
    <3> QED  BY <3>2
  <2> QED  BY <2>1, <2>2
<1> QED  BY <1>3, <1>4 DEF Count

LEMMA Appended ==
    ASSUME NEW text \in Texts, NEW x \in Items
    PROVE  LET longer == Append(text, x)
           IN  /\ longer \in Texts
               /\ Len(text) \in Nat /\ DOMAIN text = 1 .. Len(text)
               /\ DOMAIN longer = 1 .. (Len(text) + 1)
               /\ longer[Len(text) + 1] = x
               /\ \A i \in DOMAIN text : longer[i] = text[i]
BY DEF Texts

LEMMA AppendedCounts ==
    ASSUME NEW text \in Texts, NEW x \in Items, NEW items
    PROVE  /\ Some(Append(text, x), items) <=> Some(text, items) \/ x \in items
           /\ AtMostOne(text, items) /\ ~ (x \in items /\ Some(text, items))
                 => AtMostOne(Append(text, x), items)
<1> DEFINE longer == Append(text, x)
<1>1. /\ longer \in Texts
      /\ Len(text) \in Nat /\ DOMAIN text = 1 .. Len(text)
      /\ DOMAIN longer = 1 .. (Len(text) + 1)
      /\ longer[Len(text) + 1] = x
      /\ \A i \in DOMAIN text : longer[i] = text[i]
  BY Appended
<1> HIDE DEF longer
<1>2. \A i \in DOMAIN longer : i \in DOMAIN text \/ i = Len(text) + 1
  BY <1>1
<1>3. DOMAIN text \subseteq DOMAIN longer /\ Len(text) + 1 \in DOMAIN longer
  BY <1>1
<1>4. Some(longer, items) <=> Some(text, items) \/ x \in items
  BY <1>1, <1>2, <1>3 DEF Some
<1>5. ASSUME AtMostOne(text, items), ~ (x \in items /\ Some(text, items)) PROVE AtMostOne(longer, items)
  BY <1>1, <1>2, <1>5 DEF AtMostOne, Some
<1> QED  BY <1>4, <1>5 DEF longer

-----------------------------------------------------------------------------
(* The user's edits *)

\* What the user adds at the end of a file is none of acm's.
LEMMA UserAppends ==
    ASSUME NEW text \in Texts, NEW x \in Owned
    PROVE  /\ Append(text, x) \in Texts
           /\ \A items : items \cap Owned = {} =>
                 /\ Some(Append(text, x), items) <=> Some(text, items)
                 /\ AtMostOne(text, items) => AtMostOne(Append(text, x), items)
<1>1. x \in Items
  BY DEF Items
<1>2. Append(text, x) \in Texts
  BY <1>1, Appended
<1>3. ASSUME NEW items, items \cap Owned = {}
      PROVE  /\ Some(Append(text, x), items) <=> Some(text, items)
             /\ AtMostOne(text, items) => AtMostOne(Append(text, x), items)
  <2>1. x \notin items
    BY <1>3
  <2> QED  BY <1>1, <2>1, AppendedCounts
<1> QED  BY <1>2, <1>3

LEMMA NotOwned ==
    /\ \A event \in HookEvents : Covering(event) \cap Owned = {}
    /\ Blocks \cap Owned = {} /\ Notifies \cap Owned = {}
    /\ {Allow} \cap Owned = {} /\ {Legacy} \cap Owned = {} /\ {Start} \cap Owned = {} /\ {End} \cap Owned = {}
    /\ {Notify("acm")} \cap Owned = {} /\ {Notify("user")} \cap Owned = {}
<1>1. Notify("acm") \in Notifies /\ Notify("user") \in Notifies
  BY DEF Notifies
<1> QED  BY <1>1, ItemKinds

LEMMA UserKeepsForm ==
    ASSUME NEW text \in Texts, NEW x \in Owned, NEW path, path # "server.ts"
    PROVE  /\ Form(path, text) => Form(path, Append(text, x))
           /\ Complete(path, text) => Complete(path, Append(text, x))
<1> DEFINE longer == Append(text, x)
<1>1. /\ Len(text) \in Nat /\ DOMAIN text = 1 .. Len(text)
      /\ DOMAIN longer = 1 .. (Len(text) + 1)
      /\ longer[Len(text) + 1] = x
      /\ \A i \in DOMAIN text : longer[i] = text[i]
  BY Appended DEF Items
<1>2. \A items : items \cap Owned = {} =>
         /\ Some(longer, items) <=> Some(text, items)
         /\ AtMostOne(text, items) => AtMostOne(longer, items)
  BY UserAppends
<1> HIDE DEF longer
<1>3. HookForm(text) => HookForm(longer)
  BY <1>2, NotOwned DEF HookForm
<1>4. NotifyForm(text) => NotifyForm(longer)
  <2>1. Has(longer, Legacy) <=> Has(text, Legacy)
    BY <1>2, NotOwned, HasSome
  <2>2. Has(longer, Notify("acm")) <=> Has(text, Notify("acm"))
    BY <1>2, NotOwned, HasSome
  <2>3. AtMostOne(text, Notifies) => AtMostOne(longer, Notifies)
    BY <1>2, NotOwned
  <2> QED  BY <2>1, <2>2, <2>3 DEF NotifyForm
<1>5. ASSUME DocForm(text) PROVE DocForm(longer)
  <2>1. AtMostOne(longer, Blocks) /\ AtMostOne(longer, {End})
    BY <1>2, <1>5, NotOwned DEF DocForm
  <2>2. x # Start /\ x # End
    BY NotOwned
  <2>3. \A i \in DOMAIN longer : i \in DOMAIN text \/ longer[i] = x
    BY <1>1
  <2>4. DOMAIN text \subseteq DOMAIN longer
    BY <1>1
  <2>5. ASSUME NEW e \in DOMAIN longer, longer[e] = End
        PROVE  \E b \in DOMAIN longer :
                 /\ longer[b] \in Blocks /\ b < e
                 /\ \E s \in DOMAIN longer : longer[s] = Start
                 /\ \A s \in DOMAIN longer : longer[s] = Start => s < b
    <3>1. e \in DOMAIN text /\ text[e] = End
      BY <1>1, <2>2, <2>3, <2>5
    <3>2. PICK b \in DOMAIN text :
            /\ text[b] \in Blocks /\ b < e
            /\ \E s \in DOMAIN text : text[s] = Start
            /\ \A s \in DOMAIN text : text[s] = Start => s < b
      BY <1>5, <3>1 DEF DocForm
    <3>3. longer[b] \in Blocks /\ b < e /\ \E s \in DOMAIN longer : longer[s] = Start
      BY <1>1, <2>4, <3>2
    <3>4. \A s \in DOMAIN longer : longer[s] = Start => s < b
      BY <1>1, <2>2, <2>3, <3>2
    <3> QED  BY <2>4, <3>2, <3>3, <3>4
  <2> QED  BY <2>1, <2>5 DEF DocForm
<1>6. Form(path, text) => Form(path, longer)
  BY <1>3, <1>4, <1>5 DEF Form
<1>7. Complete(path, text) => Complete(path, longer)
  BY <1>2, NotOwned DEF Complete
<1> QED  BY <1>6, <1>7 DEF longer

LEMMA UserKeepsItems ==
    ASSUME NEW text \in Texts, NEW x \in Owned, NEW path
    PROVE  /\ \A y : Keeps(path, text, y) => Keeps(path, Append(text, x), y)
           /\ ~ Unclosed(text) => Keeps(path, Append(text, x), x)
<1> DEFINE longer == Append(text, x)
<1>1. /\ Len(text) \in Nat /\ DOMAIN text = 1 .. Len(text)
      /\ DOMAIN longer = 1 .. (Len(text) + 1)
      /\ longer[Len(text) + 1] = x
      /\ \A i \in DOMAIN text : longer[i] = text[i]
  BY Appended DEF Items
<1>2. x # Start /\ x # End
  BY NotOwned
<1>3. \A y : Has(longer, y) <=> Has(text, y) \/ x = y
  <2> SUFFICES ASSUME NEW y PROVE Has(longer, y) <=> Has(text, y) \/ x = y
    OBVIOUS
  <2>1. Some(longer, {y}) <=> Some(text, {y}) \/ x \in {y}
    BY AppendedCounts DEF Items
  <2> HIDE DEF longer
  <2> QED  BY <2>1, HasSome
<1> HIDE DEF longer
<1>4. \A i \in DOMAIN longer : i \in DOMAIN text \/ (i = Len(text) + 1 /\ longer[i] = x)
  BY <1>1
<1>5. DOMAIN text \subseteq DOMAIN longer
  BY <1>1
<1>6. ASSUME NEW y, Shielded(text, y) PROVE Shielded(longer, y)
  <2>1. PICK i \in DOMAIN text :
          /\ text[i] = y
          /\ \A s \in DOMAIN text : text[s] = Start /\ s < i =>
                \E e \in DOMAIN text : text[e] = End /\ e < i
    BY <1>6 DEF Shielded
  <2>2. \A s \in DOMAIN longer : longer[s] = Start /\ s < i =>
                \E e \in DOMAIN longer : longer[e] = End /\ e < i
    BY <1>1, <1>2, <1>4, <1>5, <2>1
  <2>3. i \in DOMAIN longer /\ longer[i] = y
    BY <1>1, <1>5, <2>1
  <2> QED  BY <2>2, <2>3 DEF Shielded
<1>7. ASSUME ~ Unclosed(text) PROVE Shielded(longer, x)
  <2>1. Has(text, Start) => Has(text, End)
    BY <1>7 DEF Unclosed
  <2>2. \A s \in DOMAIN longer : longer[s] = Start /\ s < Len(text) + 1 =>
          \E e \in DOMAIN longer : longer[e] = End /\ e < Len(text) + 1
    <3> SUFFICES ASSUME NEW s \in DOMAIN longer, longer[s] = Start
                 PROVE  \E e \in DOMAIN longer : longer[e] = End /\ e < Len(text) + 1
      OBVIOUS
    <3>1. s \in DOMAIN text /\ text[s] = Start
      BY <1>1, <1>2, <1>4
    <3>2. PICK e \in DOMAIN text : text[e] = End
      BY <2>1, <3>1 DEF Has, ToSet
    <3> QED  BY <1>1, <1>5, <3>2
  <2> QED  BY <1>1, <2>2 DEF Shielded
<1> QED  BY <1>3, <1>6, <1>7 DEF Keeps, longer

-----------------------------------------------------------------------------
(* Hooks *)

LEMMA HookEntry ==
    ASSUME NEW text \in Texts, NEW event \in HookEvents
    PROVE  LET edited == ensureHookEntry(text, event)
           IN  /\ edited \in Texts
               /\ HookForm(text) => HookForm(edited)
               /\ Some(edited, Covering(event))
               /\ \A items : Some(text, items) => Some(edited, items)
<1> DEFINE edited == ensureHookEntry(text, event)
           x == Hook(event)
<1>1. x \in Covering(event) /\ x \in Items
  BY DEF Covering, Items, Hooks
<1>2. CASE Has(text, Hook(event)) \/ Has(text, Wrapped(event))
  <2>1. edited = text
    BY <1>2 DEF ensureHookEntry
  <2>2. Some(text, Covering(event))
    BY <1>2 DEF Has, ToSet, Some, Covering
  <2> QED  BY <2>1, <2>2
<1>3. CASE ~ (Has(text, Hook(event)) \/ Has(text, Wrapped(event)))
  <2>1. edited = Append(text, x)
    BY <1>3 DEF ensureHookEntry
  <2>2. ~ Some(text, Covering(event))
    BY <1>3 DEF Has, ToSet, Some, Covering
  <2>3. x # Allow /\ \A other \in HookEvents : x \in Covering(other) => other = event
    BY <1>1, ItemKinds
  <2> HIDE DEF edited, x
  <2>4. edited \in Texts
    BY <1>1, <2>1, Appended
  <2>5. \A items : Some(edited, items) <=> Some(text, items) \/ x \in items
    BY <1>1, <2>1, AppendedCounts
  <2>6. ASSUME HookForm(text) PROVE HookForm(edited)
    <3>1. ASSUME NEW other \in HookEvents PROVE AtMostOne(edited, Covering(other))
      <4>1. AtMostOne(text, Covering(other)) /\ ~ (x \in Covering(other) /\ Some(text, Covering(other)))
        BY <2>2, <2>3, <2>6 DEF HookForm
      <4> QED  BY <1>1, <2>1, <4>1, AppendedCounts
    <3>2. AtMostOne(edited, {Allow})
      <4>1. AtMostOne(text, {Allow}) /\ ~ (x \in {Allow} /\ Some(text, {Allow}))
        BY <2>3, <2>6 DEF HookForm
      <4> QED  BY <1>1, <2>1, <4>1, AppendedCounts
    <3> QED  BY <3>1, <3>2 DEF HookForm
  <2> QED  BY <1>1, <2>4, <2>5, <2>6 DEF edited
<1> QED  BY <1>2, <1>3

LEMMA AllowEntry ==
    ASSUME NEW text \in Texts
    PROVE  LET edited == ensureAllow(text)
           IN  /\ edited \in Texts
               /\ HookForm(text) => HookForm(edited)
               /\ Some(edited, {Allow})
               /\ \A items : Some(text, items) => Some(edited, items)
<1> DEFINE edited == ensureAllow(text)
<1>1. Allow \in Items
  BY DEF Items, Singles
<1>2. CASE Has(text, Allow)
  BY <1>2, HasSome DEF ensureAllow
<1>3. CASE ~ Has(text, Allow)
  <2>1. edited = Append(text, Allow)
    BY <1>3 DEF ensureAllow
  <2>2. ~ Some(text, {Allow})
    BY <1>3, HasSome
  <2>3. \A event \in HookEvents : Allow \notin Covering(event)
    BY ItemKinds
  <2> HIDE DEF edited
  <2>4. edited \in Texts
    BY <1>1, <2>1, Appended
  <2>5. \A items : Some(edited, items) <=> Some(text, items) \/ Allow \in items
    BY <1>1, <2>1, AppendedCounts
  <2>6. ASSUME HookForm(text) PROVE HookForm(edited)
    <3>1. ASSUME NEW event \in HookEvents PROVE AtMostOne(edited, Covering(event))
      <4>1. AtMostOne(text, Covering(event)) /\ ~ (Allow \in Covering(event) /\ Some(text, Covering(event)))
        BY <2>3, <2>6 DEF HookForm
      <4> QED  BY <1>1, <2>1, <4>1, AppendedCounts
    <3>2. AtMostOne(edited, {Allow})
      <4>1. AtMostOne(text, {Allow}) /\ ~ (Allow \in {Allow} /\ Some(text, {Allow}))
        BY <2>2, <2>6 DEF HookForm
      <4> QED  BY <1>1, <2>1, <4>1, AppendedCounts
    <3> QED  BY <3>1, <3>2 DEF HookForm
  <2> QED  BY <2>4, <2>5, <2>6 DEF edited
<1> QED  BY <1>2, <1>3

LEMMA HooksEdit ==
    ASSUME NEW text \in Texts
    PROVE  LET edited == ensureHooks(text)
           IN  /\ edited \in Texts
               /\ HookForm(text) => HookForm(edited)
               /\ \A event \in HookEvents : Some(edited, Covering(event))
               /\ \A items : Some(text, items) => Some(edited, items)
<1>1. PICK t1 : t1 = ensureHookEntry(text, "UserPromptSubmit")
  OBVIOUS
<1>2. PICK t2 : t2 = ensureHookEntry(t1, "PostToolUse")
  OBVIOUS
<1>3. PICK t3 : t3 = ensureHookEntry(t2, "Stop")
  OBVIOUS
<1>4. HookEvents = {"UserPromptSubmit", "PostToolUse", "Stop"}
  BY DEF HookEvents
<1>5. /\ t1 \in Texts /\ (HookForm(text) => HookForm(t1)) /\ Some(t1, Covering("UserPromptSubmit"))
      /\ \A items : Some(text, items) => Some(t1, items)
  BY <1>1, <1>4, HookEntry
<1>6. /\ t2 \in Texts /\ (HookForm(t1) => HookForm(t2)) /\ Some(t2, Covering("PostToolUse"))
      /\ \A items : Some(t1, items) => Some(t2, items)
  BY <1>2, <1>4, <1>5, HookEntry
<1>7. /\ t3 \in Texts /\ (HookForm(t2) => HookForm(t3)) /\ Some(t3, Covering("Stop"))
      /\ \A items : Some(t2, items) => Some(t3, items)
  BY <1>3, <1>4, <1>6, HookEntry
<1>8. ensureHooks(text) = t3
  BY <1>1, <1>2, <1>3 DEF ensureHooks
<1>9. \A event \in HookEvents : Some(t3, Covering(event))
  BY <1>4, <1>5, <1>6, <1>7
<1> QED  BY <1>5, <1>6, <1>7, <1>8, <1>9

-----------------------------------------------------------------------------
(* The notify command *)

\* One line of removeLegacyACMNotify's loop.
Line(text, kept, i) ==
    IF i = 0 THEN <<>>
    ELSE IF text[i] = Legacy THEN kept[i - 1]
    ELSE Append(kept[i - 1], text[i])

\* What the loop leaves is the text without the legacy line.
LEMMA LegacyRemoved ==
    ASSUME NEW text \in Texts
    PROVE  LET cleaned == removeLegacyACMNotify(text)
           IN  cleaned \in Texts /\ \A x : Has(cleaned, x) <=> Has(text, x) /\ x # Legacy
<1> DEFINE n == Len(text)
           Law(kept) == kept = [i \in 0 .. n |-> Line(text, kept, i)]
<1>1. n \in Nat /\ DOMAIN text = 1 .. n /\ \A i \in 1 .. n : text[i] \in Items
  BY DEF Texts
<1>2. \E kept : Law(kept)
  <2> DEFINE step == [i \in 1 .. n |-> [t \in Texts |-> IF text[i] = Legacy THEN t ELSE Append(t, text[i])]]
  <2>1. step \in [1 .. n -> [Texts -> Texts]]
    BY <1>1, Appended
  <2>2. <<>> \in Texts
    BY DEF Texts
  <2>3. PICK kept \in [0 .. n -> Texts] : Loop(kept, n, <<>>, step)
    <3> HIDE DEF step
    <3> QED  BY <1>1, <2>1, <2>2, LoopExists
  <2>4. ASSUME NEW i \in 0 .. n PROVE kept[i] = Line(text, kept, i)
    <3>1. CASE i = 0
      BY <2>3, <3>1 DEF Loop, Line
    <3>2. CASE i # 0
      <4>1. i \in 1 .. n /\ i - 1 \in 0 .. n
        BY <1>1, <3>2
      <4>2. kept[i] = step[i][kept[i - 1]] /\ kept[i - 1] \in Texts
        BY <2>3, <4>1 DEF Loop
      <4> QED  BY <3>2, <4>1, <4>2 DEF Line
    <3> QED  BY <3>1, <3>2
  <2> QED  BY <2>4
<1>3. \E kept : Law(kept) /\ removeLegacyACMNotify(text) = kept[n]
  <2>1. removeLegacyACMNotify(text) = (CHOOSE kept : Law(kept))[n]
    BY DEF removeLegacyACMNotify, Line
  <2> HIDE DEF Law
  <2> QED  BY <1>2, <2>1
<1>4. PICK kept : Law(kept) /\ removeLegacyACMNotify(text) = kept[n]
  BY <1>3
<1> DEFINE Good(m) == /\ kept[m] \in Texts
                      /\ \A x : Has(kept[m], x) <=> x # Legacy /\ \E j \in 1 .. m : text[j] = x
<1>5. Good(0)
  <2>1. kept[0] = <<>>
    BY <1>1, <1>4 DEF Line
  <2>2. <<>> \in Texts /\ \A x : ~ Has(<<>>, x)
    BY DEF Texts, Has, ToSet
  <2> QED  BY <2>1, <2>2
<1>6. ASSUME NEW m \in 1 .. n, Good(m - 1) PROVE Good(m)
  <2>1. m - 1 \in 0 .. n /\ m \in 0 .. n /\ \A j : j \in 1 .. m <=> j \in 1 .. (m - 1) \/ j = m
    BY <1>1
  <2>2. text[m] \in Items /\ kept[m] = Line(text, kept, m)
    BY <1>1, <1>4, <2>1
  <2>3. CASE text[m] = Legacy
    <3>1. kept[m] = kept[m - 1]
      BY <2>2, <2>3 DEF Line
    <3> QED  BY <1>6, <2>1, <2>3, <3>1
  <2>4. CASE text[m] # Legacy
    <3>1. kept[m] = Append(kept[m - 1], text[m])
      BY <2>2, <2>4 DEF Line
    <3>2. kept[m] \in Texts
      BY <1>6, <2>2, <3>1, Appended
    <3>3. ASSUME NEW x PROVE Has(kept[m], x) <=> Has(kept[m - 1], x) \/ text[m] = x
      <4>1. kept[m - 1] \in Texts
        BY <1>6
      <4> HIDE DEF Good
      <4>2. Some(kept[m], {x}) <=> Some(kept[m - 1], {x}) \/ text[m] \in {x}
        BY <2>2, <3>1, <4>1, AppendedCounts
      <4> QED  BY <4>2, HasSome
    <3> QED  BY <1>6, <2>1, <2>4, <3>2, <3>3
  <2> QED  BY <2>3, <2>4
<1>7. Good(n)
  <2> DEFINE Fine == {m \in 0 .. n : Good(m)}
  <2>1. 0 \in Fine /\ \A m \in 1 .. n : m - 1 \in Fine => m \in Fine
    BY <1>1, <1>5, <1>6
  <2>2. \A m \in 0 .. n : m \in Fine
    <3> HIDE DEF Fine
    <3> QED  BY <1>1, <2>1, Upward
  <2>3. n \in 0 .. n
    BY <1>1
  <2>4. n \in Fine
    <3> HIDE DEF Fine
    <3> QED  BY <2>2, <2>3
  <2> HIDE DEF Good
  <2> QED  BY <2>4
<1>8. \A x : Has(text, x) <=> \E j \in 1 .. n : text[j] = x
  BY <1>1 DEF Has, ToSet
<1> QED  BY <1>4, <1>7, <1>8

LEMMA NotifyEdit ==
    ASSUME NEW text \in Texts
    PROVE  LET edited == codexNotify(text)
           IN  /\ edited \in Texts
               /\ NotifyForm(text) => NotifyForm(edited)
               /\ Some(edited, Notifies)
               /\ \A x \in Owned : Has(text, x) => Has(edited, x)
<1> DEFINE edited == codexNotify(text)
<1>1. CASE HasKind(text, "notify")
  <2>1. edited = text
    BY <1>1 DEF codexNotify
  <2>2. PICK i \in DOMAIN text : text[i].kind = "notify"
    BY <1>1 DEF HasKind, ToSet
  <2>3. text[i] \in Items
    BY DEF Texts
  <2>4. text[i] \in Notifies
    BY <2>2, <2>3, ItemKinds
  <2>5. Some(text, Notifies)
    BY <2>4 DEF Some
  <2> QED  BY <2>1, <2>5
<1>2. CASE ~ HasKind(text, "notify")
  <2> DEFINE x == Notify("acm")
  <2>1. PICK cleaned : cleaned = removeLegacyACMNotify(text)
    OBVIOUS
  <2>2. cleaned \in Texts /\ \A y : Has(cleaned, y) <=> Has(text, y) /\ y # Legacy
    BY <2>1, LegacyRemoved
  <2>3. x \in Notifies /\ x \in Items /\ x # Legacy
    <3>1. x \in Notifies
      BY DEF Notifies
    <3> QED  BY <3>1, ItemKinds DEF Items
  <2> HIDE DEF x
  <2>4. edited = <<x>> \o cleaned
    BY <1>2, <2>1 DEF codexNotify, x
  <2> HIDE DEF edited
  <2>5. /\ edited \in Texts /\ Len(cleaned) \in Nat /\ DOMAIN cleaned = 1 .. Len(cleaned)
        /\ DOMAIN edited = 1 .. (Len(cleaned) + 1) /\ edited[1] = x
        /\ \A i \in DOMAIN cleaned : edited[i + 1] = cleaned[i]
    BY <2>2, <2>3, <2>4 DEF Texts
  <2>6. \A i \in DOMAIN edited : i = 1 \/ (i - 1 \in DOMAIN cleaned /\ edited[i] = cleaned[i - 1])
    BY <2>5
  <2>7. \A i \in DOMAIN cleaned : i + 1 \in DOMAIN edited
    BY <2>5
  <2>8. \A i \in DOMAIN cleaned : cleaned[i] \notin Notifies /\ cleaned[i] # Legacy
    <3> SUFFICES ASSUME NEW i \in DOMAIN cleaned PROVE cleaned[i] \notin Notifies /\ cleaned[i] # Legacy
      OBVIOUS
    <3>1. Has(cleaned, cleaned[i])
      BY DEF Has, ToSet
    <3>2. Has(text, cleaned[i]) /\ cleaned[i] # Legacy
      BY <2>2, <3>1
    <3>3. cleaned[i].kind # "notify"
      BY <1>2, <3>2 DEF Has, HasKind
    <3> QED  BY <3>2, <3>3, ItemKinds
  <2>9. AtMostOne(edited, Notifies)
    BY <2>6, <2>8 DEF AtMostOne
  <2>10. ~ Has(edited, Legacy)
    BY <2>3, <2>5, <2>6, <2>8 DEF Has, ToSet
  <2>11. Some(edited, Notifies)
    BY <2>3, <2>5 DEF Some
  <2>12. ASSUME NEW y \in Owned, Has(text, y) PROVE Has(edited, y)
    <3>1. Has(cleaned, y)
      BY <2>2, <2>12, ItemKinds
    <3>2. PICK i \in DOMAIN cleaned : cleaned[i] = y
      BY <3>1 DEF Has, ToSet
    <3>3. i + 1 \in DOMAIN edited /\ edited[i + 1] = y
      BY <2>5, <2>7, <3>2
    <3> QED  BY <3>3 DEF Has, ToSet
  <2> QED  BY <2>5, <2>9, <2>10, <2>11, <2>12 DEF NotifyForm, edited
<1> QED  BY <1>1, <1>2

-----------------------------------------------------------------------------
(* Instructions *)

LEMMA FirstFound ==
    ASSUME NEW text \in Texts, NEW x
    PROVE  /\ First(text, x) \in 0 .. Len(text)
           /\ First(text, x) = 0 <=> ~ Has(text, x)
           /\ First(text, x) > 0 => /\ text[First(text, x)] = x
                                    /\ \A j \in 1 .. (First(text, x) - 1) : text[j] # x
<1> DEFINE I == {i \in 1 .. Len(text) : text[i] = x}
<1>1. Len(text) \in Nat /\ DOMAIN text = 1 .. Len(text)
  BY DEF Texts
<1>2. First(text, x) = IF I # {} THEN Min(I) ELSE 0
  BY DEF First, SelectInSeq
<1>3. Has(text, x) <=> I # {}
  BY <1>1 DEF Has, ToSet
<1>4. ASSUME I # {}
      PROVE  Min(I) \in I /\ \A j \in I : Min(I) <= j
  <2>1. \E m \in I : \A j \in I : m <= j
    <3>1. I \subseteq Nat
      BY <1>1
    <3> HIDE DEF I
    <3> QED  BY <1>4, <3>1, LeastNumber
  <2> HIDE DEF I
  <2> QED  BY <2>1 DEF Min
<1>5. CASE I = {}
  BY <1>1, <1>2, <1>3, <1>5
<1>6. CASE I # {}
  <2>1. PICK m : m = Min(I)
    OBVIOUS
  <2>2. m \in 1 .. Len(text) /\ text[m] = x /\ \A j \in I : m <= j
    BY <1>4, <1>6, <2>1
  <2>3. \A j \in 1 .. (m - 1) : text[j] # x
    <3> SUFFICES ASSUME NEW j \in 1 .. (m - 1), text[j] = x PROVE FALSE
      OBVIOUS
    <3>1. j \in I /\ j < m
      BY <1>1, <2>2
    <3> HIDE DEF I
    <3> QED  BY <1>1, <2>2, <3>1
  <2>4. First(text, x) = m /\ m > 0
    BY <1>1, <1>2, <1>6, <2>1, <2>2
  <2> QED  BY <1>1, <1>3, <1>6, <2>2, <2>3, <2>4
<1> QED  BY <1>5, <1>6

\* edited is text with the items s..e replaced by acm's block.
Spliced(edited, text, s, e) ==
    /\ edited \in Texts
    /\ DOMAIN edited = 1 .. (Len(text) - e + s + 2)
    /\ \A i \in 1 .. (s - 1) : edited[i] = text[i]
    /\ edited[s] = Start /\ edited[s + 1] = Block("new") /\ edited[s + 2] = End
    /\ \A i \in (e + 1) .. Len(text) : edited[i - e + s + 2] = text[i]

LEMMA Joined ==
    ASSUME NEW a \in Texts, NEW b \in Texts
    PROVE  /\ a \o b \in Texts /\ Len(a) \in Nat /\ Len(b) \in Nat
           /\ Len(a \o b) = Len(a) + Len(b) /\ DOMAIN (a \o b) = 1 .. (Len(a) + Len(b))
           /\ \A i \in 1 .. Len(a) : (a \o b)[i] = a[i]
           /\ \A i \in 1 .. Len(b) : (a \o b)[Len(a) + i] = b[i]
<1>1. a \in Seq(Items) /\ b \in Seq(Items)
  BY DEF Texts
<1>2. a \o b \in Seq(Items) /\ Len(a) \in Nat /\ Len(b) \in Nat /\ Len(a \o b) = Len(a) + Len(b)
  BY <1>1
<1>3. \A i \in 1 .. Len(a) : (a \o b)[i] = a[i]
  BY <1>1
<1>4. \A i \in 1 .. Len(b) : (a \o b)[Len(a) + i] = b[i]
  BY <1>1
<1>5. DOMAIN (a \o b) = 1 .. (Len(a) + Len(b))
  BY <1>2
<1> QED  BY <1>2, <1>3, <1>4, <1>5 DEF Texts

LEMMA BlockItems ==
    /\ ManagedBlock \in Texts /\ Len(ManagedBlock) = 3
    /\ ManagedBlock[1] = Start /\ ManagedBlock[2] = Block("new") /\ ManagedBlock[3] = End
<1>1. Start \in Items /\ Block("new") \in Items /\ End \in Items
  BY DEF Items, Singles, Blocks
<1> QED  BY <1>1 DEF ManagedBlock, Texts

LEMMA SpliceMiddle ==
    ASSUME NEW text \in Texts, NEW s \in 1 .. Len(text), NEW e \in 1 .. Len(text), s < e
    PROVE  Spliced(SubSeq(text, 1, s - 1) \o ManagedBlock \o SubSeq(text, e + 1, Len(text)), text, s, e)
<1> DEFINE n == Len(text)
           a == SubSeq(text, 1, s - 1)
           b == SubSeq(text, e + 1, n)
<1>1. n \in Nat /\ s \in Nat /\ e \in Nat
  BY DEF Texts
<1>2. a \in Texts /\ Len(a) = s - 1 /\ \A i \in 1 .. (s - 1) : a[i] = text[i]
  BY <1>1 DEF Texts
<1>3. b \in Texts /\ Len(b) = n - e /\ \A i \in 1 .. (n - e) : b[i] = text[e + i]
  BY <1>1 DEF Texts
<1>4. /\ ManagedBlock \in Texts /\ Len(ManagedBlock) = 3
      /\ ManagedBlock[1] = Start /\ ManagedBlock[2] = Block("new") /\ ManagedBlock[3] = End
  BY BlockItems
<1> DEFINE c == a \o ManagedBlock
<1> HIDE DEF a, b
<1>5. /\ c \in Texts /\ Len(c) = s + 2 /\ \A i \in 1 .. (s - 1) : c[i] = text[i]
      /\ c[s] = Start /\ c[s + 1] = Block("new") /\ c[s + 2] = End
  <2>1. /\ c \in Texts /\ Len(c) = Len(a) + Len(ManagedBlock)
        /\ \A i \in 1 .. Len(a) : c[i] = a[i]
        /\ \A i \in 1 .. Len(ManagedBlock) : c[Len(a) + i] = ManagedBlock[i]
    BY <1>2, <1>4, Joined
  <2> HIDE DEF c
  <2>2. c \in Texts /\ Len(c) = s + 2
    BY <1>1, <1>2, <1>4, <2>1
  <2>3. \A i \in 1 .. (s - 1) : c[i] = a[i]
    BY <1>2, <2>1
  <2>4. \A i \in 1 .. 3 : c[s - 1 + i] = ManagedBlock[i]
    BY <1>2, <1>4, <2>1
  <2>5. c[s] = Start /\ c[s + 1] = Block("new") /\ c[s + 2] = End
    <3>1. s - 1 + 1 = s /\ s - 1 + 2 = s + 1 /\ s - 1 + 3 = s + 2
      BY <1>1
    <3> HIDE DEF c
    <3> QED  BY <1>4, <2>4, <3>1
  <2> QED  BY <1>2, <2>2, <2>3, <2>5
<1> DEFINE r == c \o b
<1> HIDE DEF c
<1>a. /\ r \in Texts /\ DOMAIN r = 1 .. (Len(c) + Len(b))
      /\ \A i \in 1 .. Len(c) : r[i] = c[i]
      /\ \A i \in 1 .. Len(b) : r[Len(c) + i] = b[i]
  BY <1>3, <1>5, Joined
<1> HIDE DEF r
<1>6. r \in Texts /\ DOMAIN r = 1 .. (n - e + s + 2)
  <2>1. (s + 2) + (n - e) = n - e + s + 2
    BY <1>1
  <2> QED  BY <1>3, <1>5, <1>a, <2>1
<1>7. \A i \in 1 .. (s + 2) : r[i] = c[i]
  BY <1>5, <1>a
<1>8. \A i \in 1 .. (n - e) : r[s + 2 + i] = b[i]
  BY <1>3, <1>5, <1>a
<1>9. ASSUME NEW i \in (e + 1) .. n PROVE r[i - e + s + 2] = text[i]
  <2>1. i - e \in 1 .. (n - e) /\ s + 2 + (i - e) = i - e + s + 2 /\ e + (i - e) = i
    BY <1>1
  <2> QED  BY <1>3, <1>8, <2>1
<1>10. r[s] = Start /\ r[s + 1] = Block("new") /\ r[s + 2] = End
  BY <1>1, <1>5, <1>7
<1>11. \A i \in 1 .. (s - 1) : r[i] = text[i]
  BY <1>1, <1>5, <1>7
<1> QED  BY <1>6, <1>9, <1>10, <1>11 DEF Spliced, r, c, a, b

LEMMA SpliceEnd ==
    ASSUME NEW text \in Texts
    PROVE  Spliced(text \o ManagedBlock, text, Len(text) + 1, Len(text))
<1> DEFINE n == Len(text)
           r == text \o ManagedBlock
<1>1. /\ ManagedBlock \in Texts /\ Len(ManagedBlock) = 3
      /\ ManagedBlock[1] = Start /\ ManagedBlock[2] = Block("new") /\ ManagedBlock[3] = End
  BY BlockItems
<1>2. n \in Nat
  BY DEF Texts
<1>a. /\ r \in Texts /\ DOMAIN r = 1 .. (Len(text) + Len(ManagedBlock))
      /\ \A i \in 1 .. Len(text) : r[i] = text[i]
      /\ \A i \in 1 .. Len(ManagedBlock) : r[Len(text) + i] = ManagedBlock[i]
  BY <1>1, Joined
<1> HIDE DEF r
<1>3. r \in Texts /\ DOMAIN r = 1 .. (n + 3)
  BY <1>1, <1>a
<1>4. \A i \in 1 .. n : r[i] = text[i]
  BY <1>a
<1>5. \A i \in 1 .. 3 : r[n + i] = ManagedBlock[i]
  <2>1. \A i \in 1 .. Len(ManagedBlock) : r[Len(text) + i] = ManagedBlock[i]
    BY <1>a
  <2>2. Len(ManagedBlock) = 3
    BY <1>1
  <2> HIDE DEF n
  <2>3. n = Len(text)
    BY DEF n
  <2> QED  BY <2>1, <2>2, <2>3
<1> HIDE DEF n
<1>6. r[n + 1] = Start /\ r[n + 1 + 1] = Block("new") /\ r[n + 1 + 2] = End
  <2>1. n + 1 + 1 = n + 2 /\ n + 1 + 2 = n + 3
    BY <1>2
  <2> QED  BY <1>1, <1>5, <2>1
<1>7. n - n + (n + 1) + 2 = n + 3 /\ (n + 1) - 1 = n /\ (n + 1) .. n = {}
  BY <1>2
<1>8. Spliced(r, text, n + 1, n)
  BY <1>3, <1>4, <1>6, <1>7 DEF Spliced, n
<1> QED  BY <1>8 DEF r, n

\* Where the items of a spliced text come from.
LEMMA SplicedItems ==
    ASSUME NEW text \in Texts, NEW s \in Nat, NEW e \in Nat, 1 <= s, s <= e + 1, e <= Len(text),
           NEW edited, Spliced(edited, text, s, e)
    PROVE  /\ {s, s + 1, s + 2} \subseteq DOMAIN edited
           /\ \A j \in DOMAIN edited :
                 \/ j \in 1 .. (s - 1) /\ edited[j] = text[j]
                 \/ j \in {s, s + 1, s + 2}
                 \/ /\ j > s + 2 /\ j - (s + 2) + e \in (e + 1) .. Len(text)
                    /\ edited[j] = text[j - (s + 2) + e]
<1> DEFINE n == Len(text)
<1>1. n \in Nat
  BY DEF Texts
<1>2. DOMAIN edited = 1 .. (n - e + s + 2)
  BY DEF Spliced
<1>3. \A i \in (e + 1) .. n : edited[i - e + s + 2] = text[i]
  BY DEF Spliced
<1>4. \A i \in 1 .. (s - 1) : edited[i] = text[i]
  BY DEF Spliced
<1> HIDE DEF n
<1>5. {s, s + 1, s + 2} \subseteq DOMAIN edited
  <2>1. e <= n
    BY DEF n
  <2> QED  BY <1>1, <1>2, <2>1
<1>6. ASSUME NEW j \in DOMAIN edited, j \notin 1 .. (s - 1), j \notin {s, s + 1, s + 2}
      PROVE  j > s + 2 /\ j - (s + 2) + e \in (e + 1) .. n /\ edited[j] = text[j - (s + 2) + e]
  <2>1. j > s + 2 /\ j - (s + 2) + e \in (e + 1) .. n
    BY <1>1, <1>2, <1>6
  <2>2. (j - (s + 2) + e) - e + s + 2 = j
    BY <1>1, <1>2
  <2> QED  BY <1>3, <2>1, <2>2
<1> QED  BY <1>4, <1>5, <1>6 DEF n

\* Putting acm's block in place of all marked text leaves one block, closed.
LEMMA SplicedForm ==
    ASSUME NEW text \in Texts, NEW s \in Nat, NEW e \in Nat, 1 <= s, s <= e + 1, e <= Len(text),
           NEW edited, Spliced(edited, text, s, e),
           \A i \in 1 .. (s - 1) : text[i] \notin Blocks /\ text[i] # End,
           \A i \in (e + 1) .. Len(text) : text[i] \notin Blocks /\ text[i] # End /\ text[i] # Start
    PROVE  DocForm(edited) /\ Some(edited, Blocks)
<1>1. /\ {s, s + 1, s + 2} \subseteq DOMAIN edited
      /\ \A j \in DOMAIN edited :
            \/ j \in 1 .. (s - 1) /\ edited[j] = text[j]
            \/ j \in {s, s + 1, s + 2}
            \/ /\ j > s + 2 /\ j - (s + 2) + e \in (e + 1) .. Len(text)
               /\ edited[j] = text[j - (s + 2) + e]
  BY SplicedItems
<1>2. edited[s] = Start /\ edited[s + 1] = Block("new") /\ edited[s + 2] = End
  BY DEF Spliced
<1>3. /\ Block("new") \in Blocks /\ Start \notin Blocks /\ End \notin Blocks /\ Start # End
      /\ Block("new") # Start /\ Block("new") # End
  <2>1. Block("new") \in Blocks
    BY DEF Blocks
  <2> QED  BY <2>1, ItemKinds
<1>4. ASSUME NEW j \in DOMAIN edited
      PROVE  /\ edited[j] \in Blocks => j = s + 1
             /\ edited[j] = End => j = s + 2
             /\ edited[j] = Start => j < s + 1
  <2>1. CASE j \in 1 .. (s - 1) /\ edited[j] = text[j]
    BY <2>1
  <2>2. CASE j \in {s, s + 1, s + 2}
    BY <1>2, <1>3, <2>2
  <2>3. CASE /\ j > s + 2 /\ j - (s + 2) + e \in (e + 1) .. Len(text)
             /\ edited[j] = text[j - (s + 2) + e]
    BY <2>3
  <2> QED  BY <1>1, <2>1, <2>2, <2>3
<1>5. AtMostOne(edited, Blocks) /\ AtMostOne(edited, {End})
  BY <1>4 DEF AtMostOne
<1>6. ASSUME NEW j \in DOMAIN edited, edited[j] = End
      PROVE  \E b \in DOMAIN edited :
                /\ edited[b] \in Blocks /\ b < j
                /\ \E i \in DOMAIN edited : edited[i] = Start
                /\ \A i \in DOMAIN edited : edited[i] = Start => i < b
  <2>1. j = s + 2 /\ s + 1 < s + 2
    BY <1>4, <1>6
  <2>2. s + 1 \in DOMAIN edited /\ s \in DOMAIN edited
    BY <1>1
  <2>3. edited[s + 1] \in Blocks /\ edited[s] = Start
    BY <1>2, <1>3
  <2> QED  BY <1>4, <2>1, <2>2, <2>3
<1> QED  BY <1>1, <1>2, <1>3, <1>5, <1>6 DEF DocForm, Some

\* What is outside the replaced items stays and is shielded.
LEMMA SplicedShields ==
    ASSUME NEW text \in Texts, NEW s \in Nat, NEW e \in Nat, 1 <= s, s <= e + 1, e <= Len(text),
           NEW edited, Spliced(edited, text, s, e),
           NEW i \in 1 .. Len(text), i < s \/ i > e,
           i < s => \A j \in 1 .. (i - 1) : text[j] = Start =>
                       \E k \in 1 .. (i - 1) : text[k] = End
    PROVE  Shielded(edited, text[i])
<1> DEFINE n == Len(text)
<1>1. n \in Nat /\ i \in Nat /\ i <= n
  BY DEF Texts
<1>2. /\ DOMAIN edited = 1 .. (n - e + s + 2)
      /\ \A j \in 1 .. (s - 1) : edited[j] = text[j]
      /\ edited[s + 2] = End
      /\ \A j \in (e + 1) .. n : edited[j - e + s + 2] = text[j]
  BY DEF Spliced
<1>3. e <= n
  OBVIOUS
<1> HIDE DEF n
<1>4. CASE i < s
  <2>1. i \in DOMAIN edited /\ edited[i] = text[i] /\ \A j \in 1 .. (i - 1) : j \in DOMAIN edited /\ edited[j] = text[j]
    BY <1>1, <1>2, <1>3, <1>4
  <2>2. \A j \in DOMAIN edited : j < i => j \in 1 .. (i - 1)
    BY <1>1, <1>2
  <2>3. \A j \in DOMAIN edited : edited[j] = Start /\ j < i =>
           \E k \in DOMAIN edited : edited[k] = End /\ k < i
    <3> SUFFICES ASSUME NEW j \in DOMAIN edited, edited[j] = Start, j < i
                 PROVE  \E k \in DOMAIN edited : edited[k] = End /\ k < i
      OBVIOUS
    <3>1. j \in 1 .. (i - 1) /\ text[j] = Start
      BY <2>1, <2>2
    <3>2. PICK k \in 1 .. (i - 1) : text[k] = End
      BY <1>4, <3>1
    <3>3. k < i
      BY <1>1
    <3> QED  BY <2>1, <3>2, <3>3
  <2> QED  BY <2>1, <2>3 DEF Shielded
<1>5. CASE i > e
  <2> DEFINE j == i - e + s + 2
  <2>1. j \in DOMAIN edited /\ edited[j] = text[i]
    <3>1. i \in (e + 1) .. n /\ j \in 1 .. (n - e + s + 2)
      BY <1>1, <1>5
    <3> QED  BY <1>2, <3>1
  <2>2. s + 2 \in DOMAIN edited /\ s + 2 < j
    BY <1>1, <1>2, <1>3, <1>5
  <2> HIDE DEF j
  <2> QED  BY <1>2, <2>1, <2>2 DEF Shielded
<1> QED  BY <1>4, <1>5

LEMMA DocEdit ==
    ASSUME NEW text \in Texts, DocForm(text)
    PROVE  LET edited == ensureInstructions(text)
           IN  /\ edited \in Texts
               /\ DocForm(edited)
               /\ Some(edited, Blocks)
               /\ \A x \in Owned : Shielded(text, x) => Shielded(edited, x)
<1>1. PICK s : s = First(text, Start)
  OBVIOUS
<1>2. PICK e : e = First(text, End)
  OBVIOUS
<1>3. PICK n : n = Len(text)
  OBVIOUS
<1>4. PICK edited : edited = ensureInstructions(text)
  OBVIOUS
<1>5. n \in Nat /\ DOMAIN text = 1 .. n /\ \A i \in 1 .. n : text[i] \in Items
  BY <1>3 DEF Texts
<1>6. /\ s \in 0 .. n /\ (s = 0 <=> ~ Has(text, Start))
      /\ s > 0 => text[s] = Start /\ \A j \in 1 .. (s - 1) : text[j] # Start
  BY <1>1, <1>3, FirstFound
<1>7. /\ e \in 0 .. n /\ (e = 0 <=> ~ Has(text, End))
      /\ e > 0 => text[e] = End /\ \A j \in 1 .. (e - 1) : text[j] # End
  BY <1>2, <1>3, FirstFound
<1>8. AtMostOne(text, Blocks) /\ AtMostOne(text, {End})
  BY DEF DocForm
<1>9. CASE s > 0 /\ e > s
  <2>1. edited = SubSeq(text, 1, s - 1) \o ManagedBlock \o SubSeq(text, e + 1, Len(text))
    BY <1>1, <1>2, <1>4, <1>9 DEF ensureInstructions
  <2>2. s \in 1 .. n /\ e \in 1 .. n /\ s \in Nat /\ e \in Nat /\ 1 <= s /\ s <= e + 1 /\ e <= n
    BY <1>5, <1>6, <1>7, <1>9
  <2>3. Spliced(edited, text, s, e)
    BY <1>3, <1>9, <2>1, <2>2, SpliceMiddle
  <2>4. PICK b \in DOMAIN text :
          /\ text[b] \in Blocks /\ b < e
          /\ \A i \in DOMAIN text : text[i] = Start => i < b
    BY <1>5, <1>7, <1>9, <2>2 DEF DocForm
  <2>5. s < b /\ b < e
    BY <1>5, <1>6, <1>9, <2>2, <2>4
  <2>6. \A i \in 1 .. n : i # b => text[i] \notin Blocks
    BY <1>5, <1>8, <2>4 DEF AtMostOne
  <2>7. \A i \in 1 .. n : i # e => text[i] # End
    BY <1>5, <1>7, <1>8, <1>9, <2>2 DEF AtMostOne
  <2>8. \A i \in 1 .. (s - 1) : text[i] \notin Blocks /\ text[i] # End
    <3> SUFFICES ASSUME NEW i \in 1 .. (s - 1) PROVE text[i] \notin Blocks /\ text[i] # End
      OBVIOUS
    <3>1. i \in 1 .. n /\ i # b /\ i # e
      BY <1>5, <2>2, <2>5
    <3> QED  BY <2>6, <2>7, <3>1
  <2>9. \A i \in (e + 1) .. Len(text) : text[i] \notin Blocks /\ text[i] # End /\ text[i] # Start
    <3> SUFFICES ASSUME NEW i \in (e + 1) .. n
                 PROVE  text[i] \notin Blocks /\ text[i] # End /\ text[i] # Start
      BY <1>3
    <3>1. i \in 1 .. n /\ i # b /\ i # e /\ ~ (i < b)
      BY <1>5, <2>2, <2>5
    <3> QED  BY <1>5, <2>4, <2>6, <2>7, <3>1
  <2>10. DocForm(edited) /\ Some(edited, Blocks)
    BY <1>3, <2>2, <2>3, <2>8, <2>9, SplicedForm
  <2>11. ASSUME NEW x \in Owned, Shielded(text, x) PROVE Shielded(edited, x)
    <3>1. PICK i \in DOMAIN text :
            /\ text[i] = x
            /\ \A j \in DOMAIN text : text[j] = Start /\ j < i =>
                  \E k \in DOMAIN text : text[k] = End /\ k < i
      BY <2>11 DEF Shielded
    <3>2. x # Start /\ x # End
      BY NotOwned
    <3>3. i \in 1 .. n /\ i # s /\ i # e
      BY <1>5, <1>6, <1>7, <1>9, <3>1, <3>2
    <3>4. i < s \/ i > e
      <4> SUFFICES ASSUME s < i, i < e PROVE FALSE
        BY <1>5, <2>2, <3>3
      <4>1. PICK k \in DOMAIN text : text[k] = End /\ k < i
        BY <1>5, <1>6, <1>9, <2>2, <3>1
      <4>2. k = e
        BY <1>5, <2>7, <4>1
      <4> QED  BY <1>5, <2>2, <3>3, <4>1, <4>2
    <3>5. i < s => \A j \in 1 .. (i - 1) : text[j] = Start =>
                       \E k \in 1 .. (i - 1) : text[k] = End
      <4> SUFFICES ASSUME i < s, NEW j \in 1 .. (i - 1), text[j] = Start PROVE FALSE
        OBVIOUS
      <4>1. j \in 1 .. (s - 1)
        BY <2>2, <3>3
      <4> QED  BY <1>6, <1>9, <4>1
    <3> QED  BY <1>3, <2>2, <2>3, <3>1, <3>3, <3>4, <3>5, SplicedShields
  <2>12. edited \in Texts
    BY <2>3 DEF Spliced
  <2> QED  BY <1>4, <2>10, <2>11, <2>12
<1>10. CASE ~ (s > 0 /\ e > s) /\ HasKind(text, "block")
  <2>1. edited = text
    BY <1>1, <1>2, <1>4, <1>10 DEF ensureInstructions
  <2>2. PICK i \in DOMAIN text : text[i].kind = "block"
    BY <1>10 DEF HasKind, ToSet
  <2>3. text[i] \in Blocks
    BY <1>5, <2>2, ItemKinds
  <2> QED  BY <1>4, <2>1, <2>3 DEF Some
<1>11. CASE ~ (s > 0 /\ e > s) /\ ~ HasKind(text, "block")
  <2>1. edited = text \o ManagedBlock
    BY <1>1, <1>2, <1>4, <1>11 DEF ensureInstructions
  <2>2. Spliced(edited, text, n + 1, n)
    BY <1>3, <2>1, SpliceEnd
  <2>3. \A i \in 1 .. n : text[i] \notin Blocks
    BY <1>5, <1>11, ItemKinds DEF HasKind, ToSet
  <2>4. \A i \in 1 .. n : text[i] # End
    BY <1>5, <2>3 DEF DocForm
  <2>5. (n + 1) - 1 = n /\ (n + 1) .. n = {} /\ n + 1 \in Nat /\ 1 <= n + 1
    BY <1>5
  <2>6. DocForm(edited) /\ Some(edited, Blocks)
    BY <1>3, <1>5, <2>2, <2>3, <2>4, <2>5, SplicedForm
  <2>7. ASSUME NEW x \in Owned, Shielded(text, x) PROVE Shielded(edited, x)
    <3>1. PICK i \in DOMAIN text :
            /\ text[i] = x
            /\ \A j \in DOMAIN text : text[j] = Start /\ j < i =>
                  \E k \in DOMAIN text : text[k] = End /\ k < i
      BY <2>7 DEF Shielded
    <3>2. i \in 1 .. n /\ i < n + 1
      BY <1>5
    <3>3. \A j \in 1 .. (i - 1) : text[j] = Start => \E k \in 1 .. (i - 1) : text[k] = End
      <4> SUFFICES ASSUME NEW j \in 1 .. (i - 1), text[j] = Start PROVE FALSE
        OBVIOUS
      <4>1. j \in DOMAIN text /\ j < i
        BY <1>5, <3>2
      <4> QED  BY <1>5, <2>4, <3>1, <4>1
    <3> QED  BY <1>3, <1>5, <2>2, <2>5, <3>1, <3>2, <3>3, SplicedShields
  <2>8. edited \in Texts
    BY <2>2 DEF Spliced
  <2> QED  BY <1>4, <2>6, <2>7, <2>8
<1> QED  BY <1>9, <1>10, <1>11

-----------------------------------------------------------------------------
(* Files and edits *)

LEMMA HostFiles ==
    /\ Files("claude-code") = <<"settings.json", "CLAUDE.md">>
    /\ Files("codex") = <<"hooks.json", "config.toml", "AGENTS.md">>
    /\ Files("opencode") = <<"server.ts", "opencode/AGENTS.md">>
    /\ Paths = Hooked \cup {"config.toml", "server.ts"} \cup Docs
    /\ \A agent \in Hosts : /\ Len(Files(agent)) \in Nat \ {0} /\ DOMAIN Files(agent) = 1 .. Len(Files(agent))
                            /\ \A k \in 1 .. Len(Files(agent)) : Files(agent)[k] \in Paths
<1>1. Files("claude-code") = <<"settings.json", "CLAUDE.md">>
  BY DEF Files
<1>2. Files("codex") = <<"hooks.json", "config.toml", "AGENTS.md">>
  BY DEF Files
<1>3. Files("opencode") = <<"server.ts", "opencode/AGENTS.md">>
  BY DEF Files
<1>4. /\ ToSet(Files("claude-code")) = {"settings.json", "CLAUDE.md"}
      /\ ToSet(Files("codex")) = {"hooks.json", "config.toml", "AGENTS.md"}
      /\ ToSet(Files("opencode")) = {"server.ts", "opencode/AGENTS.md"}
  BY <1>1, <1>2, <1>3 DEF ToSet
<1>5. \A path : path \in Paths <=> \E agent \in Hosts : path \in ToSet(Files(agent))
  BY DEF Paths
<1>6. Paths = Hooked \cup {"config.toml", "server.ts"} \cup Docs
  BY <1>4, <1>5 DEF Hosts, Hooked, Docs
<1>7. \A agent \in Hosts : Len(Files(agent)) \in Nat \ {0} /\ DOMAIN Files(agent) = 1 .. Len(Files(agent))
  BY <1>1, <1>2, <1>3 DEF Hosts
<1>8. \A agent \in Hosts : \A k \in 1 .. Len(Files(agent)) : Files(agent)[k] \in Paths
  BY <1>5, <1>7 DEF ToSet
<1> QED  BY <1>1, <1>2, <1>3, <1>6, <1>7, <1>8

\* Every edit settles a file of its form and keeps what is the user's.
LEMMA EditSettles ==
    ASSUME NEW path \in Paths, NEW text \in Texts, Form(path, text)
    PROVE  LET edited == Edited(path, text)
           IN  /\ edited \in Texts
               /\ Form(path, edited)
               /\ Complete(path, edited)
               /\ path # "server.ts" => \A x \in Owned : Keeps(path, text, x) => Keeps(path, edited, x)
<1>1. PICK edited : edited = Edited(path, text)
  OBVIOUS
<1>2. path \in Hooked \cup {"config.toml", "server.ts"} \cup Docs
  BY HostFiles
<1>3. CASE path \in Hooked
  <2>1. PICK t : t = IF path = "settings.json" THEN ensureAllow(text) ELSE text
    OBVIOUS
  <2>2. edited = ensureHooks(t)
    BY <1>1, <1>3, <2>1 DEF Edited, Hooked
  <2>3. HookForm(text)
    BY <1>3 DEF Form
  <2>4. /\ t \in Texts /\ HookForm(t) /\ (path = "settings.json" => Some(t, {Allow}))
        /\ \A items : Some(text, items) => Some(t, items)
    BY <2>1, <2>3, AllowEntry
  <2>5. /\ edited \in Texts /\ HookForm(edited) /\ (path = "settings.json" => Some(edited, {Allow}))
        /\ \A event \in HookEvents : Some(edited, Covering(event))
        /\ \A items : Some(text, items) => Some(edited, items)
    BY <2>2, <2>4, HooksEdit
  <2>6. path # "config.toml" /\ path # "server.ts" /\ path \notin Docs
    BY <1>3 DEF Hooked, Docs
  <2> QED  BY <1>1, <2>5, <2>6, HasSome DEF Form, Complete, Keeps
<1>4. CASE path = "config.toml"
  <2>1. edited = codexNotify(text)
    BY <1>1, <1>4 DEF Edited
  <2>2. /\ edited \in Texts /\ NotifyForm(edited) /\ Some(edited, Notifies)
        /\ \A x \in Owned : Has(text, x) => Has(edited, x)
    BY <1>4, <2>1, NotifyEdit DEF Form
  <2>3. path \notin Hooked /\ path # "server.ts" /\ path # "settings.json" /\ path \notin Docs
    BY <1>4 DEF Hooked, Docs
  <2> QED  BY <1>1, <2>2, <2>3 DEF Form, Complete, Keeps
<1>5. CASE path = "server.ts"
  <2>1. edited = <<Plugin("new")>>
    BY <1>1, <1>5 DEF Edited, opencodePlugin
  <2>2. Plugin("new") \in Items
    BY DEF Items, Singles
  <2>3. edited \in Texts
    BY <2>1, <2>2 DEF Texts
  <2>4. path \notin Hooked /\ path # "config.toml" /\ path # "settings.json" /\ path \notin Docs
    BY <1>5 DEF Hooked, Docs
  <2> QED  BY <1>1, <1>5, <2>1, <2>3, <2>4 DEF Form, Complete
<1>6. CASE path \in Docs
  <2>1. edited = ensureInstructions(text)
    BY <1>1, <1>6 DEF Edited, Docs
  <2>2. DocForm(text)
    BY <1>6 DEF Form
  <2>3. /\ edited \in Texts /\ DocForm(edited) /\ Some(edited, Blocks)
        /\ \A x \in Owned : Shielded(text, x) => Shielded(edited, x)
    BY <2>1, <2>2, DocEdit
  <2>4. \A x : Shielded(edited, x) => Has(edited, x)
    BY DEF Shielded, Has, ToSet
  <2>5. path \notin Hooked /\ path # "config.toml" /\ path # "settings.json" /\ path # "server.ts"
    BY <1>6 DEF Hooked, Docs
  <2> QED  BY <1>1, <1>6, <2>3, <2>4, <2>5 DEF Form, Complete, Keeps
<1> QED  BY <1>2, <1>3, <1>4, <1>5, <1>6

\* Two files lead to one target only if both are instructions.
LEMMA SharedTargets ==
    ASSUME LinksOK
    PROVE  /\ \A path \in Paths : link[path] \in Targets
           /\ \A p, q \in Paths : link[p] = link[q] => p = q \/ (p \in Docs /\ q \in Docs)
<1>1. PICK shared \in BOOLEAN :
        link = [q \in Paths |-> IF shared /\ q \in {"CLAUDE.md", "AGENTS.md"} THEN Dotfile ELSE q]
  BY DEF LinksOK
<1>2. Dotfile \notin Paths
  BY HostFiles DEF Dotfile, Hooked, Docs
<1>3. \A path \in Paths : link[path] = path \/ (link[path] = Dotfile /\ path \in Docs)
  BY <1>1 DEF Docs
<1>4. \A path \in Paths : link[path] \in Targets
  BY <1>3 DEF Targets
<1> QED  BY <1>2, <1>3, <1>4

LEMMA SharedForm ==
    ASSUME LinksOK, NEW p \in Paths, NEW q \in Paths, link[p] = link[q], NEW text
    PROVE  /\ Form(p, text) <=> Form(q, text)
           /\ Complete(p, text) <=> Complete(q, text)
           /\ \A x : Keeps(p, text, x) <=> Keeps(q, text, x)
<1>1. p = q \/ (p \in Docs /\ q \in Docs)
  BY SharedTargets
<1>2. \A path \in Docs : path \notin Hooked /\ path # "config.toml" /\ path # "settings.json" /\ path # "server.ts"
  BY DEF Hooked, Docs
<1> QED  BY <1>1, <1>2 DEF Form, Complete, Keeps

-----------------------------------------------------------------------------
(* The files acm finds *)

LEMMA Tuples ==
    ASSUME NEW a \in Items, NEW b \in Items, NEW c \in Items, NEW d \in Items, NEW e \in Items
    PROVE  <<a>> \in Texts /\ <<a, b>> \in Texts /\ <<a, b, c>> \in Texts /\ <<a, b, c, d, e>> \in Texts
<1>1. \A i \in 1 .. 5 : <<a, b, c, d, e>>[i] \in Items
  OBVIOUS
<1>2. <<a, b, c, d, e>> \in [1 .. 5 -> Items]
  BY <1>1
<1>3. <<a, b, c, d, e>> \in Texts
  BY <1>2 DEF Texts
<1> QED  BY <1>3 DEF Texts

LEMMA FoundHooks ==
    ASSUME NEW path \in Hooked, NEW text \in Found(path)
    PROVE  text \in Texts /\ HookForm(text)
<1>1. text \in {<<Own(1)>>, <<Own(1), Hook("Stop")>>, <<Wrapped("Stop")>>, <<Own(1), Broken>>}
  BY DEF Found, Hooked
<1>2. Own(1) \in Owned /\ Hook("Stop") \in Covering("Stop") /\ Wrapped("Stop") \in Covering("Stop")
      /\ "Stop" \in HookEvents
  BY DEF Owned, Covering, HookEvents
<1>3. Own(1) \in Items /\ Hook("Stop") \in Items /\ Wrapped("Stop") \in Items /\ Broken \in Items
  BY <1>2 DEF Items, Hooks, Singles
<1>4. PICK a, b, c, d : a = Own(1) /\ b = Hook("Stop") /\ c = Wrapped("Stop") /\ d = Broken
  OBVIOUS
<1>5. text \in Texts
  <2>1. {<<Own(1)>>, <<Own(1), Hook("Stop")>>, <<Wrapped("Stop")>>, <<Own(1), Broken>>} \subseteq Texts
    BY <1>3, Tuples
  <2> QED  BY <1>1, <2>1
<1>6. a # Allow /\ b # Allow /\ c # Allow /\ d # Allow
      /\ \A event \in HookEvents : a \notin Covering(event) /\ d \notin Covering(event)
  BY <1>2, <1>4, ItemKinds
<1>7. text \in {<<a>>, <<a, b>>, <<c>>, <<a, d>>}
  BY <1>1, <1>4
<1>8. AtMostOne(text, {Allow})
  BY <1>6, <1>7 DEF AtMostOne
<1>9. ASSUME NEW event \in HookEvents PROVE AtMostOne(text, Covering(event))
  BY <1>6, <1>7 DEF AtMostOne
<1> QED  BY <1>5, <1>8, <1>9 DEF HookForm

LEMMA FoundNotify ==
    ASSUME NEW text \in Found("config.toml")
    PROVE  text \in Texts /\ NotifyForm(text)
<1>1. text \in {<<Own(1)>>, <<Notify("user"), Own(1)>>, <<Notify("acm"), Own(1)>>,
                 <<Own(1), Legacy, Own(2)>>, <<Own(1), Broken>>}
  BY DEF Found
<1>2. Own(1) \in Owned /\ Own(2) \in Owned /\ Notify("user") \in Notifies /\ Notify("acm") \in Notifies
  BY DEF Owned, Notifies
<1>3. /\ Own(1) \in Items /\ Own(2) \in Items /\ Notify("user") \in Items /\ Notify("acm") \in Items
      /\ Legacy \in Items /\ Broken \in Items
  BY <1>2 DEF Items, Singles
<1>4. PICK a, b, u, o, l, d : /\ a = Own(1) /\ b = Own(2) /\ u = Notify("user") /\ o = Notify("acm")
                              /\ l = Legacy /\ d = Broken
  OBVIOUS
<1>5. text \in Texts
  <2>1. <<Own(1)>> \in Texts /\ <<Notify("user"), Own(1)>> \in Texts /\ <<Notify("acm"), Own(1)>> \in Texts
    BY <1>3, Tuples
  <2>2. <<Own(1), Legacy, Own(2)>> \in Texts /\ <<Own(1), Broken>> \in Texts
    BY <1>3, Tuples
  <2> QED  BY <1>1, <2>1, <2>2
<1>6. /\ a \notin Notifies /\ b \notin Notifies /\ l \notin Notifies /\ d \notin Notifies
      /\ o # a /\ o # b /\ o # l /\ l # a /\ l # u /\ l # d
  BY <1>2, <1>4, ItemKinds
<1>7. text \in {<<a>>, <<u, a>>, <<o, a>>, <<a, l, b>>, <<a, d>>}
  BY <1>1, <1>4
<1>8. AtMostOne(text, Notifies)
  BY <1>6, <1>7 DEF AtMostOne
<1>9. Has(text, l) => ~ Has(text, o)
  <2>1. Has(text, l) => text = <<a, l, b>>
    BY <1>6, <1>7 DEF Has, ToSet
  <2>2. ~ Has(<<a, l, b>>, o)
    BY <1>6 DEF Has, ToSet
  <2> QED  BY <2>1, <2>2
<1> QED  BY <1>4, <1>5, <1>8, <1>9 DEF NotifyForm

LEMMA FoundDoc ==
    ASSUME NEW path \in Docs, NEW text \in Found(path)
    PROVE  /\ text \in Texts /\ DocForm(text)
           /\ Has(text, Own(1)) => Shielded(text, Own(1))
           /\ Has(text, Own(2)) => Shielded(text, Own(2)) \/ Unclosed(text)
<1>1. text \in {<<Own(1)>>, <<Own(1), Start, Block("old"), End, Own(2)>>,
                 <<Own(1), Block("old")>>, <<Own(1), Start, Own(2)>>}
  BY DEF Found, Docs
<1>2. Own(1) \in Owned /\ Own(2) \in Owned /\ Block("old") \in Blocks /\ Own(1) # Own(2)
  BY DEF Owned, Blocks, Own, Item
<1>3. /\ Own(1) \in Items /\ Own(2) \in Items /\ Block("old") \in Items
      /\ Start \in Items /\ End \in Items
  BY <1>2 DEF Items, Singles
<1>4. PICK a, b, o, s, e : a = Own(1) /\ b = Own(2) /\ o = Block("old") /\ s = Start /\ e = End
  OBVIOUS
<1>5. text \in Texts
  <2>1. <<Own(1)>> \in Texts /\ <<Own(1), Start, Block("old"), End, Own(2)>> \in Texts
    BY <1>3, Tuples
  <2>2. <<Own(1), Block("old")>> \in Texts /\ <<Own(1), Start, Own(2)>> \in Texts
    BY <1>3, Tuples
  <2> QED  BY <1>1, <2>1, <2>2
<1>6. /\ a \notin Blocks /\ b \notin Blocks /\ s \notin Blocks /\ e \notin Blocks /\ o \in Blocks
      /\ a # b /\ a # s /\ a # e /\ b # s /\ b # e /\ o # s /\ o # e /\ s # e
  BY <1>2, <1>4, ItemKinds
<1>7. CASE text = <<a>>
  <2>1. DocForm(text)
    BY <1>4, <1>6, <1>7 DEF DocForm, AtMostOne
  <2>2. Shielded(text, a)
    BY <1>7 DEF Shielded
  <2>3. ~ Has(text, b)
    BY <1>6, <1>7 DEF Has, ToSet
  <2> QED  BY <1>4, <1>5, <2>1, <2>2, <2>3
<1>8. CASE text = <<a, s, o, e, b>>
  <2>1. DOMAIN text = 1 .. 5 /\ text[1] = a /\ text[2] = s /\ text[3] = o /\ text[4] = e /\ text[5] = b
    BY <1>8
  <2>2. \A i \in 1 .. 5 : /\ text[i] \in Blocks => i = 3
                          /\ text[i] = e => i = 4
                          /\ text[i] = s => i = 2
    BY <1>6, <2>1
  <2>3. AtMostOne(text, Blocks) /\ AtMostOne(text, {End})
    BY <1>4, <2>1, <2>2 DEF AtMostOne
  <2>4. text[3] \in Blocks /\ text[2] = Start /\ 3 \in 1 .. 5 /\ 2 \in 1 .. 5 /\ 1 \in 1 .. 5 /\ 4 \in 1 .. 5 /\ 5 \in 1 .. 5
    BY <1>4, <1>6, <2>1
  <2>5. \A i \in 1 .. 5 : (text[i] = End => i = 4) /\ (text[i] = Start => i = 2)
    BY <1>4, <2>2
  <2>6. DocForm(text)
    BY <2>1, <2>3, <2>4, <2>5 DEF DocForm
  <2>7. Shielded(text, a)
    BY <2>1, <2>4, <2>5 DEF Shielded
  <2>8. Shielded(text, b)
    BY <1>4, <2>1, <2>4 DEF Shielded
  <2> QED  BY <1>4, <1>5, <2>6, <2>7, <2>8
<1>9. CASE text = <<a, o>>
  <2>1. DocForm(text)
    BY <1>4, <1>6, <1>9 DEF DocForm, AtMostOne
  <2>2. Shielded(text, a)
    BY <1>4, <1>6, <1>9 DEF Shielded
  <2>3. ~ Has(text, b)
    BY <1>2, <1>4, <1>6, <1>9, ItemKinds DEF Has, ToSet
  <2> QED  BY <1>4, <1>5, <2>1, <2>2, <2>3
<1>10. CASE text = <<a, s, b>>
  <2>1. DocForm(text)
    BY <1>4, <1>6, <1>10 DEF DocForm, AtMostOne
  <2>2. Shielded(text, a)
    BY <1>4, <1>6, <1>10 DEF Shielded
  <2>3. Has(text, s) /\ ~ Has(text, e)
    BY <1>6, <1>10 DEF Has, ToSet
  <2> QED  BY <1>4, <1>5, <2>1, <2>2, <2>3 DEF Unclosed
<1> QED  BY <1>1, <1>4, <1>7, <1>8, <1>9, <1>10

LEMMA FoundFile ==
    ASSUME NEW path \in Paths, NEW text \in Found(path)
    PROVE  /\ text \in Texts
           /\ Form(path, text)
           /\ \A x \in {Own(1), Own(2)} : Has(text, x) =>
                 /\ path # "server.ts"
                 /\ Keeps(path, text, x) \/ (x = Own(2) /\ Unclosed(text))
<1>1. path \in Hooked \cup {"config.toml", "server.ts"} \cup Docs
  BY HostFiles
<1>2. CASE path \in Hooked
  <2>1. path # "config.toml" /\ path # "server.ts" /\ path \notin Docs
    BY <1>2 DEF Hooked, Docs
  <2> QED  BY <1>2, <2>1, FoundHooks DEF Form, Keeps
<1>3. CASE path = "config.toml"
  <2>1. path \notin Hooked /\ path # "server.ts" /\ path \notin Docs
    BY <1>3 DEF Hooked, Docs
  <2> QED  BY <1>3, <2>1, FoundNotify DEF Form, Keeps
<1>4. CASE path = "server.ts"
  <2>1. path \notin Hooked /\ path # "config.toml" /\ path \notin Docs
    BY <1>4 DEF Hooked, Docs
  <2>2. text \in {<<Plugin("old")>>, <<Plugin("new")>>}
    BY <1>4 DEF Found
  <2>3. Plugin("old") \in Items /\ Plugin("new") \in Items
    BY DEF Items, Singles
  <2>4. text \in Texts
    BY <2>2, <2>3, Tuples
  <2>5. Plugin("old").kind = "plugin" /\ Plugin("new").kind = "plugin"
    BY DEF Plugin, Item
  <2>6. Own(1).kind = "own" /\ Own(2).kind = "own"
    BY DEF Own, Item
  <2>7. \A x \in {Own(1), Own(2)} : x # Plugin("old") /\ x # Plugin("new")
    BY <2>5, <2>6
  <2>8. ASSUME NEW x \in {Own(1), Own(2)} PROVE ~ Has(text, x)
    <3>1. PICK a : a = text[1]
      OBVIOUS
    <3>2. text = <<a>> /\ a # x
      BY <2>2, <2>7, <3>1
    <3> QED  BY <3>2 DEF Has, ToSet
  <2> QED  BY <2>1, <2>4, <2>8 DEF Form
<1>5. CASE path \in Docs
  <2>1. path \notin Hooked /\ path # "config.toml" /\ path # "server.ts"
    BY <1>5 DEF Hooked, Docs
  <2>2. \A x \in {Own(1), Own(2)} : Has(text, x) => Shielded(text, x) \/ (x = Own(2) /\ Unclosed(text))
    BY <1>5, FoundDoc
  <2> QED  BY <1>5, <2>1, <2>2, FoundDoc DEF Form, Keeps
<1> QED  BY <1>1, <1>2, <1>3, <1>4, <1>5

LEMMA EmptyFile ==
    /\ <<>> \in Texts
    /\ \A path : Form(path, <<>>)
    /\ \A x : ~ Has(<<>>, x)
<1>1. <<>> \in Texts /\ DOMAIN <<>> = {}
  BY DEF Texts
<1>2. PICK empty : empty = <<>>
  OBVIOUS
<1>3. DOMAIN empty = {}
  BY <1>2
<1>4. \A x : ~ Has(empty, x)
  BY <1>3 DEF Has, ToSet
<1>5. HookForm(empty) /\ NotifyForm(empty) /\ DocForm(empty)
  BY <1>3, <1>4 DEF HookForm, NotifyForm, DocForm, AtMostOne
<1> QED  BY <1>1, <1>2, <1>4, <1>5 DEF Form

LEMMA IdleRun == NoInstall \in RunRecord /\ RunOK(NoInstall)
<1>1. PICK empty : empty = <<>>
  OBVIOUS
<1>2. NoInstall = [at |-> "idle", agent |-> "codex", next |-> 1, text |-> empty]
  BY <1>1 DEF NoInstall
<1>3. empty \in Texts
  BY <1>1, EmptyFile
<1>4. NoInstall \in RunRecord
  BY <1>2, <1>3 DEF RunRecord, Hosts
<1>5. NoInstall.at = "idle"
  BY <1>2
<1> QED  BY <1>4, <1>5 DEF RunOK, Done, Busy

LEMMA RunStart ==
    ASSUME NEW agent \in Hosts
    PROVE  LET run == [NoInstall EXCEPT !.at = "reading", !.agent = agent]
           IN  run \in RunRecord /\ RunOK(run)
<1>1. PICK run : run = [NoInstall EXCEPT !.at = "reading", !.agent = agent]
  OBVIOUS
<1>2. run \in RunRecord
  BY <1>1, IdleRun DEF RunRecord
<1>3. run.at = "reading" /\ run.agent = agent /\ run.next = 1
  BY <1>1 DEF NoInstall
<1>4. Done(run) = {}
  BY <1>3 DEF Done, Busy
<1>5. 1 \in 1 .. Len(Files(agent))
  BY HostFiles
<1>6. RunOK(run)
  BY <1>3, <1>4, <1>5 DEF RunOK, Busy
<1> QED  BY <1>1, <1>2, <1>6

-----------------------------------------------------------------------------
(* The invariant *)

LEMMA InvInit == InstallInit => IInv
<1> SUFFICES ASSUME InstallInit PROVE IInv
  OBVIOUS
<1>1. PICK path \in Paths, shared \in BOOLEAN : \E text \in Found(path) :
        /\ link = [q \in Paths |-> IF shared /\ q \in {"CLAUDE.md", "AGENTS.md"} THEN Dotfile ELSE q]
        /\ config = [t \in Targets |-> IF t = link[path] THEN text ELSE <<>>]
  BY DEF InstallInit
<1>2. PICK text \in Found(path) :
        /\ link = [q \in Paths |-> IF shared /\ q \in {"CLAUDE.md", "AGENTS.md"} THEN Dotfile ELSE q]
        /\ config = [t \in Targets |-> IF t = link[path] THEN text ELSE <<>>]
  BY <1>1
<1>3. /\ installer = [p \in Installers |-> NoInstall]
      /\ written = {w \in Targets \X {Own(1), Own(2)} : Has(config[w[1]], w[2])}
      /\ exposed = {w \in written : w[2] = Own(2) /\ Unclosed(config[w[1]])}
  BY DEF InstallInit
<1>4. LinksOK
  BY <1>2 DEF LinksOK
<1>5. \A q \in Paths : link[q] \in Targets
  BY <1>4, SharedTargets
<1>6. config \in [Targets -> Texts]
  BY <1>2, FoundFile, EmptyFile
<1>7. installer \in [Installers -> RunRecord]
  BY <1>3, IdleRun
<1>8. written \subseteq Targets \X Owned
  BY <1>3 DEF Owned
<1>9. ASSUME NEW w \in written
      PROVE  w[1] = link[path] /\ w[2] \in {Own(1), Own(2)} /\ Has(text, w[2])
  <2>1. w \in Targets \X {Own(1), Own(2)} /\ Has(config[w[1]], w[2])
    BY <1>3
  <2>2. w[1] \in Targets /\ w[2] \in {Own(1), Own(2)}
    BY <2>1
  <2>3. config[w[1]] # <<>>
    BY <2>1, EmptyFile
  <2> QED  BY <1>2, <2>1, <2>2, <2>3
<1>10. \A w \in written : path # "server.ts" /\ link[path] = w[1]
  BY <1>9, FoundFile
<1>11. IsFiniteSet(written)
  <2>1. PICK a, b : a = <<link[path], Own(1)>> /\ b = <<link[path], Own(2)>>
    OBVIOUS
  <2>2. written \subseteq {a} \cup {b}
    BY <1>8, <1>9, <2>1
  <2>3. IsFiniteSet({a})
    BY FS_Singleton
  <2>4. IsFiniteSet({a} \cup {b})
    BY <2>3, FS_AddElement
  <2> QED  BY <2>2, <2>4, FS_Subset
<1>12. ASSUME NEW q \in Paths PROVE Form(q, Config(q))
  <2>1. CASE link[q] = link[path]
    BY <1>2, <1>4, <1>5, <2>1, SharedForm, FoundFile DEF Config
  <2>2. CASE link[q] # link[path]
    BY <1>2, <1>5, <2>2, EmptyFile DEF Config
  <2> QED  BY <2>1, <2>2
<1>13. ASSUME NEW q \in Paths, NEW w \in written \ exposed, w[1] = link[q]
       PROVE  Keeps(q, Config(q), w[2])
  <2>1. link[q] = link[path] /\ Config(q) = text
    BY <1>2, <1>5, <1>9, <1>13 DEF Config
  <2>2. ~ (w[2] = Own(2) /\ Unclosed(text))
    BY <1>3, <1>13, <2>1 DEF Config
  <2>3. Keeps(path, text, w[2])
    BY <1>9, <2>2, FoundFile
  <2> QED  BY <1>4, <2>1, <2>3, SharedForm
<1>14. \A p \in Installers : RunOK(installer[p])
  BY <1>3, IdleRun
<1> QED  BY <1>4, <1>6, <1>7, <1>8, <1>10, <1>11, <1>12, <1>13, <1>14 DEF IInv, FilesOK

\* A file is replaced by a text of its form that keeps what is the user's.
LEMMA FileReplaced ==
    ASSUME IInv, link' = link,
           NEW path \in Paths, NEW text \in Texts, config' = [config EXCEPT ![link[path]] = text],
           Form(path, text),
           Complete(path, Config(path)) => Complete(path, text),
           \A w \in written' \ exposed' :
              IF w[1] = link[path] THEN Keeps(path, text, w[2]) ELSE w \in written \ exposed
    PROVE  /\ config' \in [Targets -> Texts]
           /\ FilesOK'
           /\ \A q \in Paths : Complete(q, Config(q)) => Complete(q, Config(q)')
           /\ Config(path)' = text
<1>1. LinksOK /\ config \in [Targets -> Texts] /\ FilesOK
  BY DEF IInv
<1>2. \A q \in Paths : link[q] \in Targets
  BY <1>1, SharedTargets
<1>3. config' \in [Targets -> Texts]
  BY <1>1, <1>2
<1>4. \A q \in Paths : Config(q)' = IF link[q] = link[path] THEN text ELSE Config(q)
  BY <1>1, <1>2 DEF Config
<1>5. ASSUME NEW q \in Paths
      PROVE  Form(q, Config(q)') /\ (Complete(q, Config(q)) => Complete(q, Config(q)'))
  <2>1. CASE link[q] = link[path]
    <3>1. Config(q)' = text /\ Config(q) = Config(path)
      BY <1>4, <2>1 DEF Config
    <3>2. /\ Form(q, text) <=> Form(path, text)
          /\ Complete(q, text) <=> Complete(path, text)
      BY <1>1, <2>1, SharedForm
    <3>3. Complete(q, Config(path)) <=> Complete(path, Config(path))
      BY <1>1, <2>1, SharedForm
    <3> QED  BY <3>1, <3>2, <3>3
  <2>2. CASE link[q] # link[path]
    BY <1>1, <1>4, <2>2 DEF FilesOK
  <2> QED  BY <2>1, <2>2
<1>6. ASSUME NEW q \in Paths, NEW w \in written' \ exposed', w[1] = link[q]
      PROVE  Keeps(q, Config(q)', w[2])
  <2>1. CASE link[q] = link[path]
    <3>1. Keeps(path, text, w[2])
      BY <1>6, <2>1
    <3>2. Keeps(q, text, w[2]) <=> Keeps(path, text, w[2])
      BY <1>1, <2>1, SharedForm
    <3> QED  BY <1>4, <2>1, <3>1, <3>2
  <2>2. CASE link[q] # link[path]
    BY <1>1, <1>4, <1>6, <2>2 DEF FilesOK
  <2> QED  BY <2>1, <2>2
<1>7. FilesOK'
  <2>1. \A q \in Paths : Form(q, Config(q)')
    BY <1>5
  <2>2. \A q \in Paths : \A w \in written' \ exposed' : w[1] = link'[q] => Keeps(q, Config(q)', w[2])
    BY <1>6
  <2> QED  BY <2>1, <2>2 DEF FilesOK
<1> QED  BY <1>3, <1>4, <1>5, <1>7

\* A run that takes no step is in order as long as complete files stay so.
LEMMA RunStays ==
    ASSUME NEW run \in RunRecord, RunOK(run), link' = link,
           \A q \in Paths : Complete(q, Config(q)) => Complete(q, Config(q)'),
           run.at = "renaming" =>
              \A w \in written' \ exposed' : w[1] = link[FileOf(run)] => w \in written \ exposed
    PROVE  RunOK(run)'
<1>1. run.agent \in Hosts
  BY DEF RunRecord
<1>2. Done(run) \subseteq Paths
  <2>1. CASE run.at \in Busy
    <3>1. run.next \in 1 .. Len(Files(run.agent))
      BY <2>1 DEF RunOK
    <3>2. \A k \in 1 .. (run.next - 1) : k \in 1 .. Len(Files(run.agent))
      BY <1>1, <3>1, HostFiles
    <3>3. Done(run) = {Files(run.agent)[k] : k \in 1 .. (run.next - 1)}
      BY <2>1 DEF Done, Busy
    <3> QED  BY <1>1, <3>2, <3>3, HostFiles
  <2>2. CASE run.at = "ended"
    <3>1. Done(run) = ToSet(Files(run.agent))
      BY <2>2 DEF Done, Busy
    <3> QED  BY <1>1, <3>1, HostFiles DEF ToSet
  <2>3. CASE run.at \notin Busy /\ run.at # "ended"
    BY <2>3 DEF Done
  <2> QED  BY <2>1, <2>2, <2>3
<1>3. \A q \in Done(run) : Complete(q, Config(q)')
  BY <1>2 DEF RunOK
<1>4. run.at = "renaming" =>
        \A w \in written' \ exposed' : w[1] = link'[FileOf(run)] => Keeps(FileOf(run), run.text, w[2])
  BY DEF RunOK
<1>5. Done(run)' = Done(run) /\ FileOf(run)' = FileOf(run)
  BY DEF Done, FileOf
<1> QED  BY <1>3, <1>4, <1>5 DEF RunOK

LEMMA SetRun ==
    ASSUME installer \in [Installers -> RunRecord], NEW p \in Installers,
           NEW run \in RunRecord, SetInstaller(p, run), RunOK(run)',
           \A q \in Installers : RunOK(installer[q]),
           \A r \in RunRecord : RunOK(r) => RunOK(r)'
    PROVE  /\ installer' \in [Installers -> RunRecord]
           /\ \A q \in Installers : RunOK(installer[q])'
<1>1. installer' = [installer EXCEPT ![p] = run]
  BY DEF SetInstaller
<1>2. installer' \in [Installers -> RunRecord]
  BY <1>1
<1>3. ASSUME NEW q \in Installers PROVE RunOK(installer[q])'
  <2>1. PICK r : r = installer'[q]
    OBVIOUS
  <2>2. CASE q = p
    <3>1. r = run
      BY <1>1, <2>1, <2>2
    <3>2. RunOK(r)'
      BY <3>1
    <3> QED  BY <2>1, <3>2
  <2>3. CASE q # p
    <3>1. r = installer[q]
      BY <1>1, <2>1, <2>3
    <3>2. RunOK(r) /\ r \in RunRecord
      BY <3>1
    <3>3. RunOK(r)'
      BY <3>2
    <3> QED  BY <2>1, <3>3
  <2> QED  BY <2>2, <2>3
<1> QED  BY <1>2, <1>3

\* A run whose file is complete moves to the next, or ends.
LEMMA RunMoves ==
    ASSUME NEW run \in RunRecord, run.at \in Busy, RunOK(run)',
           Complete(FileOf(run), Config(FileOf(run))'),
           NEW moved,
           moved = IF run.next = Len(Files(run.agent))
                   THEN [NoInstall EXCEPT !.at = "ended", !.agent = run.agent]
                   ELSE [run EXCEPT !.at = "reading", !.next = @ + 1, !.text = <<>>]
    PROVE  moved \in RunRecord /\ RunOK(moved)'
<1>1. PICK n, f : n = run.next /\ f = Files(run.agent)
  OBVIOUS
<1>2. Len(f) \in Nat /\ DOMAIN f = 1 .. Len(f) /\ run.agent \in Hosts
  BY <1>1, HostFiles DEF RunRecord
<1>3. n \in 1 .. Len(f)
  BY <1>1 DEF RunOK
<1>4. \A k \in 1 .. (n - 1) : Complete(f[k], Config(f[k])')
  <2>1. Done(run) = {f[k] : k \in 1 .. (n - 1)}
    BY <1>1 DEF Done, Busy
  <2>2. \A q \in Done(run) : Complete(q, Config(q)')
    <3>1. Done(run)' = Done(run)
      BY DEF Done
    <3> QED  BY <3>1 DEF RunOK
  <2> QED  BY <2>1, <2>2
<1>5. Complete(f[n], Config(f[n])')
  BY <1>1 DEF FileOf
<1>6. \A k \in 1 .. n : Complete(f[k], Config(f[k])')
  BY <1>2, <1>3, <1>4, <1>5
<1>7. CASE n = Len(f)
  <2>1. moved = [NoInstall EXCEPT !.at = "ended", !.agent = run.agent]
    BY <1>1, <1>7
  <2>2. moved \in RunRecord
    BY <1>2, <2>1, IdleRun DEF RunRecord
  <2>3. moved.at = "ended" /\ moved.agent = run.agent
    BY <2>1 DEF NoInstall
  <2>4. Done(moved) = ToSet(f)
    BY <1>1, <2>3 DEF Done, Busy
  <2>5. \A q \in Done(moved) : Complete(q, Config(q)')
    BY <1>2, <1>6, <1>7, <2>4 DEF ToSet
  <2>6. Done(moved)' = Done(moved)
    BY DEF Done
  <2>7. RunOK(moved)'
    BY <2>3, <2>5, <2>6 DEF RunOK, Busy
  <2> QED  BY <2>2, <2>7
<1>8. CASE n # Len(f)
  <2>1. PICK empty, m : empty = <<>> /\ m = n + 1
    OBVIOUS
  <2>2. empty \in Texts /\ m \in Nat
    BY <1>2, <1>3, <2>1, EmptyFile
  <2>3. moved = [run EXCEPT !.at = "reading", !.next = m, !.text = empty]
    BY <1>1, <1>8, <2>1
  <2>4. moved \in RunRecord
    BY <2>2, <2>3 DEF RunRecord
  <2>5. moved.at = "reading" /\ moved.agent = run.agent /\ moved.next = n + 1
    BY <2>1, <2>3 DEF RunRecord
  <2>6. Done(moved) = {f[k] : k \in 1 .. n}
    <3>1. Done(moved) = {f[k] : k \in 1 .. ((n + 1) - 1)}
      BY <1>1, <2>5 DEF Done, Busy
    <3>2. (n + 1) - 1 = n
      BY <1>3
    <3> QED  BY <3>1, <3>2
  <2>7. \A q \in Done(moved) : Complete(q, Config(q)')
    BY <1>6, <2>6
  <2>8. Done(moved)' = Done(moved)
    BY DEF Done
  <2>9. moved.next \in 1 .. Len(Files(moved.agent))
    BY <1>1, <1>2, <1>3, <1>8, <2>5
  <2>10. RunOK(moved)'
    BY <2>5, <2>7, <2>8, <2>9 DEF RunOK, Busy
  <2> QED  BY <2>4, <2>10
<1> QED  BY <1>7, <1>8

LEMMA RunChanges ==
    ASSUME IInv, UNCHANGED <<config, link, userVars>>,
           NEW p \in Installers, NEW run \in RunRecord, SetInstaller(p, run), RunOK(run)
    PROVE  IInv'
<1>1. config' = config /\ link' = link /\ written' = written /\ exposed' = exposed
  BY DEF userVars
<1>2. \A q \in Paths : Config(q)' = Config(q)
  BY <1>1 DEF Config
<1>3. \A r \in RunRecord : RunOK(r) => RunOK(r)'
  BY <1>1, <1>2, RunStays
<1>4. /\ installer' \in [Installers -> RunRecord]
      /\ \A q \in Installers : RunOK(installer[q])'
  <2>1. installer \in [Installers -> RunRecord] /\ \A q \in Installers : RunOK(installer[q])
    BY DEF IInv
  <2>2. RunOK(run)'
    BY <1>3
  <2> QED  BY <1>3, <2>1, <2>2, SetRun
<1>5. LinksOK' /\ FilesOK'
  BY <1>1, <1>2 DEF IInv, LinksOK, FilesOK
<1> QED  BY <1>1, <1>4, <1>5 DEF IInv

LEMMA RunKeepsInv ==
    ASSUME IInv, NEW p \in Installers, Run(p)
    PROVE  IInv'
<1>1. PICK agent \in Hosts : SetInstaller(p, [NoInstall EXCEPT !.at = "reading", !.agent = agent])
  BY DEF Run
<1>2. UNCHANGED <<config, link, userVars>>
  BY DEF Run
<1>3. PICK run : run = [NoInstall EXCEPT !.at = "reading", !.agent = agent]
  OBVIOUS
<1>4. run \in RunRecord /\ RunOK(run)
  BY <1>3, RunStart
<1> QED  BY <1>1, <1>2, <1>3, <1>4, RunChanges

LEMMA AbortKeepsInv ==
    ASSUME IInv, NEW p \in Installers, AbortInstall(p)
    PROVE  IInv'
<1>1. SetInstaller(p, NoInstall) /\ UNCHANGED <<config, link, userVars>>
  BY DEF AbortInstall
<1> QED  BY <1>1, IdleRun, RunChanges

LEMMA ReadKeepsInv ==
    ASSUME IInv, NEW p \in Installers, ReadFile(p)
    PROVE  IInv'
<1>1. PICK run : run = installer[p]
  OBVIOUS
<1>2. run \in RunRecord /\ RunOK(run) /\ run.at = "reading"
  BY <1>1 DEF IInv, ReadFile
<1>3. UNCHANGED <<config, link, userVars>>
  BY DEF ReadFile
<1>4. PICK path : path = FileOf(run)
  OBVIOUS
<1>5. path \in Paths
  BY <1>2, <1>4, HostFiles DEF RunOK, RunRecord, Busy, FileOf
<1>6. Path(p) = path
  BY <1>1, <1>4 DEF Path, FileOf
<1>7. PICK text, edited : text = config[link[path]] /\ edited = Edited(path, text)
  OBVIOUS
<1>8. text = Config(path)
  BY <1>7 DEF Config
<1>9. LinksOK /\ FilesOK /\ config \in [Targets -> Texts]
  BY DEF IInv
<1>10. text \in Texts /\ Form(path, text)
  BY <1>5, <1>7, <1>8, <1>9, SharedTargets DEF FilesOK
<1>11. /\ edited \in Texts /\ Form(path, edited) /\ Complete(path, edited)
       /\ path # "server.ts" => \A x \in Owned : Keeps(path, text, x) => Keeps(path, edited, x)
  BY <1>5, <1>7, <1>10, EditSettles
<1>12. IF Unparsable(path, text) THEN SetInstaller(p, NoInstall)
       ELSE IF edited = text THEN Advance(p)
       ELSE SetInstaller(p, [run EXCEPT !.at = "renaming", !.text = edited])
  BY <1>1, <1>6, <1>7 DEF ReadFile
<1>13. CASE SetInstaller(p, NoInstall)
  BY <1>3, <1>13, IdleRun, RunChanges
<1>14. CASE edited = text /\ Advance(p)
  <2>1. PICK moved : moved = IF run.next = Len(Files(run.agent))
                             THEN [NoInstall EXCEPT !.at = "ended", !.agent = run.agent]
                             ELSE [run EXCEPT !.at = "reading", !.next = @ + 1, !.text = <<>>]
    OBVIOUS
  <2>2. SetInstaller(p, moved)
    BY <1>1, <1>14, <2>1 DEF Advance
  <2>3. Complete(path, Config(path))
    BY <1>8, <1>11, <1>14
  <2>4. /\ \A q \in Paths : Config(q)' = Config(q)
        /\ link' = link /\ written' = written /\ exposed' = exposed
    BY <1>3 DEF Config, userVars
  <2>5. RunOK(run)'
    BY <1>2, <2>4, RunStays
  <2>6. moved \in RunRecord /\ RunOK(moved)'
    BY <1>2, <1>4, <1>5, <2>1, <2>3, <2>4, <2>5, RunMoves DEF Busy
  <2>7. /\ installer' \in [Installers -> RunRecord]
        /\ \A q \in Installers : RunOK(installer[q])'
    <3>1. installer \in [Installers -> RunRecord] /\ \A q \in Installers : RunOK(installer[q])
      BY DEF IInv
    <3>2. \A r \in RunRecord : RunOK(r) => RunOK(r)'
      BY <2>4, RunStays
    <3> QED  BY <2>2, <2>6, <3>1, <3>2, SetRun
  <2>8. LinksOK' /\ FilesOK'
    BY <1>9, <2>4 DEF LinksOK, FilesOK
  <2> QED  BY <1>3, <2>4, <2>7, <2>8 DEF IInv
<1>15. CASE SetInstaller(p, [run EXCEPT !.at = "renaming", !.text = edited])
  <2>1. PICK writer : writer = [run EXCEPT !.at = "renaming", !.text = edited]
    OBVIOUS
  <2>2. writer \in RunRecord
    BY <1>2, <1>11, <2>1 DEF RunRecord
  <2>3. /\ writer.at = "renaming" /\ writer.agent = run.agent /\ writer.next = run.next
        /\ writer.text = edited
    BY <1>2, <2>1 DEF RunRecord
  <2>4. FileOf(writer) = path
    BY <1>4, <2>3 DEF FileOf
  <2>5. ASSUME NEW w \in written \ exposed, w[1] = link[path] PROVE Keeps(path, edited, w[2])
    <3>1. PICK other \in Paths : other # "server.ts" /\ link[other] = w[1]
      BY DEF IInv
    <3>2. path # "server.ts"
      BY <1>5, <1>9, <2>5, <3>1, SharedTargets DEF Docs
    <3>3. Keeps(path, text, w[2])
      BY <1>5, <1>8, <1>9, <2>5 DEF FilesOK
    <3>4. w[2] \in Owned
      BY DEF IInv
    <3> QED  BY <1>11, <3>2, <3>3, <3>4
  <2>6. Done(writer) = Done(run)
    BY <1>2, <2>3 DEF Done, Busy
  <2>7. RunOK(writer)
    BY <1>2, <1>11, <2>3, <2>4, <2>5, <2>6 DEF RunOK, Busy
  <2> QED  BY <1>3, <1>15, <2>1, <2>2, <2>7, RunChanges
<1> QED  BY <1>12, <1>13, <1>14, <1>15

LEMMA RenameKeepsInv ==
    ASSUME IInv, NEW p \in Installers, Rename(p)
    PROVE  IInv'
<1>1. PICK run : run = installer[p]
  OBVIOUS
<1>2. run \in RunRecord /\ RunOK(run) /\ run.at = "renaming"
  BY <1>1 DEF IInv, Rename
<1>3. link' = link /\ written' = written /\ exposed' = exposed
  BY DEF Rename, userVars
<1>4. PICK path : path = FileOf(run)
  OBVIOUS
<1>5. path \in Paths
  BY <1>2, <1>4, HostFiles DEF RunOK, RunRecord, Busy, FileOf
<1>6. Path(p) = path
  BY <1>1, <1>4 DEF Path, FileOf
<1>7. PICK text : text = run.text
  OBVIOUS
<1>8. config' = [config EXCEPT ![link[path]] = text] /\ Advance(p)
  BY <1>1, <1>6, <1>7 DEF Rename
<1>9. text \in Texts /\ Form(path, text) /\ Complete(path, text)
      /\ \A w \in written \ exposed : w[1] = link[path] => Keeps(path, text, w[2])
  BY <1>2, <1>4, <1>7 DEF RunOK, RunRecord
<1>10. \A w \in written' \ exposed' :
          IF w[1] = link[path] THEN Keeps(path, text, w[2]) ELSE w \in written \ exposed
  BY <1>3, <1>9
<1>11. /\ config' \in [Targets -> Texts]
       /\ FilesOK'
       /\ \A q \in Paths : Complete(q, Config(q)) => Complete(q, Config(q)')
       /\ Config(path)' = text
  BY <1>3, <1>5, <1>8, <1>9, <1>10, FileReplaced
<1>12. \A r \in RunRecord : RunOK(r) => RunOK(r)'
  BY <1>3, <1>11, RunStays
<1>13. PICK moved : moved = IF run.next = Len(Files(run.agent))
                            THEN [NoInstall EXCEPT !.at = "ended", !.agent = run.agent]
                            ELSE [run EXCEPT !.at = "reading", !.next = @ + 1, !.text = <<>>]
  OBVIOUS
<1>14. SetInstaller(p, moved)
  BY <1>1, <1>8, <1>13 DEF Advance
<1>15. moved \in RunRecord /\ RunOK(moved)'
  <2>1. RunOK(run)'
    BY <1>2, <1>12
  <2> QED  BY <1>2, <1>4, <1>9, <1>11, <1>13, <2>1, RunMoves DEF Busy
<1>16. /\ installer' \in [Installers -> RunRecord]
       /\ \A q \in Installers : RunOK(installer[q])'
  <2>1. installer \in [Installers -> RunRecord] /\ \A q \in Installers : RunOK(installer[q])
    BY DEF IInv
  <2> QED  BY <1>12, <1>14, <1>15, <2>1, SetRun
<1>17. LinksOK'
  BY <1>3 DEF IInv, LinksOK
<1> QED  BY <1>3, <1>11, <1>16, <1>17 DEF IInv

LEMMA EditKeepsInv ==
    ASSUME IInv, EditConfig
    PROVE  IInv'
<1>1. PICK n : n = Cardinality({w \in written : w[2].what > 2})
  OBVIOUS
<1>2. n \in Nat
  <2>1. IsFiniteSet({w \in written : w[2].what > 2})
    BY FS_Subset DEF IInv
  <2> QED  BY <1>1, <2>1, FS_CardinalityType
<1>3. PICK x : x = Own(n + 3)
  OBVIOUS
<1>4. x \in Owned
  BY <1>2, <1>3 DEF Owned
<1>5. PICK path \in {"hooks.json", "config.toml", "AGENTS.md"} :
        /\ config' = [config EXCEPT ![link[path]] = Append(@, x)]
        /\ written' = written \cup {<<link[path], x>>}
        /\ exposed' = IF {p \in Installers : installer[p].at = "renaming" /\ link[Path(p)] = link[path]} # {}
                         \/ Unclosed(config[link[path]])
                      THEN exposed \cup {<<link[path], x>>} ELSE exposed
  BY ZenonT(30), <1>1, <1>3 DEF EditConfig
<1>6. link' = link /\ installer' = installer
  BY DEF EditConfig
<1>7. LinksOK /\ FilesOK /\ config \in [Targets -> Texts] /\ installer \in [Installers -> RunRecord]
      /\ written \subseteq Targets \X Owned
  BY DEF IInv
<1>8. path \in Paths /\ path # "server.ts"
  BY <1>5, HostFiles DEF Hooked, Docs
<1>9. link[path] \in Targets
  BY <1>7, <1>8, SharedTargets
<1>10. PICK text, longer : text = config[link[path]] /\ longer = Append(text, x)
  OBVIOUS
<1>11. text = Config(path) /\ text \in Texts /\ Form(path, text)
  BY <1>7, <1>8, <1>9, <1>10 DEF FilesOK, Config
<1>12. /\ longer \in Texts /\ Form(path, longer)
       /\ Complete(path, text) => Complete(path, longer)
  BY <1>4, <1>8, <1>10, <1>11, UserAppends, UserKeepsForm
<1>13. /\ \A y : Keeps(path, text, y) => Keeps(path, longer, y)
       /\ ~ Unclosed(text) => Keeps(path, longer, x)
  BY <1>4, <1>10, <1>11, UserKeepsItems
<1>14. config' = [config EXCEPT ![link[path]] = longer]
  BY <1>5, <1>10
<1>15. ASSUME NEW w \in written' \ exposed'
       PROVE  \/ w \in written \ exposed
              \/ /\ w[1] = link[path] /\ w[2] = x /\ ~ Unclosed(text)
                 /\ \A p \in Installers : ~ (installer[p].at = "renaming" /\ link[Path(p)] = link[path])
  BY <1>5, <1>10
<1>16. ASSUME NEW w \in written' \ exposed'
       PROVE  IF w[1] = link[path] THEN Keeps(path, longer, w[2]) ELSE w \in written \ exposed
  <2>1. CASE w \in written \ exposed
    <3>1. w[1] = link[path] => Keeps(path, text, w[2])
      BY <1>7, <1>8, <1>11, <2>1 DEF FilesOK
    <3> QED  BY <1>13, <2>1, <3>1
  <2>2. CASE w[1] = link[path] /\ w[2] = x /\ ~ Unclosed(text)
    BY <1>13, <2>2
  <2> QED  BY <1>15, <2>1, <2>2
<1>17. /\ config' \in [Targets -> Texts]
       /\ FilesOK'
       /\ \A q \in Paths : Complete(q, Config(q)) => Complete(q, Config(q)')
  BY <1>6, <1>8, <1>11, <1>12, <1>14, <1>16, FileReplaced
<1>18. ASSUME NEW p \in Installers PROVE RunOK(installer[p])'
  <2>1. PICK run : run = installer[p]
    OBVIOUS
  <2>2. run \in RunRecord /\ RunOK(run)
    BY <1>7, <2>1 DEF IInv
  <2>3. FileOf(run) = Path(p)
    BY <2>1 DEF FileOf, Path
  <2>4. run.at = "renaming" =>
          \A w \in written' \ exposed' : w[1] = link[FileOf(run)] => w \in written \ exposed
    BY <1>15, <2>1, <2>3
  <2>5. RunOK(run)'
    BY <1>6, <1>17, <2>2, <2>4, RunStays
  <2> QED  BY <1>6, <2>1, <2>5
<1>19. LinksOK'
  BY <1>6, <1>7 DEF LinksOK
<1>20. written' \subseteq Targets \X Owned /\ IsFiniteSet(written')
  <2>1. PICK added : added = <<link[path], x>>
    OBVIOUS
  <2>2. written' = written \cup {added} /\ added \in Targets \X Owned
    BY <1>4, <1>5, <1>9, <2>1
  <2>3. IsFiniteSet(written \cup {added})
    BY FS_AddElement DEF IInv
  <2> QED  BY <1>7, <2>2, <2>3
<1>21. \A w \in written' : \E q \in Paths : q # "server.ts" /\ link'[q] = w[1]
  BY <1>5, <1>6, <1>8 DEF IInv
<1> QED  BY <1>6, <1>7, <1>17, <1>18, <1>19, <1>20, <1>21 DEF IInv

LEMMA InvNext == IInv /\ [InstallNext]_installVars => IInv'
<1> SUFFICES ASSUME IInv, [InstallNext]_installVars PROVE IInv'
  OBVIOUS
<1>1. CASE EditConfig
  BY <1>1, EditKeepsInv
<1>2. ASSUME NEW p \in Installers, InstallStep(p) PROVE IInv'
  BY <1>2, RunKeepsInv, ReadKeepsInv, RenameKeepsInv, AbortKeepsInv DEF InstallStep
<1>3. CASE UNCHANGED installVars
  <2>1. /\ config' = config /\ link' = link /\ installer' = installer
        /\ written' = written /\ exposed' = exposed
    BY <1>3 DEF installVars, userVars
  <2>2. \A q \in Paths : Config(q)' = Config(q)
    BY <2>1 DEF Config
  <2>3. ASSUME NEW p \in Installers PROVE RunOK(installer[p])'
    <3>1. PICK run : run = installer[p]
      OBVIOUS
    <3>2. run \in RunRecord /\ RunOK(run)
      BY <3>1 DEF IInv
    <3>3. RunOK(run)'
      BY <2>1, <2>2, <3>2, RunStays
    <3> QED  BY <2>1, <3>1, <3>3
  <2> QED  BY <2>1, <2>2, <2>3 DEF IInv, LinksOK, FilesOK
<1> QED  BY <1>1, <1>2, <1>3 DEF InstallNext

-----------------------------------------------------------------------------
(* The properties *)

\* What the user wrote stays (init, ensureHooks, ensureInstructions and
\* codexNotify merge, they do not overwrite), whatever installations run
\* together, fail or are killed.
THEOREM UserAlwaysKept == InstallSpec => []UserKept
<1>1. IInv => UserKept
  <2> SUFFICES ASSUME IInv, NEW w \in written \ exposed PROVE Has(config[w[1]], w[2])
    BY DEF UserKept
  <2>1. PICK path \in Paths : link[path] = w[1]
    BY DEF IInv
  <2>2. Keeps(path, Config(path), w[2])
    BY <2>1 DEF IInv, FilesOK
  <2> QED  BY <2>1, <2>2 DEF Keeps, Config
<1> QED  BY <1>1, InvInit, InvNext, PTL DEF InstallSpec

LEMMA SettledFile ==
    ASSUME IInv, NEW path \in Paths, Complete(path, Config(path))
    PROVE  Settled(path)
<1>1. PICK text : text = config[link[path]]
  OBVIOUS
<1>2. text = Config(path) /\ Form(path, text) /\ Complete(path, text)
  BY <1>1 DEF IInv, FilesOK, Config
<1>3. text \in Texts
  BY <1>1, SharedTargets DEF IInv
<1>4. path \in Hooked \cup {"config.toml", "server.ts"} \cup Docs
  BY HostFiles
<1>5. CASE path \in Hooked
  <2>1. \A event \in HookEvents : Count(text, Covering(event)) = 1
    BY <1>2, <1>3, <1>5, CountOne DEF Form, HookForm, Complete
  <2>2. path = "settings.json" => Count(text, {Allow}) = 1
    BY <1>2, <1>3, <1>5, CountOne DEF Form, HookForm, Complete
  <2> QED  BY <1>1, <1>5, <2>1, <2>2 DEF Settled, Hooked, Covering
<1>6. CASE path = "config.toml"
  <2>1. AtMostOne(text, Notifies) /\ Some(text, Notifies) /\ (Has(text, Legacy) => ~ Has(text, Notify("acm")))
    BY <1>2, <1>6 DEF Form, NotifyForm, Complete
  <2>2. Count(text, Notifies) = 1
    BY <1>3, <2>1, CountOne
  <2>3. Has(text, Notify("acm")) \/ Has(text, Notify("user"))
    BY <2>1 DEF Some, Has, ToSet, Notifies
  <2> QED  BY <1>1, <1>6, <2>1, <2>2, <2>3 DEF Settled, Notifies
<1>7. CASE path = "server.ts"
  <2>1. text = <<Plugin("new")>>
    BY <1>2, <1>7 DEF Complete
  <2> QED  BY <1>1, <1>7, <2>1 DEF Settled
<1>8. CASE path \in Docs
  <2>1. Count(text, Blocks) = 1
    BY <1>2, <1>3, <1>8, CountOne DEF Form, DocForm, Complete
  <2> QED  BY <1>1, <1>8, <2>1 DEF Settled, Docs, Blocks
<1> QED  BY <1>4, <1>5, <1>6, <1>7, <1>8

\* A file that was settled stays so: after a successful installation, and
\* whatever follows it, every file has each of acm's parts exactly once, and
\* checkCodexHooks and checkCodexNotify of acm doctor miss only what the user
\* wrapped or owns.
THEOREM InstallAlwaysSettled == InstallSpec => []InstallSettled
<1>1. IInv => InstallSettled
  <2> SUFFICES ASSUME IInv, NEW p \in Installers, installer[p].at = "ended"
               PROVE  /\ \A path \in ToSet(Files(installer[p].agent)) : Settled(path)
                      /\ installer[p].agent = "codex" =>
                            /\ \A event \in checkCodexHooks(config[link["hooks.json"]]) :
                                  Has(config[link["hooks.json"]], Wrapped(event))
                            /\ checkCodexNotify(config[link["config.toml"]]) # {} =>
                                  Has(config[link["config.toml"]], Notify("user"))
    BY DEF InstallSettled
  <2>1. RunOK(installer[p]) /\ installer[p] \in RunRecord
    BY DEF IInv
  <2>2. \A path \in ToSet(Files(installer[p].agent)) : path \in Paths /\ Complete(path, Config(path))
    <3>1. Done(installer[p]) = ToSet(Files(installer[p].agent))
      BY DEF Done, Busy
    <3>2. installer[p].agent \in Hosts
      BY <2>1 DEF RunRecord
    <3> QED  BY <2>1, <3>1, <3>2, HostFiles DEF RunOK, ToSet
  <2>3. \A path \in ToSet(Files(installer[p].agent)) : Settled(path)
    BY <2>2, SettledFile
  <2>4. ASSUME installer[p].agent = "codex"
        PROVE  /\ \A event \in checkCodexHooks(config[link["hooks.json"]]) :
                     Has(config[link["hooks.json"]], Wrapped(event))
               /\ checkCodexNotify(config[link["config.toml"]]) # {} =>
                     Has(config[link["config.toml"]], Notify("user"))
    <3>1. "hooks.json" \in ToSet(Files("codex")) /\ "config.toml" \in ToSet(Files("codex"))
      <4>1. DOMAIN Files("codex") = 1 .. 3 /\ Files("codex")[1] = "hooks.json" /\ Files("codex")[2] = "config.toml"
        BY HostFiles
      <4> QED  BY <4>1 DEF ToSet
    <3>2. Complete("hooks.json", config[link["hooks.json"]]) /\ Complete("config.toml", config[link["config.toml"]])
      BY <2>2, <2>4, <3>1 DEF Config
    <3>3. \A event \in HookEvents : Some(config[link["hooks.json"]], Covering(event))
      BY <3>2 DEF Complete, Hooked
    <3>4. \A event \in checkCodexHooks(config[link["hooks.json"]]) : Has(config[link["hooks.json"]], Wrapped(event))
      BY <3>3 DEF checkCodexHooks, hasHookCommand, Some, Has, ToSet, Covering
    <3>5. Some(config[link["config.toml"]], Notifies)
      BY <3>2 DEF Complete
    <3>6. checkCodexNotify(config[link["config.toml"]]) # {} => Has(config[link["config.toml"]], Notify("user"))
      BY <3>5 DEF checkCodexNotify, Some, Has, ToSet, Notifies
    <3> QED  BY <3>4, <3>6
  <2> QED  BY <2>3, <2>4
<1> QED  BY <1>1, InvInit, InvNext, PTL DEF InstallSpec
=============================================================================
