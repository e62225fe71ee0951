------------------------------ MODULE Install ------------------------------
(***************************************************************************)
(* "acm init --global" (internal/install): it merges acm's hooks, notify    *)
(* command, plugin and instructions into the host's configuration files,   *)
(* one file after the other, each read, edited in memory, written to a     *)
(* temporary file and renamed over the target, while the user edits the    *)
(* same files, another installation runs, and any of them may fail or be   *)
(* killed.  "acm doctor" checks the result.                                *)
(*                                                                         *)
(* A file is the sequence of the items that matter: what the user wrote,   *)
(* hooks, markers, blocks, and "broken" for text that cannot be parsed.    *)
(***************************************************************************)
EXTENDS Integers, FiniteSets, Sequences, SequencesExt

CONSTANTS
    Installers,   \* installations that may run at the same time
    MaxInstalls,  \* bound: installations started
    MaxEdits,     \* bound: edits of the user
    MaxAborts     \* bound: failed or killed installations

ASSUME InstallAssumption == {MaxInstalls, MaxEdits, MaxAborts} \subseteq Nat

VARIABLES
    config,       \* the files
    link,         \* the file a configured path leads to
    installer,    \* the installations
    written,      \* history: what the user wrote, as <<file, item>>
    exposed,      \* history: the part of it an installation may overwrite
    installs,
    aborts

userVars == <<written, exposed>>
installVars == <<config, link, installer, userVars, installs, aborts>>

-----------------------------------------------------------------------------
(* Files *)

Item(kind, what) == [kind |-> kind, what |-> what]
Hook(event) == Item("hook", event)
Wrapped(event) == Item("wrapped", event)   \* a hook of the user's that runs acm's command
Broken == Item("broken", "")
Allow == Item("allow", "acm")
Notify(owner) == Item("notify", owner)
Legacy == Item("legacy", "acm")            \* the notify line acm wrote below a table
Start == Item("marker", "start")
End == Item("marker", "end")
Block(version) == Item("block", version)
Plugin(version) == Item("plugin", version)
Own(n) == Item("own", n)

HookEvents == {"UserPromptSubmit", "PostToolUse", "Stop"}

Files(agent) ==
    CASE agent = "claude-code" -> <<"settings.json", "CLAUDE.md">>
      [] agent = "codex" -> <<"hooks.json", "config.toml", "AGENTS.md">>
      [] agent = "opencode" -> <<"server.ts", "opencode/AGENTS.md">>

Hosts == {"claude-code", "codex", "opencode"}
Paths == UNION {ToSet(Files(agent)) : agent \in Hosts}
Dotfile == "dotfiles/AGENTS.md"
Targets == Paths \cup {Dotfile}

Has(text, item) == item \in ToSet(text)
HasKind(text, kind) == \E item \in ToSet(text) : item.kind = kind
Count(text, items) == Cardinality({i \in DOMAIN text : text[i] \in items})

-----------------------------------------------------------------------------
(* Edits *)

EnsureExactEntry(text, event) ==
    IF Has(text, Hook(event)) THEN text ELSE Append(text, Hook(event))

\* An event is covered by any command that contains acm's.
ensureHookEntry(text, event) ==
    IF Has(text, Hook(event)) \/ Has(text, Wrapped(event)) THEN text
    ELSE Append(text, Hook(event))

ensureHooks(text) ==
    ensureHookEntry(ensureHookEntry(ensureHookEntry(text, "UserPromptSubmit"), "PostToolUse"), "Stop")

ensureAllow(text) == IF Has(text, Allow) THEN text ELSE Append(text, Allow)

\* The text line by line, without acm's own notify line.
removeLegacyACMNotify(text) ==
    LET kept[i \in 0 .. Len(text)] ==
            IF i = 0 THEN <<>>
            ELSE IF text[i] = Legacy THEN kept[i - 1]
            ELSE Append(kept[i - 1], text[i])
    IN  kept[Len(text)]

\* A top-level notify stays, whoever owns it; acm's own line below a table is
\* removed when the top-level one is added.
codexNotify(text) ==
    IF HasKind(text, "notify") THEN text
    ELSE <<Notify("acm")>> \o removeLegacyACMNotify(text)

\* Where the item first occurs, or 0.
First(text, item) == SelectInSeq(text, LAMBDA x : x = item)

ManagedBlock == <<Start, Block("new"), End>>

ReplaceFromStart(text) ==
    IF Has(text, Start) /\ Has(text, End)
    THEN SubSeq(text, 1, First(text, Start) - 1) \o ManagedBlock
    ELSE IF HasKind(text, "block") THEN text
    ELSE text \o ManagedBlock

\* Between its markers the block is replaced; a copy without markers is the
\* user's; else the block is appended.
ensureInstructions(text) ==
    LET start == First(text, Start)
        end == First(text, End)
    IN  IF start > 0 /\ end > start
        THEN SubSeq(text, 1, start - 1) \o ManagedBlock \o SubSeq(text, end + 1, Len(text))
        ELSE IF HasKind(text, "block") THEN text
        ELSE text \o ManagedBlock

\* The plugin is acm's own file: it is replaced by the current version.
opencodePlugin(text) == <<Plugin("new")>>

Edited(path, text) ==
    CASE path = "settings.json" -> ensureHooks(ensureAllow(text))
      [] path = "hooks.json" -> ensureHooks(text)
      [] path = "config.toml" -> codexNotify(text)
      [] path = "server.ts" -> opencodePlugin(text)
      [] OTHER -> ensureInstructions(text)

\* Instructions are never parsed.
Unparsable(path, text) ==
    path \in {"settings.json", "hooks.json", "config.toml"} /\ Has(text, Broken)

-----------------------------------------------------------------------------
(* Installations *)

NoInstall == [at |-> "idle", agent |-> "codex", next |-> 1, text |-> <<>>]

Path(p) == Files(installer[p].agent)[installer[p].next]
SetInstaller(p, record) == installer' = [installer EXCEPT ![p] = record]

Busy == {"reading", "renaming"}

Run(p) ==
    /\ installer[p].at \notin Busy
    /\ installs < MaxInstalls
    /\ installs' = installs + 1
    /\ \E agent \in Hosts :
          SetInstaller(p, [NoInstall EXCEPT !.at = "reading", !.agent = agent])
    /\ UNCHANGED <<config, link, userVars, aborts>>

\* The file is settled: the next one, or the end.
Advance(p) ==
    SetInstaller(p, IF installer[p].next = Len(Files(installer[p].agent))
                    THEN [NoInstall EXCEPT !.at = "ended", !.agent = installer[p].agent]
                    ELSE [installer[p] EXCEPT !.at = "reading", !.next = @ + 1, !.text = <<>>])

\* A file that cannot be parsed ends the run; what was installed before stays.
ReadFile(p) ==
    /\ installer[p].at = "reading"
    /\ LET text == config[link[Path(p)]]
           edited == Edited(Path(p), text)
       IN  IF Unparsable(Path(p), text)
           THEN SetInstaller(p, NoInstall)
           ELSE IF edited = text THEN Advance(p)
           ELSE SetInstaller(p, [installer[p] EXCEPT !.at = "renaming", !.text = edited])
    /\ UNCHANGED <<config, link, userVars, installs, aborts>>

\* What was read is written to a temporary file beside the target of the links
\* and renamed over it.
Rename(p) ==
    /\ installer[p].at = "renaming"
    /\ config' = [config EXCEPT ![link[Path(p)]] = installer[p].text]
    /\ Advance(p)
    /\ UNCHANGED <<link, userVars, installs, aborts>>

\* An operation on a file fails, or the process is killed.
AbortInstall(p) ==
    /\ installer[p].at \in Busy
    /\ aborts < MaxAborts
    /\ aborts' = aborts + 1
    /\ SetInstaller(p, NoInstall)
    /\ UNCHANGED <<config, link, userVars, installs>>

Unclosed(text) == Has(text, Start) /\ ~ Has(text, End)

\* The user adds to a file, which an installation may have read already, or
\* which has an unclosed marker.
EditConfig ==
    LET n == Cardinality({w \in written : w[2].what > 2})
    IN  /\ n < MaxEdits
        /\ \E path \in {"hooks.json", "config.toml", "AGENTS.md"} :
              LET added == <<link[path], Own(n + 3)>>
                  stale == {p \in Installers : installer[p].at = "renaming" /\ link[Path(p)] = added[1]}
              IN  /\ config' = [config EXCEPT ![added[1]] = Append(@, added[2])]
                  /\ written' = written \cup {added}
                  /\ exposed' = IF stale # {} \/ Unclosed(config[added[1]])
                                THEN exposed \cup {added} ELSE exposed
    /\ UNCHANGED <<link, installer, installs, aborts>>

-----------------------------------------------------------------------------
(* acm doctor *)

\* Only acm's exact command counts.
hasHookCommand(text, event) == Has(text, Hook(event))

checkCodexHooks(text) == {event \in HookEvents : ~ hasHookCommand(text, event)}

checkCodexNotify(text) == IF Has(text, Notify("acm")) THEN {} ELSE {"notify"}

-----------------------------------------------------------------------------

\* What a file may hold before acm is installed, or after an older acm was.
Found(path) ==
    CASE path \in {"settings.json", "hooks.json"} ->
             {<<Own(1)>>, <<Own(1), Hook("Stop")>>, <<Wrapped("Stop")>>, <<Own(1), Broken>>}
      [] path = "config.toml" ->
             {<<Own(1)>>, <<Notify("user"), Own(1)>>, <<Notify("acm"), Own(1)>>,
              <<Own(1), Legacy, Own(2)>>, <<Own(1), Broken>>}
      [] path = "server.ts" -> {<<Plugin("old")>>, <<Plugin("new")>>}
      [] OTHER ->
             {<<Own(1)>>, <<Own(1), Start, Block("old"), End, Own(2)>>,
              <<Own(1), Block("old")>>, <<Own(1), Start, Own(2)>>}

InstallInit ==
    /\ \E path \in Paths, shared \in BOOLEAN : \E text \in Found(path) :
          /\ link = [q \in Paths |-> IF shared /\ q \in {"CLAUDE.md", "AGENTS.md"}
                                     THEN Dotfile ELSE q]
          /\ config = [t \in Targets |-> IF t = link[path] THEN text ELSE <<>>]
    /\ installer = [p \in Installers |-> NoInstall]
    /\ written = {w \in Targets \X {Own(1), Own(2)} : Has(config[w[1]], w[2])}
    \* Text below a start marker that has no end marker.
    /\ exposed = {w \in written : w[2] = Own(2) /\ Unclosed(config[w[1]])}
    /\ installs = 0
    /\ aborts = 0

InstallStep(p) == Run(p) \/ ReadFile(p) \/ Rename(p) \/ AbortInstall(p)

InstallNext == EditConfig \/ \E p \in Installers : InstallStep(p)

InstallSpec == InstallInit /\ [][InstallNext]_installVars

-----------------------------------------------------------------------------
(* Properties *)

\* Whatever the user wrote stays in its file, through failures, kills, repeated
\* and concurrent installations and files that cannot be parsed, except what
\* was added between the read and the rename of an installation, and the text
\* below a start marker that has no end marker.
UserKept == \A w \in written \ exposed : Has(config[w[1]], w[2])

Settled(path) ==
    LET text == config[link[path]]
    IN  CASE path \in {"settings.json", "hooks.json"} ->
                 /\ \A event \in HookEvents :
                       Count(text, {Hook(event), Wrapped(event)}) = 1
                 /\ path = "settings.json" => Count(text, {Allow}) = 1
          [] path = "config.toml" ->
                 /\ Count(text, {Notify("acm"), Notify("user")}) = 1
                 /\ Has(text, Legacy) => Has(text, Notify("user"))
          [] path = "server.ts" -> text = <<Plugin("new")>>
          [] OTHER -> Count(text, {Block("old"), Block("new")}) = 1

\* After an installation has succeeded, and for good, every file it manages has
\* each of acm's parts exactly once, and acm doctor misses nothing but a hook
\* the user wrapped or a notify of the user's.
InstallSettled ==
    \A p \in Installers : installer[p].at = "ended" =>
        /\ \A path \in ToSet(Files(installer[p].agent)) : Settled(path)
        /\ installer[p].agent = "codex" =>
              /\ \A event \in checkCodexHooks(config[link["hooks.json"]]) :
                    Has(config[link["hooks.json"]], Wrapped(event))
              /\ checkCodexNotify(config[link["config.toml"]]) # {} =>
                    Has(config[link["config.toml"]], Notify("user"))
=============================================================================
