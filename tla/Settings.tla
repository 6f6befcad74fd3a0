------------------------------- MODULE Settings -------------------------------
(***************************************************************************)
(* The settings page: three groups that share no state.  The configuration *)
(* is loaded, edited as a draft and saved whole.  Versions of the summary  *)
(* prompt are opened, edited in one text box and saved.  The users of the  *)
(* access group are changed one call at a time, each followed by a refresh *)
(* -- and shown as the app's own load of them has them, too.               *)
(*                                                                         *)
(* A call is "sent", then "answered" by the server, then heard; or fails.  *)
(***************************************************************************)
EXTENDS Naturals, FiniteSets

CONSTANTS
    Key,            \* settings
    Value,          \* their values
    Default,        \* what configPayload sends for a key the draft lacks
    Unset,
    Version,        \* of the prompt
    Account,        \* users next to the one signed in
    MaxCalls        \* calls of one group under way at once

ASSUME SettingsAssumption ==
    /\ Default \in Value /\ Unset \notin Value
    /\ MaxCalls \in Nat

VARIABLES
    stored,         \* the server's configuration
    config,         \* the page's: loaded (config), draft (configDraft), chip (configState)
    configCalls,    \* loads and saves under way
    configCrossed,  \* ghost: saves overlapped since one was last alone
    box,            \* version chosen, version the text was loaded for, list there, chip
    opening,        \* loads of a version under way
    writing,        \* saves of a prompt under way
    slipped,        \* ghost: a load failed, or was pending when a save settled, since one worked
    accounts,       \* the server's users
    group,          \* AccessGroup: mounted, rows, chip, refreshing, menu
    userCalls,      \* calls of the group, and the app's own load
    usersDoubt,     \* ghost: calls overlapped, or a change's refresh failed, since one was alone
    session         \* the token on show, a sign-out under way, the mobile "Access" open

configVars == <<stored, config, configCalls, configCrossed>>
promptVars == <<box, opening, writing, slipped>>
usersVars == <<accounts, group, userCalls, usersDoubt>>
settingsVars == <<configVars, promptVars, usersVars, session>>

Chip == {"none", "loading", "error", "saved"}
Draft == [Key -> Value \cup {Unset}]
NoDraft == <<>>       \* null
ConfigCall == [what : {"load", "save"}, at : {"sent", "answered"}, body : Draft]
Opening == [version : Version, latest : BOOLEAN, whole : BOOLEAN]
Writing == [version : Version, text : Version, at : {"write", "list"}]
Access == [admin : BOOLEAN, active : BOOLEAN]
Rows == UNION {[S -> Access] : S \in SUBSET Account}
NoRows == <<>>
UserCall == [what : {"load", "refresh", "change"}, at : {"sent", "reading", "answered"},
             mine : BOOLEAN, body : Rows]
Unmounted == [mounted |-> FALSE, rows |-> NoRows, chip |-> "none", busy |-> FALSE, menu |-> FALSE]

Nothing == [k \in Key |-> Unset]
Load == [what |-> "load", at |-> "sent", body |-> Nothing]
OpenActive == [version |-> CHOOSE v \in Version : TRUE, latest |-> TRUE, whole |-> TRUE]
Read(kind) == [what |-> kind, at |-> "reading", mine |-> kind # "load", body |-> NoRows]

SettingsInit ==
    /\ stored \in [Key -> Value]
    /\ config = [loaded |-> NoDraft, draft |-> NoDraft, chip |-> "loading"]
    /\ configCalls = {Load} /\ configCrossed = FALSE
    /\ \E v \in Version : box = [version |-> v, text |-> v, list |-> FALSE, chip |-> "loading"]
    /\ opening = {OpenActive} /\ writing = {} /\ slipped = FALSE
    /\ accounts \in Rows
    /\ group = Unmounted
    /\ userCalls = {Read("load")} /\ usersDoubt = FALSE
    /\ session = [token |-> "none", leaving |-> FALSE, access |-> FALSE]

--------------------------------------------------------------------------------
(* The configuration *)

\* The effect of [auth]: the load before is aborted, the draft waits to be replaced.
ReloadConfig ==
    /\ configCalls' = {c \in configCalls : c.what = "save"} \cup {Load}
    /\ config' = [config EXCEPT !.chip = "loading"]
    /\ UNCHANGED <<stored, configCrossed>>

\* setDraft: a draft can be begun before the configuration is there.
SetDraft_Alone(draft, k, v) == [Nothing EXCEPT ![k] = v]
SetDraft(draft, k, v) == [(IF draft = NoDraft THEN Nothing ELSE draft) EXCEPT ![k] = v]
EditedChip_Kept(chip) == chip
EditedChip(chip) == IF chip = "saved" THEN "none" ELSE chip

EditConfig(k, v) ==
    /\ config' = [config EXCEPT !.draft = SetDraft(@, k, v), !.chip = EditedChip(@)]
    /\ UNCHANGED <<stored, configCalls, configCrossed>>

\* "Discard": back to what was loaded, or to nothing.
DiscardConfig ==
    /\ config.draft # NoDraft
    /\ config' = [config EXCEPT
           !.draft = IF config.loaded = NoDraft THEN Nothing ELSE config.loaded,
           !.chip = IF @ = "loading" THEN @ ELSE "none"]
    /\ UNCHANGED <<stored, configCalls, configCrossed>>

ConfigPayload(draft) == [k \in Key |-> IF draft[k] = Unset THEN Default ELSE draft[k]]

\* "Save changes" waits for nothing.
SaveConfig ==
    /\ config.draft # NoDraft
    /\ Cardinality(configCalls) < MaxCalls                    \* (bound)
    /\ LET call == [what |-> "save", at |-> "sent", body |-> ConfigPayload(config.draft)]
       IN call \notin configCalls /\ configCalls' = configCalls \cup {call}
    /\ config' = [config EXCEPT !.chip = "none"]
    /\ configCrossed' = (configCalls # {})
    /\ UNCHANGED stored

ServerAnswersConfig(c) ==
    /\ c.at = "sent"
    /\ stored' = IF c.what = "save" THEN c.body ELSE stored
    /\ configCalls' = (configCalls \ {c}) \cup {[c EXCEPT !.at = "answered", !.body = stored']}
    /\ UNCHANGED <<config, configCrossed>>

\* A load, or a save, replaces what was loaded and the draft, edited since or not.
HearConfig(c) ==
    /\ c.at = "answered"
    /\ config' = [loaded |-> c.body, draft |-> c.body,
                  chip |-> IF c.what = "save" THEN "saved" ELSE "none"]
    /\ configCalls' = configCalls \ {c}
    /\ UNCHANGED <<stored, configCrossed>>

\* Refused, or the answer is lost after the server has acted.
FailConfig(c) ==
    /\ config' = [config EXCEPT !.chip = "error"]
    /\ configCalls' = configCalls \ {c}
    /\ UNCHANGED <<stored, configCrossed>>

ConfigNext ==
    \/ ReloadConfig
    \/ \E k \in Key, v \in Value : EditConfig(k, v)
    \/ DiscardConfig \/ SaveConfig
    \/ \E c \in configCalls : ServerAnswersConfig(c) \/ HearConfig(c) \/ FailConfig(c)

--------------------------------------------------------------------------------
(* The prompts *)

Superseded(os) == {[o EXCEPT !.latest = FALSE] : o \in os}

\* The effect of [auth]: the list, and the text of its active version.
ReloadPrompts ==
    /\ opening' = Superseded({o \in opening : ~o.whole}) \cup {OpenActive}
    /\ box' = [box EXCEPT !.chip = "loading"]
    /\ UNCHANGED <<writing, slipped>>

\* loadPromptVersion: the version is the chosen one at once, its text comes later.
OpenVersion(v) ==
    /\ box.list /\ Cardinality(opening) < MaxCalls            \* (bound)
    /\ opening' = Superseded(opening) \cup {[version |-> v, latest |-> TRUE, whole |-> FALSE]}
    /\ box' = [box EXCEPT !.version = v, !.chip = "loading"]
    /\ UNCHANGED <<writing, slipped>>

HearsOpening_Any(o) == TRUE
HearsOpening(o) == o.latest

VersionOpened(o) ==
    /\ opening' = opening \ {o}
    /\ box' = IF HearsOpening(o)
              THEN [version |-> IF o.whole THEN o.version ELSE box.version,
                    text |-> o.version, list |-> box.list \/ o.whole, chip |-> "none"]
              ELSE box
    /\ slipped' = (slipped /\ ~o.latest)
    /\ UNCHANGED writing

VersionFails(o) ==
    /\ opening' = opening \ {o}
    /\ box' = IF HearsOpening(o) THEN [box EXCEPT !.chip = "error"] ELSE box
    /\ slipped' = (slipped \/ o.latest)
    /\ UNCHANGED writing

MaySavePrompt == box.chip # "loading"

SavePrompt ==
    /\ MaySavePrompt /\ Cardinality(writing) < MaxCalls       \* (bound)
    /\ writing' = writing \cup {[version |-> box.version, text |-> box.text, at |-> "write"]}
    /\ box' = [box EXCEPT !.chip = "none"]
    /\ UNCHANGED <<opening, slipped>>

\* The text is written; then the list is fetched, or the version made active again.
PromptWritten(w) ==
    /\ w.at = "write"
    /\ writing' = (writing \ {w}) \cup {[w EXCEPT !.at = "list"]}
    /\ UNCHANGED <<box, opening, slipped>>

\* Both ends of a save say loading: false, whatever is being opened.
SaveSettles(w) ==
    /\ \/ w.at = "list" /\ box' = [box EXCEPT !.list = TRUE, !.chip = "saved"]
       \/ box' = [box EXCEPT !.chip = "error"]
    /\ writing' = writing \ {w}
    /\ slipped' = (slipped \/ \E o \in opening : o.latest)
    /\ UNCHANGED opening

PromptNext ==
    \/ ReloadPrompts
    \/ \E v \in Version : OpenVersion(v)
    \/ \E o \in opening : VersionOpened(o) \/ VersionFails(o)
    \/ SavePrompt
    \/ \E w \in writing : PromptWritten(w) \/ SaveSettles(w)

--------------------------------------------------------------------------------
(* The users *)

Adds(call) == userCalls' = userCalls \cup {call} /\ usersDoubt' = (userCalls # {})

\* The app's effect of [auth] forgets who is signed in: the group is gone until it is told.
\* Calls of the group that was there go on.
ReloadUsers ==
    LET theirs == {c \in userCalls : c.what # "load"} IN
    /\ group' = Unmounted
    /\ userCalls' = {[c EXCEPT !.mine = FALSE] : c \in theirs} \cup {Read("load")}
    /\ usersDoubt' = (theirs # {})
    /\ UNCHANGED accounts

\* canRenderAccessGroup: /api/auth/me has said "admin".
TellsWhoIsMe ==
    /\ ~group.mounted /\ Read("load") \in userCalls
    /\ group' = [Unmounted EXCEPT !.mounted = TRUE]
    /\ UNCHANGED <<accounts, userCalls, usersDoubt>>

\* "Refresh" waits only for refreshes.
RefreshUsers ==
    /\ group.mounted /\ ~group.busy
    /\ Cardinality(userCalls) < MaxCalls                      \* (bound)
    /\ Adds(Read("refresh"))
    /\ group' = [group EXCEPT !.busy = TRUE, !.chip = "none"]
    /\ UNCHANGED accounts

\* The dots of a row; another click anywhere closes the menu.
UserMenu ==
    /\ group.rows # NoRows
    /\ group' = [group EXCEPT !.menu = ~@]
    /\ UNCHANGED <<accounts, userCalls, usersDoubt>>

\* addUser, toggleState, setRole: what is sent goes by the row as it is shown.
ChangeUser(u, access) ==
    /\ Cardinality(userCalls) < MaxCalls                      \* (bound)
    /\ Adds([what |-> "change", at |-> "sent", mine |-> TRUE, body |-> [x \in {u} |-> access]])
    /\ group' = [group EXCEPT !.menu = FALSE, !.chip = "none"]
    /\ UNCHANGED accounts

AddUser(u, admin) == group.mounted /\ ChangeUser(u, [admin |-> admin, active |-> TRUE])
ToggleState(u) ==
    group.menu /\ u \in DOMAIN group.rows
        /\ ChangeUser(u, [group.rows[u] EXCEPT !.active = ~@])
SetRole(u) ==
    group.menu /\ u \in DOMAIN group.rows
        /\ ChangeUser(u, [group.rows[u] EXCEPT !.admin = ~@])

\* The server has changed the user; then the table is refreshed.
AfterChange_Done(c) == [c EXCEPT !.at = "answered", !.body = group.rows]
AfterChange(c) == [c EXCEPT !.at = "reading"]

Upsert(rows, table) ==
    [u \in DOMAIN rows \cup DOMAIN table |-> IF u \in DOMAIN rows THEN rows[u] ELSE table[u]]

\* An answer that is lost here is taken for a refusal.
ServerChangesUser(c) ==
    /\ c.at = "sent"
    /\ accounts' = Upsert(c.body, accounts)
    /\ \/ /\ userCalls' = (userCalls \ {c}) \cup {AfterChange(c)}
          /\ group' = [group EXCEPT !.busy = @ \/ c.mine]
          /\ UNCHANGED usersDoubt
       \/ /\ userCalls' = userCalls \ {c}
          /\ group' = IF c.mine THEN [group EXCEPT !.chip = "error"] ELSE group
          /\ usersDoubt' = TRUE

ServerReadsUsers(c) ==
    /\ c.at = "reading" /\ (c.what = "load" => group.mounted)
    /\ userCalls' = (userCalls \ {c}) \cup {[c EXCEPT !.at = "answered", !.body = accounts]}
    /\ UNCHANGED <<accounts, group, usersDoubt>>

\* The app's load resets the table; a refresh fills it, and then it or its change says so.
HearUsers(c) ==
    /\ c.at = "answered"
    /\ group' = CASE c.what = "load" -> [group EXCEPT !.rows = c.body]
                  [] c.mine -> [group EXCEPT !.rows = c.body, !.busy = FALSE, !.chip = "saved"]
                  [] OTHER -> group
    /\ userCalls' = userCalls \ {c}
    /\ UNCHANGED <<accounts, usersDoubt>>

\* Refused or not delivered, or the answer to a read is lost.  A load that fails leaves an
\* empty table; a refresh that fails at the end of a change is covered by what the change then
\* says: it is saved.
FailUsers(c) ==
    /\ group' = CASE c.what = "load" -> [group EXCEPT !.rows = NoRows]
                  [] c.mine /\ c.at = "sent" -> [group EXCEPT !.chip = "error"]
                  [] c.mine /\ c.at # "sent" ->
                        [group EXCEPT !.busy = FALSE,
                                      !.chip = IF c.what = "change" THEN "saved" ELSE "error"]
                  [] OTHER -> group
    /\ userCalls' = userCalls \ {c}
    /\ usersDoubt' = (usersDoubt \/ c.what = "change")
    /\ UNCHANGED accounts

--------------------------------------------------------------------------------
(* The session: the extension token, signing out, the mobile page's "Access" *)

\* A token is shown once, until the next one is asked for.
GenerateToken ==
    /\ session.token # "pending"
    /\ session' = [session EXCEPT !.token = "pending"]
TokenAnswered ==
    /\ session.token = "pending"
    /\ \E t \in {"shown", "none"} : session' = [session EXCEPT !.token = t]
CopyToken ==
    /\ session.token \in {"shown", "copied"}
    /\ \E t \in {"shown", "copied"} : session' = [session EXCEPT !.token = t]
LeaveSession == ~session.leaving /\ session' = [session EXCEPT !.leaving = TRUE]
LeaveAnswered == session.leaving /\ session' = [session EXCEPT !.leaving = FALSE]
ShowAccess == session' = [session EXCEPT !.access = ~@]

SessionNext ==
    \/ GenerateToken \/ TokenAnswered \/ CopyToken
    \/ LeaveSession \/ LeaveAnswered \/ ShowAccess

UsersNext ==
    \/ ReloadUsers \/ TellsWhoIsMe \/ RefreshUsers \/ UserMenu
    \/ \E u \in Account :
        \/ ToggleState(u) \/ SetRole(u)
        \/ \E admin \in BOOLEAN : AddUser(u, admin)
    \/ \E c \in userCalls :
        ServerChangesUser(c) \/ ServerReadsUsers(c) \/ HearUsers(c) \/ FailUsers(c)

SettingsNext ==
    \/ ConfigNext /\ UNCHANGED <<promptVars, usersVars, session>>
    \/ PromptNext /\ UNCHANGED <<configVars, usersVars, session>>
    \/ UsersNext /\ UNCHANGED <<configVars, promptVars, session>>
    \/ SessionNext /\ UNCHANGED <<configVars, promptVars, usersVars>>
SettingsSpec == SettingsInit /\ [][SettingsNext]_settingsVars

--------------------------------------------------------------------------------
(* Properties *)

SettingsTypeOK ==
    /\ stored \in [Key -> Value] /\ configCrossed \in BOOLEAN
    /\ config \in [loaded : Draft \cup {NoDraft}, draft : Draft \cup {NoDraft}, chip : Chip]
    /\ configCalls \subseteq ConfigCall
    /\ slipped \in BOOLEAN
    /\ box \in [version : Version, text : Version, list : BOOLEAN, chip : Chip]
    /\ opening \subseteq Opening /\ writing \subseteq Writing
    /\ accounts \in Rows /\ usersDoubt \in BOOLEAN
    /\ group \in [mounted : BOOLEAN, rows : Rows, chip : Chip, busy : BOOLEAN, menu : BOOLEAN]
    /\ userCalls \subseteq UserCall
    /\ session \in [token : {"none", "pending", "shown", "copied"}, leaving : BOOLEAN,
                    access : BOOLEAN]

\* Where the page says "Saved", the draft is what the server has, and what was loaded, unless
\* saves overlapped: an edit, a discard, a reload and a late load each take the word back.
SavedIsStored ==
    (config.chip = "saved" /\ ~configCrossed /\ configCalls = {})
        => config.draft = stored /\ config.loaded = stored

\* A configuration that was ever loaded is never saved with a default in place of a setting
\* the page has not got: the draft is whole from then on.
DraftIsWhole == config.loaded # NoDraft => \A k \in Key : config.draft[k] # Unset

\* The text that can be saved was loaded for the version it would be saved as, however late
\* texts arrive -- unless a load failed, or a save settled while one was pending.
TextIsVersions == (MaySavePrompt /\ ~slipped) => box.text = box.version

\* When nothing is under way and the table says so, it shows the server's users.
UsersAreServers ==
    (group.mounted /\ group.chip = "saved" /\ userCalls = {} /\ ~usersDoubt)
        => group.rows = accounts
=============================================================================
