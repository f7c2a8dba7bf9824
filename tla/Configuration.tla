--------------------------- MODULE Configuration ---------------------------
(***************************************************************************)
(* ConfigManager (core/config) and the settings dialog (gui) that edits    *)
(* it.  Both programs load the file when they start and ignore, in the     *)
(* window, whether that worked; the file is written when it is missing,    *)
(* when the dialog is accepted and when the settings are reset, always as  *)
(* a whole and always from memory.                                         *)
(*                                                                         *)
(* A configuration is a function from keys to values, a key standing for   *)
(* its path in the JSON object: "priorities", a rank for every source;     *)
(* "interval" and "theme", which the dialog offers choices for (the other  *)
(* settings it shows are handled as the theme is); and "unshown", for all  *)
(* that it does not show (the version, the overrides, the columns, and     *)
(* what another version of the program has put there).                     *)
(***************************************************************************)
EXTENDS Integers, FiniteSets

CONSTANTS
    Sources,        \* the SourceIds the dialog lists, numbered as the enumeration is
    Intervals,      \* the minutes its combo box offers
    SecondInterval, \* the one at index 1
    Themes,         \* the modes the other combo box offers
    DefaultTheme,
    Unshown,        \* the values of the rest
    DefaultRest,
    InitialFiles    \* what the window can find when it starts for the first time

Missing    == [missing |-> TRUE]
Unreadable == [unreadable |-> TRUE]
Closed     == [closed |-> TRUE]

ConfigKeys == {"priorities", "interval", "theme", "unshown"}

\* What a file that can be read says: a value for each of some keys.
IsConfiguration(c) ==
    /\ c = [key \in DOMAIN c |-> c[key]]
    /\ DOMAIN c \subseteq ConfigKeys
    /\ "priorities" \in DOMAIN c => c["priorities"] \in [Sources -> Int]
    /\ "interval" \in DOMAIN c => c["interval"] \in Int
    /\ "theme" \in DOMAIN c => c["theme"] \in Themes
    /\ "unshown" \in DOMAIN c => c["unshown"] \in Unshown

ASSUME ConfigurationAssumption ==
    /\ IsFiniteSet(Sources) /\ Sources \subseteq Nat
    /\ Intervals \subseteq Nat /\ SecondInterval \in Intervals
    /\ DefaultTheme \in Themes
    /\ DefaultRest \in Unshown
    /\ \A c \in InitialFiles : c \in {Missing, Unreadable} \/ IsConfiguration(c)

VARIABLES
    file,       \* config.json: a configuration, Missing, or Unreadable
    config_,    \* the object in memory
    loaded,     \* whether what is in memory began as, or has become, what the file says
    dialog,     \* the widgets of the settings dialog, or Closed
    cliLoading  \* a bumpcap-cli that found no file and has yet to write one

configuration == <<file, config_, loaded, dialog, cliLoading>>

DefaultConfig ==
    [priorities |-> [s \in Sources |-> Cardinality({r \in Sources : r < s})],
     interval   |-> SecondInterval,
     theme      |-> DefaultTheme,
     unshown    |-> DefaultRest]

-----------------------------------------------------------------------------
(***************************************************************************)
(* ConfigManager.                                                          *)
(***************************************************************************)

\* What the file says, and the default of what it does not.
MergeJsonObjects(defaults, overrides) ==
    [key \in DOMAIN defaults \cup DOMAIN overrides |->
        IF key \in DOMAIN overrides THEN overrides[key] ELSE defaults[key]]

Readable == file \notin {Missing, Unreadable}

\* save() writes what is in memory beside the file and renames it, or fails and
\* leaves the file as it was.
Save(config) == file' = config \/ UNCHANGED file

\* load(): a file that is missing is written, one that cannot be read is left alone,
\* and so is then what is in memory, which the constructor made the defaults.
load ==
    \/ /\ file = Missing
       /\ config_' = DefaultConfig
       /\ Save(DefaultConfig)
       /\ loaded' = TRUE
    \/ /\ file = Unreadable
       /\ config_' = DefaultConfig
       /\ loaded' = FALSE
       /\ UNCHANGED file
    \/ /\ Readable
       /\ config_' = MergeJsonObjects(DefaultConfig, file)
       /\ loaded' = TRUE
       /\ UNCHANGED file

sourcePriority(s) == config_["priorities"][s]

\* The setters replace one value and keep the rest of the object.
setValue(config, key, value) == [config EXCEPT ![key] = value]

\* At least a minute: the 0 that stands for "Manual" becomes 1.
setCheckIntervalMinutes(config, minutes) ==
    setValue(config, "interval", IF minutes < 1 THEN 1 ELSE minutes)

\* load() in a bumpcap-cli, between whose look at the file and its write the
\* window can start and save.
cliFindsNoFile ==
    /\ file = Missing
    /\ ~cliLoading
    /\ cliLoading' = TRUE
    /\ UNCHANGED <<file, config_, loaded, dialog>>

cliSaves ==
    /\ cliLoading
    /\ cliLoading' = FALSE
    /\ Save(DefaultConfig)
    /\ UNCHANGED <<config_, loaded, dialog>>

(***************************************************************************)
(* SettingsDialog.                                                         *)
(***************************************************************************)

Orders == {o \in [1..Cardinality(Sources) -> Sources] :
              \A i, j \in DOMAIN o : o[i] = o[j] => i = j}

\* Mutant: the sources stay in the order the tab was built in.
OrdersOf_AsBuilt(config) == {[i \in 1..Cardinality(Sources) |-> i - 1]}

\* The sources by priority; std::sort leaves those of one priority in any order.
OrdersOf(config) ==
    {o \in Orders : \A i, j \in DOMAIN o :
        i < j => config["priorities"][o[i]] <= config["priorities"][o[j]]}

\* A value the combo box does not have selects its second item.
IntervalShown(config) ==
    IF config["interval"] \in Intervals THEN config["interval"] ELSE SecondInterval

\* What the widgets show of a configuration, and which of them the user changed.
loadFromConfig(config) ==
    \E order \in OrdersOf(config) :
        dialog' = [order |-> order, interval |-> IntervalShown(config),
                   theme |-> config["theme"], edited |-> {}]

\* exec(): the dialog is modal.
openSettings ==
    /\ dialog = Closed
    /\ loadFromConfig(config_)
    /\ UNCHANGED <<file, config_, loaded, cliLoading>>

editSettings ==
    /\ dialog # Closed
    /\ \/ \E order \in Orders \ {dialog.order} :
             dialog' = [dialog EXCEPT !.order = order, !.edited = @ \cup {"priorities"}]
       \/ \E minutes \in Intervals \ {dialog.interval} :
             dialog' = [dialog EXCEPT !.interval = minutes, !.edited = @ \cup {"interval"}]
       \/ \E mode \in Themes \ {dialog.theme} :
             dialog' = [dialog EXCEPT !.theme = mode, !.edited = @ \cup {"theme"}]
    /\ UNCHANGED <<file, config_, loaded, cliLoading>>

\* A source's priority becomes its row.
Rows(order) == [s \in Sources |-> (CHOOSE i \in DOMAIN order : order[i] = s) - 1]

saveToConfig ==
    LET ranked == setValue(config_, "priorities", Rows(dialog.order))
        timed  == setCheckIntervalMinutes(ranked, dialog.interval)
    IN  config_' = setValue(timed, "theme", dialog.theme) /\ Save(config_')

acceptSettings ==
    /\ dialog # Closed
    /\ saveToConfig
    /\ dialog' = Closed
    /\ UNCHANGED <<loaded, cliLoading>>

rejectSettings ==
    /\ dialog # Closed
    /\ dialog' = Closed
    /\ UNCHANGED <<file, config_, loaded, cliLoading>>

\* resetToDefaults saves at once, whether or not the dialog is accepted later.
resetSettings ==
    /\ dialog # Closed
    /\ config_' = DefaultConfig
    /\ Save(DefaultConfig)
    /\ loadFromConfig(DefaultConfig)
    /\ loaded' = (file' = DefaultConfig)
    /\ UNCHANGED cliLoading

\* The appearance menu of the window, which does not save.
setThemeMode(mode) ==
    /\ dialog = Closed
    /\ mode # config_["theme"]
    /\ config_' = setValue(config_, "theme", mode)
    /\ UNCHANGED <<file, loaded, dialog, cliLoading>>

-----------------------------------------------------------------------------
(***************************************************************************)
(* Properties.                                                             *)
(***************************************************************************)

Widgets == [order : Orders, interval : Intervals, theme : Themes,
            edited : SUBSET {"priorities", "interval", "theme"}]

ConfigurationTypeOK ==
    /\ IsConfiguration(config_) /\ DOMAIN config_ = ConfigKeys
    /\ Readable => IsConfiguration(file)
    /\ loaded \in BOOLEAN
    /\ cliLoading \in BOOLEAN
    /\ dialog # Closed => dialog \in Widgets

=============================================================================
