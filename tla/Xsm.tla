-------------------------------- MODULE Xsm --------------------------------
(***************************************************************************)
(* The XSETTINGS manager of evoke (evoke/Xsm.cpp) over its whole life:     *)
(* EvokeService::start_xsettings_manager, the D-Bus calls it serves while  *)
(* the session runs, and stop_xsettings_manager.                           *)
(*                                                                         *)
(* The manager owns no file alone.  It rewrites the user's ~/.Xdefaults    *)
(* when it starts (xresource_replace), keeps the original beside it in     *)
(* ~/.Xdefaults.saved, and is to put it back when it stops                 *)
(* (xresource_undo); it rewrites ede-settings.conf when it stops.  Both    *)
(* take several system calls; a step of this module is one of them, so     *)
(* that a crash, the user's editor or a D-Bus call can fall between two.   *)
(***************************************************************************)
EXTENDS Integers, FiniteSets

CONSTANTS
    Names,        \* names of settings
    ColorNames,   \* the names listed in resource_map
    Values,       \* values of settings
    Colors,       \* the values of type XSETTINGS_TYPE_COLOR
    Quoted,       \* string values with a character XML wants escaped
    Unset,        \* "this name is not in the list of settings"
    UserText,     \* what the user may have written in ~/.Xdefaults
    NoText,       \* nothing of the user's
    NoFile,       \* "there is no such file"
    NoConf,       \* "there is no ede-settings.conf in the home directory"
    Garbled,      \* an ede-settings.conf TinyXML refuses
    NoProp,       \* the X property was never set
    SysConf,      \* the settings shipped system-wide
    Disturb       \* what else may happen in a run: see Disturbances

Disturbances == {"crash", "flush", "edit", "unwritable"}

(* The settings: a list keyed by name; order plays no role here.           *)
Settings == [Names -> Values \cup {Unset}]
Empty == [n \in Names |-> Unset]

ASSUME NamesAssumption ==
    /\ ColorNames \subseteq Names
    /\ Colors \subseteq Values
    /\ Quoted \subseteq Values \ Colors
    /\ Unset \notin Values
    /\ Disturb \subseteq Disturbances

(* A file of X resources: the user's lines and the colours evoke added.    *)
File == [text : UserText \cup {NoText}, ede : SUBSET ColorNames]

ASSUME MarkerAssumption ==
    /\ NoFile \notin File
    /\ NoConf \notin Settings
    /\ Garbled \notin Settings
    /\ NoProp \notin Settings
    /\ NoConf # Garbled
    /\ SysConf \in (Settings \ {Empty}) \cup {NoConf}

VARIABLES
    pc,         \* where evoke is: see Places
    after,      \* where save_serialized() returns to
    lock,       \* the lock file of evoke exists
    xdefaults,  \* ~/.Xdefaults
    saved,      \* ~/.Xdefaults.saved, the backup
    tmp,        \* ~/.Xdefaults.tmp
    existed,    \* xresource_replace()'s local "status"
    conf,       \* the user's ede-settings.conf
    settings,   \* manager_data->settings
    prop,       \* the X property on the manager's window
    dbus,       \* dbus_conn is set: the D-Bus calls are served
    orig,       \* history: the user's own ~/.Xdefaults
    marks,      \* history: what disturbed this session
    mine,       \* history: the lines the user last wrote there himself
    left,       \* history: the settings when the manager was last told to stop
    mishaps    \* history: how often something went wrong (2: or more, or Flush)

files == <<xdefaults, saved, tmp>>
ghosts == <<orig, marks, mine, left, mishaps>>
vars == <<pc, after, lock, xdefaults, saved, tmp, existed, conf, settings,
          prop, dbus, orig, marks, mine, left, mishaps>>

OneMoreMishap == mishaps' = IF mishaps = 2 THEN 2 ELSE mishaps + 1

Places == {"off", "loaded", "tmpwritten", "backedup", "serving", "saving",
           "opened", "written", "noxsm"}
Marks == {"crash", "flush", "edit", "unwritable", "unsaved", "leftover"}

TypeOK ==
    /\ pc \in Places
    /\ after \in {"off", "serving", "noxsm"}
    /\ lock \in BOOLEAN
    /\ xdefaults \in File \cup {NoFile}
    /\ saved \in File \cup {NoFile}
    /\ tmp \in File \cup {NoFile}
    /\ existed \in BOOLEAN
    /\ conf \in Settings \cup {NoConf, Garbled}
    /\ settings \in Settings
    /\ prop \in Settings \cup {NoProp}
    /\ dbus \in BOOLEAN
    /\ orig \in File \cup {NoFile}
    /\ marks \in SUBSET Marks
    /\ mine \in UserText \cup {NoText}
    /\ left \in Settings
    /\ mishaps \in 0..2

UserFile == [text : UserText, ede : {{}}] \cup {NoFile}
TextOf(f) == IF f = NoFile THEN NoText ELSE f.text

Init ==
    /\ pc = "off"
    /\ after = "off"
    /\ lock = FALSE
    /\ xdefaults \in UserFile
    /\ saved = NoFile
    /\ tmp = NoFile
    /\ existed = FALSE
    /\ conf = NoConf
    /\ settings = Empty
    /\ prop = NoProp
    /\ dbus = FALSE
    /\ orig = xdefaults
    /\ marks = {}
    /\ mine = TextOf(xdefaults)
    /\ left = Empty
    /\ mishaps = 0

-----------------------------------------------------------------------------
(* Starting                                                                *)


(* Resource::find_config: the file in the home directory hides the system  *)
(* one, readable or not.                                                   *)
FoundConf == IF conf = NoConf THEN SysConf ELSE conf

(* Mutant: the result of LoadFile() is not looked at.                      *)
LoadsUnchecked == TRUE

Loads == FoundConf \in Settings

(* setup_lock() refuses while the lock file is there.                      *)
TakeLock ==
    /\ pc = "off"
    /\ ~lock
    /\ lock' = TRUE
    /\ orig' = xdefaults
    /\ marks' = IF saved # NoFile THEN {"leftover"} ELSE {}

(* Another manager runs and the user does not want it replaced.            *)
StartDeclined ==
    /\ TakeLock
    /\ pc' = "noxsm"
    /\ UNCHANGED <<after, files, existed, conf, settings, prop, dbus, mine, left, mishaps>>

(* init() fails: the manager is deleted, but load_serialized() is called   *)
(* on the NULL pointer all the same.  It returns early when there is no    *)
(* settings file to read, and otherwise dies in its first set().           *)
StartInitFailed ==
    /\ TakeLock
    /\ pc' = IF Loads THEN "off" ELSE "noxsm"
    /\ UNCHANGED <<after, files, existed, conf, settings, prop, dbus, mine, left, mishaps>>

(* load_serialized() reads the settings; what follows is xresource_replace *)
StartLoaded ==
    /\ TakeLock
    /\ Loads
    /\ settings' = FoundConf
    /\ pc' = "loaded"
    /\ UNCHANGED <<after, files, existed, conf, prop, dbus, mine, left, mishaps>>

(* load_serialized() returns false: nothing is replaced, nothing is served *)
(* over D-Bus and the property is never set, but the manager stays.        *)
StartUnloaded ==
    /\ TakeLock
    /\ ~Loads
    /\ pc' = "serving"
    /\ UNCHANGED <<after, files, existed, conf, settings, prop, dbus, mine, left, mishaps>>

(* The colours of resource_map; an entry of another type is skipped.       *)
Mapped == {n \in ColorNames : settings[n] \in Colors}

(* Mutant: the lines already in the file are dropped.                      *)
MergedForgets(f) == [text |-> NoText, ede |-> Mapped]

Merged(f) ==
    IF f = NoFile THEN [text |-> NoText, ede |-> Mapped]
                  ELSE [text |-> f.text, ede |-> f.ede \cup Mapped]

(* XrmCombineFileDatabase + XrmPutFileDatabase; an absent database (no     *)
(* ~/.Xdefaults and no colour) is not written.  Without settings (the      *)
(* return at Xsm.cpp:401) it would do nothing, but a file that was loaded  *)
(* has some: what is saved is never empty, nor is the system's (SysConf).  *)
WriteTmp ==
    /\ pc = "loaded"
    /\ settings # Empty
    /\ existed' = (xdefaults # NoFile)
    /\ tmp' = IF xdefaults = NoFile /\ Mapped = {} THEN tmp ELSE Merged(xdefaults)
    /\ pc' = "tmpwritten"
    /\ UNCHANGED <<after, lock, xdefaults, saved, conf, settings, prop, dbus, ghosts>>

(* Mutant: the file is overwritten without a backup.                       *)
BackupSkipped ==
    /\ pc = "tmpwritten"
    /\ existed' = FALSE
    /\ pc' = "backedup"
    /\ UNCHANGED <<after, lock, files, conf, settings, prop, dbus, ghosts>>

(* rename(from, to) fails, and changes nothing, when there is no "from".   *)
Backup ==
    /\ pc = "tmpwritten"
    /\ IF existed /\ xdefaults # NoFile
         THEN saved' = xdefaults /\ xdefaults' = NoFile
         ELSE UNCHANGED <<saved, xdefaults>>
    /\ existed' = FALSE
    /\ pc' = "backedup"
    /\ UNCHANGED <<after, lock, tmp, conf, settings, prop, dbus, ghosts>>

(* The last rename of xresource_replace(), then xsettings_dbus_serve(),    *)
(* which may fail, and notify(), which sets the property.                  *)
Serve ==
    /\ pc = "backedup"
    /\ IF tmp # NoFile
         THEN xdefaults' = tmp /\ tmp' = NoFile
         ELSE UNCHANGED <<xdefaults, tmp>>
    /\ dbus' \in BOOLEAN
    /\ prop' = settings
    /\ pc' = "serving"
    /\ UNCHANGED <<after, lock, saved, existed, conf, settings, ghosts>>

-----------------------------------------------------------------------------
(* D-Bus calls                                                             *)

Set(n, v) ==
    /\ pc = "serving" /\ dbus
    /\ settings' = [settings EXCEPT ![n] = v]
    /\ prop' = settings'
    /\ UNCHANGED <<pc, after, lock, files, existed, conf, dbus, ghosts>>

(* Mutant: handle_remove() does not notify.                                *)
RemoveSilently(n) ==
    /\ pc = "serving" /\ dbus
    /\ settings' = [settings EXCEPT ![n] = Unset]
    /\ UNCHANGED <<pc, after, lock, files, existed, conf, prop, dbus, ghosts>>

RemoveSetting(n) ==
    /\ pc = "serving" /\ dbus
    /\ settings' = [settings EXCEPT ![n] = Unset]
    /\ prop' = settings'
    /\ UNCHANGED <<pc, after, lock, files, existed, conf, dbus, ghosts>>

Flush ==
    /\ "flush" \in Disturb
    /\ pc = "serving" /\ dbus
    /\ pc' = "saving"
    /\ after' = "serving"
    /\ UNCHANGED <<lock, files, existed, conf, settings, prop, dbus, ghosts>>

-----------------------------------------------------------------------------
(* Stopping                                                                *)

(* SelectionClear: another manager took the screen over.                   *)
Terminate ==
    /\ pc = "serving"
    /\ pc' = "saving"
    /\ after' = "noxsm"
    /\ left' = settings
    /\ UNCHANGED <<lock, files, existed, conf, settings, prop, dbus, orig, marks,
                   mine, mishaps>>

(* ~EvokeService with a manager, and without one.                          *)
Quit ==
    /\ pc = "serving"
    /\ pc' = "saving"
    /\ after' = "off"
    /\ left' = settings
    /\ UNCHANGED <<lock, files, existed, conf, settings, prop, dbus, orig, marks,
                   mine, mishaps>>

QuitNoXsm ==
    /\ pc = "noxsm"
    /\ pc' = "off"
    /\ lock' = FALSE
    /\ UNCHANGED <<after, files, existed, conf, settings, prop, dbus, ghosts>>

(* save_serialized() is over: Flush goes on serving, the others delete the *)
(* manager, and the destructor of the service removes the lock.            *)
SaveReturns ==
    /\ pc' = after
    /\ after' = "off"
    /\ lock' = (lock /\ after # "off")
    /\ settings' = IF after = "serving" THEN settings ELSE Empty
    /\ prop' = IF after = "serving" THEN prop ELSE NoProp
    /\ dbus' = (dbus /\ after = "serving")

(* The property decodes to a list of settings.                             *)
HasProp == prop \in Settings \ {Empty}

(* Nothing to save, or the file cannot be opened: save_serialized()        *)
(* returns before xresource_undo().                                        *)
SaveFails ==
    /\ pc = "saving"
    /\ ~HasProp \/ "unwritable" \in Disturb
    /\ IF prop = NoProp
         THEN UNCHANGED <<marks, mishaps>>
         ELSE /\ marks' = marks \cup {IF HasProp THEN "unwritable" ELSE "unsaved"}
              /\ OneMoreMishap
    /\ left' = Empty
    /\ SaveReturns
    /\ UNCHANGED <<files, existed, conf, orig, mine>>

(* fopen(.., "w") empties the file.                                        *)
OpenConf ==
    /\ pc = "saving"
    /\ HasProp
    /\ conf' = Garbled
    /\ pc' = "opened"
    /\ UNCHANGED <<after, lock, files, existed, settings, prop, dbus, ghosts>>

(* The values are printed unescaped: one with a quote spoils the file.     *)
Saved(s) == IF \E n \in Names : s[n] \in Quoted THEN Garbled ELSE s

WriteConf ==
    /\ pc = "opened"
    /\ conf' = Saved(prop)
    /\ pc' = "written"
    /\ UNCHANGED <<after, lock, files, existed, settings, prop, dbus, ghosts>>

(* xresource_undo(): rename the backup over ~/.Xdefaults, or remove        *)
(* ~/.Xdefaults when there is no backup.                                   *)
Undo ==
    /\ pc = "written"
    /\ xdefaults' = saved
    /\ saved' = NoFile
    /\ IF after = "serving"
         THEN marks' = marks \cup {"flush"} /\ mishaps' = 2
         ELSE UNCHANGED <<marks, mishaps>>
    /\ SaveReturns
    /\ UNCHANGED <<tmp, existed, conf, orig, mine, left>>

-----------------------------------------------------------------------------
(* The surroundings                                                        *)

(* The process dies; the files and the lock stay as they are.              *)
Crash ==
    /\ "crash" \in Disturb
    /\ pc # "off"
    /\ pc' = "off"
    /\ settings' = Empty
    /\ prop' = NoProp
    /\ dbus' = FALSE
    /\ after' = "off"
    /\ existed' = FALSE
    /\ marks' = marks \cup {"crash"}
    /\ left' = Empty
    /\ OneMoreMishap
    /\ UNCHANGED <<lock, files, conf, orig, mine>>

(* The user removes the lock a crash left behind (or reboots).             *)
RemoveStaleLock ==
    /\ pc = "off"
    /\ lock
    /\ lock' = FALSE
    /\ UNCHANGED <<pc, after, files, existed, conf, settings, prop, dbus, ghosts>>

(* The user rewrites or removes ~/.Xdefaults.  While no manager runs this  *)
(* is the user's own file; otherwise it is an edit of the one evoke made.  *)
UserEdits(f) ==
    /\ xdefaults' = f
    /\ IF pc \in {"off", "noxsm"}
         THEN orig' = f /\ mine' = TextOf(f) /\ UNCHANGED <<marks, mishaps>>
         ELSE /\ "edit" \in Disturb
              /\ marks' = marks \cup {"edit"}
              /\ mishaps' = 2
              /\ UNCHANGED <<orig, mine>>
    /\ UNCHANGED <<pc, after, lock, saved, tmp, existed, conf, settings, prop,
                   dbus, left>>

Next ==
    \/ StartDeclined \/ StartInitFailed \/ StartLoaded \/ StartUnloaded
    \/ WriteTmp \/ Backup \/ Serve
    \/ \E n \in Names : RemoveSetting(n) \/ \E v \in Values : Set(n, v)
    \/ Flush \/ Terminate \/ Quit \/ QuitNoXsm
    \/ SaveFails \/ OpenConf \/ WriteConf \/ Undo
    \/ Crash \/ RemoveStaleLock
    \/ \E f \in UserFile : UserEdits(f)

Spec == Init /\ [][Next]_vars
-----------------------------------------------------------------------------
(* Properties                                                              *)

(* When the manager is gone, ~/.Xdefaults is again the file it found, or   *)
(* absent if it found none - unless the session crashed, was flushed, had  *)
(* the file edited under it, or could not save (xresource_replace and      *)
(* xresource_undo are inverse over a whole session).                       *)
RestoredAfterQuit ==
    pc \in {"off", "noxsm"} /\ marks = {} => xdefaults = orig

(* No single mishap - a crash at any point, or a session that ends without *)
(* saving - and no number of restarts after it lose what the user wrote:   *)
(* his lines are in ~/.Xdefaults or in the backup.  (Two in a row can lose *)
(* it; a Flush, or an edit during a session, counts for two.)              *)
TextSurvives ==
    mishaps <= 1 /\ mine # NoText => mine \in {TextOf(xdefaults), TextOf(saved)}

(* After an orderly end the settings file holds the settings as they were  *)
(* when the manager was told to stop, whichever calls set or removed them. *)
Durable ==
    pc = "off" /\ left # Empty /\ (\A n \in Names : left[n] \notin Quoted)
        => conf = left

(* The comment at Xsm.cpp:396: "After evoke quits, file is restored, if    *)
(* existed before or deleted if not."                                      *)
FileRestored == pc = "off" /\ marks \subseteq {"flush"} => xdefaults = orig
=============================================================================
