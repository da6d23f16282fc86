----------------------------- MODULE SettingsPage -----------------------------
(***************************************************************************)
(* The General Settings page (Settings/index.tsx): SettingsButton opens   *)
(* it, and the page renders the rows-per-page control (RowsPerPage,       *)
(* instanced over the same variables) beside its own timezone state.      *)
(* selectedTimezone starts from the stored timezone or the browser's, and *)
(* a passive effect on [selectedTimezone] writes it to the settings       *)
(* store.  The version button raises the version dialog.                  *)
(*                                                                         *)
(* setAppSettings (not under src/) is taken to merge the keys it is given *)
(* into the settings: the rows control and the timezone each write their  *)
(* own key.  The language and theme rows are components not under src/.  *)
(***************************************************************************)
EXTENDS Integers, Sequences, SequencesExt

CONSTANTS
  DefaultOptions, Typed, NaN, Null,  \* as in RowsPerPage
  Timezones,      \* timezone names TimezoneSelect offers
  BrowserTz,      \* Intl.DateTimeFormat().resolvedOptions().timeZone
  NoTz            \* settings.timezone not set yet; no page mounted

ASSUME BrowserTz \in Timezones

VARIABLES
  storeOptions, stored, mounted, options, selected, customValue, error,
  isSelectOpen, optionsDirty, selectedDirty,   \* RowsPerPage's
  storeTz,        \* settings.timezone in the Redux store
  selectedTz,     \* selectedTimezone (NoTz while the page is not mounted)
  tzDirty,        \* the [selectedTimezone] effect is due
  versionDialog   \* the version dialog's open flag

Rows == INSTANCE RowsPerPage

rowVars == <<storeOptions, stored, mounted, options, selected, customValue,
             error, isSelectOpen, optionsDirty, selectedDirty>>
tzVars == <<storeTz, selectedTz, tzDirty>>
vars == <<rowVars, tzVars, versionDialog>>

TypeOK ==
  /\ Rows!TypeOK
  /\ storeTz \in Timezones \cup {NoTz}
  /\ selectedTz \in Timezones \cup {NoTz}
  /\ tzDirty \in BOOLEAN /\ versionDialog \in BOOLEAN

Init ==
  /\ Rows!Init
  /\ storeTz \in Timezones \cup {NoTz}
  /\ selectedTz = NoTz
  /\ tzDirty = FALSE
  /\ versionDialog = FALSE

\* useState(storedTimezone || browser timezone).
InitialTimezone(tz) == IF tz = NoTz THEN BrowserTz ELSE tz

\* SettingsButton's onClick: history.push to the settings route, which
\* renders Settings; the rows control mounts with the stored options.  The
\* page's effects all run after this first commit.
Open ==
  /\ Rows!Mount
  /\ selectedTz' = InitialTimezone(storeTz)
  /\ tzDirty' = TRUE
  /\ UNCHANGED <<storeTz, versionDialog>>

\* The page is left; React flushes every pending passive effect first.
Leave ==
  /\ Rows!Unmount /\ ~tzDirty
  /\ selectedTz' = NoTz
  /\ UNCHANGED <<storeTz, tzDirty, versionDialog>>

\* TimezoneSelect's onChange: setSelectedTimezone(name).
ChooseTimezone(tz) ==
  /\ mounted /\ Rows!Quiet /\ ~tzDirty
  /\ selectedTz' = tz
  /\ tzDirty' = (tz # selectedTz)
  /\ UNCHANGED <<rowVars, storeTz, versionDialog>>

\* useEffect(..., [selectedTimezone]): setAppSettings({timezone}).
TimezoneEffect ==
  /\ mounted /\ tzDirty
  /\ storeTz' = selectedTz
  /\ tzDirty' = FALSE
  /\ UNCHANGED <<rowVars, selectedTz, versionDialog>>

\* The header's version button: dispatch(setVersionDialogOpen(true)).
OpenVersionDialog ==
  /\ mounted /\ Rows!Quiet /\ ~tzDirty
  /\ versionDialog' = TRUE
  /\ UNCHANGED <<rowVars, tzVars>>

\* The version dialog is closed by its own component (not under src/).
CloseVersionDialog ==
  /\ versionDialog
  /\ versionDialog' = FALSE
  /\ UNCHANGED <<rowVars, tzVars>>

\* The rows control's effects, and its user events (which, as every
\* discrete event, find the timezone effect flushed).
RowsEffect == (Rows!OptionsEffect \/ Rows!SelectedEffect) /\ UNCHANGED <<tzVars, versionDialog>>
RowsEvent ==
  /\ ~tzDirty
  /\ \/ Rows!HandleOpen \/ Rows!HandleClose
     \/ \E v \in Rows!Defaults \cup Typed \cup {Rows!Custom} : Rows!HandleChange(v)
     \/ \E o \in Typed : Rows!DeleteInMenu(o)
     \/ \E x \in Typed \cup {NaN} : Rows!CustomChange(x)
     \/ Rows!Apply \/ Rows!DeleteCustom
  /\ UNCHANGED <<tzVars, versionDialog>>

Next ==
  \/ Open \/ Leave \/ RowsEffect \/ RowsEvent
  \/ \E tz \in Timezones : ChooseTimezone(tz)
  \/ TimezoneEffect \/ OpenVersionDialog \/ CloseVersionDialog

Spec == Init /\ [][Next]_vars
          /\ WF_vars(Rows!OptionsEffect /\ UNCHANGED <<tzVars, versionDialog>>)
          /\ WF_vars(Rows!SelectedEffect /\ UNCHANGED <<tzVars, versionDialog>>)
          /\ WF_vars(TimezoneEffect)

(***************************************************************************)
(* Properties.                                                             *)
(***************************************************************************)

\* The rows control's properties, over the page.  Whenever the control has
\* settled, the rows-per-page value persisted in localStorage is one the
\* settings store offers (RowsPerPage's PersistedOffered).
PersistedOffered == Rows!PersistedOffered

\* Every option the settings store holds is a default or a custom value
\* within [5, 1000] (RowsPerPage's CustomOptionsInRange).
CustomOptionsInRange == Rows!CustomOptionsInRange

====
