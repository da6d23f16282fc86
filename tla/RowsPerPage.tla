----------------------------- MODULE RowsPerPage -----------------------------
(***************************************************************************)
(* NumberOfRowsForTablesInputComponent (Settings/index.tsx): the setting  *)
(* of how many rows a table shows per page.  The component keeps the      *)
(* offered options, the selected value (-1 = "custom", which swaps the    *)
(* Select for a text field), the typed custom value and its error flag.   *)
(* Two passive effects push its state out: the options into the Redux     *)
(* settings (setAppSettings), the selected value into localStorage        *)
(* (helpers.setTablesRowsPerPage).  Both outlive the component: the page  *)
(* can be left and opened again.                                          *)
(***************************************************************************)
EXTENDS Integers, Sequences, SequencesExt

CONSTANTS
  DefaultOptions,  \* defaultTableRowsPerPageOptions, ascending
  Typed,           \* integers a user may type into the custom field
  NaN,             \* parseInt of text that is not a number
  Null             \* no options in the settings yet (undefined)

MinRows == 5
MaxRows == 1000
Custom == -1     \* the Select's "Custom value" item

VARIABLES
  storeOptions,   \* settings.tableRowsPerPageOptions in the Redux store
  stored,         \* localStorage rows-per-page
  mounted,
  options,        \* useState(defaultValue)
  selected,       \* selectedValue
  customValue,    \* customValue (NaN stands for undefined)
  error,          \* errorMessage # ''
  isSelectOpen,
  optionsDirty,   \* the [options] effect is due
  selectedDirty   \* the [selectedValue] effect is due

vars == <<storeOptions, stored, mounted, options, selected, customValue, error,
          isSelectOpen, optionsDirty, selectedDirty>>

Defaults == Range(DefaultOptions)
Offered(opts) == Range(opts)

\* [...new Set([...defaults, customValue])].sort((a, b) => a - b)
WithCustom(c) == SetToSortSeq(Defaults \cup {c}, LAMBDA a, b : a < b)

\* The options a store may hold: none yet, the defaults, or the defaults
\* with one custom value that passed the text field's check.
StoreOptionValues ==
  {Null, DefaultOptions} \cup {WithCustom(c) : c \in {t \in Typed : MinRows <= t /\ t <= MaxRows}}

Init ==
  /\ storeOptions \in StoreOptionValues
  /\ stored \in Defaults \cup Typed
  /\ mounted = FALSE
  /\ options = DefaultOptions
  /\ selected = Head(DefaultOptions)
  /\ customValue = Head(DefaultOptions)
  /\ error = FALSE
  /\ isSelectOpen = FALSE
  /\ optionsDirty = FALSE
  /\ selectedDirty = FALSE

Quiet == ~optionsDirty /\ ~selectedDirty

\* Mutant: the stored value is selected whether or not it is offered.
InitialSelectedNoCheck(opts, val) == val

\* defaultRowsPerPageValue: the stored value if offered, else the first default.
InitialSelected(opts, val) == IF val \in Offered(opts) THEN val ELSE Head(DefaultOptions)

\* storedCustomValue: the first option that is not a default, else the first default.
InitialCustom(opts) ==
  LET cs == {i \in 1..Len(opts) : opts[i] \notin Defaults}
  IN IF cs = {} THEN Head(DefaultOptions)
     ELSE opts[CHOOSE i \in cs : \A j \in cs : i <= j]

\* Settings renders the component with the store's options or the
\* defaults; both effects run after the first render.
Mount ==
  LET opts == IF storeOptions = Null THEN DefaultOptions ELSE storeOptions
  IN /\ ~mounted
     /\ mounted' = TRUE
     /\ options' = opts
     /\ selected' = InitialSelected(opts, stored)
     /\ customValue' = InitialCustom(opts)
     /\ error' = FALSE
     /\ isSelectOpen' = FALSE
     /\ optionsDirty' = TRUE
     /\ selectedDirty' = TRUE
     /\ UNCHANGED <<storeOptions, stored>>

\* The settings page is left; React flushes passive effects before it
\* commits the unmount.
Unmount ==
  /\ mounted /\ Quiet
  /\ mounted' = FALSE
  /\ UNCHANGED <<storeOptions, stored, options, selected, customValue, error,
                 isSelectOpen, optionsDirty, selectedDirty>>

\* useEffect(..., [options]): dispatch(setAppSettings({tableRowsPerPageOptions})).
OptionsEffect ==
  /\ mounted /\ optionsDirty
  /\ storeOptions' = options
  /\ optionsDirty' = FALSE
  /\ UNCHANGED <<stored, mounted, options, selected, customValue, error,
                 isSelectOpen, selectedDirty>>

\* Mutant: the effect without `if (selectedValue !== -1)`.
SelectedEffectNoGuard ==
  /\ mounted /\ selectedDirty
  /\ stored' = selected
  /\ selectedDirty' = FALSE
  /\ UNCHANGED <<storeOptions, mounted, options, selected, customValue, error,
                 isSelectOpen, optionsDirty>>

\* useEffect(..., [selectedValue]): persist unless "custom" is selected.
SelectedEffect ==
  /\ mounted /\ selectedDirty
  /\ stored' = IF selected # Custom THEN selected ELSE stored
  /\ selectedDirty' = FALSE
  /\ UNCHANGED <<storeOptions, mounted, options, selected, customValue, error,
                 isSelectOpen, optionsDirty>>

\* setOptions / setSelectedValue: a passive effect is due when its
\* dependency changed (a new options array always differs).
SetState(opts, sel) ==
  /\ options' = opts
  /\ selected' = sel
  /\ optionsDirty' = (optionsDirty \/ opts # options)
  /\ selectedDirty' = (selectedDirty \/ sel # selected)

\* User events.  React flushes pending passive effects before it handles a
\* discrete event, so each of them starts Quiet.

\* The Select's menu opens and closes (onOpen / onClose).
HandleOpen ==
  /\ mounted /\ Quiet /\ selected # Custom /\ ~isSelectOpen
  /\ isSelectOpen' = TRUE
  /\ UNCHANGED <<storeOptions, stored, mounted, options, selected, customValue,
                 error, optionsDirty, selectedDirty>>

HandleClose ==
  /\ mounted /\ Quiet /\ selected # Custom /\ isSelectOpen
  /\ isSelectOpen' = FALSE
  /\ UNCHANGED <<storeOptions, stored, mounted, options, selected, customValue,
                 error, optionsDirty, selectedDirty>>

\* handleChange: a menu item (an option or "Custom value") is picked,
\* which also closes the menu.
HandleChange(v) ==
  /\ mounted /\ Quiet /\ selected # Custom /\ isSelectOpen
  /\ v \in Offered(options) \cup {Custom}
  /\ SetState(options, v)
  /\ isSelectOpen' = FALSE
  /\ UNCHANGED <<storeOptions, stored, mounted, customValue, error>>

\* The delete icon of a custom option in the open menu.
DeleteInMenu(o) ==
  /\ mounted /\ Quiet /\ selected # Custom /\ isSelectOpen
  /\ o \in Offered(options) \ Defaults
  /\ SetState(DefaultOptions, Head(DefaultOptions))
  /\ isSelectOpen' = FALSE
  /\ UNCHANGED <<storeOptions, stored, mounted, customValue, error>>

\* Mutant: the text field without its range check.
CustomChangeNoCheck(x) ==
  /\ mounted /\ Quiet /\ selected = Custom
  /\ customValue' = x
  /\ error' = IF x # NaN THEN FALSE ELSE error
  /\ UNCHANGED <<storeOptions, stored, mounted, options, selected, isSelectOpen,
                 optionsDirty, selectedDirty>>

\* The text field's onChange with parseInt's result x: an integer is kept
\* and checked against [5, maxRows]; anything else clears the value and
\* leaves the error as it was.
CustomChange(x) ==
  /\ mounted /\ Quiet /\ selected = Custom
  /\ customValue' = x
  /\ error' = IF x # NaN THEN x < 5 \/ x > MaxRows ELSE error
  /\ UNCHANGED <<storeOptions, stored, mounted, options, selected, isSelectOpen,
                 optionsDirty, selectedDirty>>

\* Apply (disabled while the error shows): the defaults plus the custom
\* value, sorted, become the options (a new array), and it is selected.
Apply ==
  /\ mounted /\ Quiet /\ selected = Custom /\ ~error
  /\ customValue # NaN
  /\ options' = WithCustom(customValue)
  /\ selected' = customValue
  /\ optionsDirty' = TRUE /\ selectedDirty' = TRUE
  /\ UNCHANGED <<storeOptions, stored, mounted, customValue, error, isSelectOpen>>

\* The delete icon beside the text field.
DeleteCustom ==
  /\ mounted /\ Quiet /\ selected = Custom
  /\ SetState(DefaultOptions, Head(DefaultOptions))
  /\ UNCHANGED <<storeOptions, stored, mounted, customValue, error, isSelectOpen>>

Next ==
  \/ Mount \/ Unmount \/ OptionsEffect \/ SelectedEffect
  \/ HandleOpen \/ HandleClose
  \/ \E v \in Defaults \cup Typed \cup {Custom} : HandleChange(v)
  \/ \E o \in Typed : DeleteInMenu(o)
  \/ \E x \in Typed \cup {NaN} : CustomChange(x)
  \/ Apply \/ DeleteCustom

\* React flushes passive effects after every commit.
Spec == Init /\ [][Next]_vars /\ WF_vars(OptionsEffect) /\ WF_vars(SelectedEffect)

\* Values are rows-per-page counts: defaults or typed integers.
RowCounts == Defaults \cup Typed

TypeOK ==
  /\ storeOptions \in {Null} \cup Seq(RowCounts)
  /\ stored \in RowCounts /\ mounted \in BOOLEAN
  /\ options \in Seq(RowCounts) /\ selected \in RowCounts \cup {Custom}
  /\ customValue \in RowCounts \cup {NaN}
  /\ error \in BOOLEAN /\ isSelectOpen \in BOOLEAN
  /\ optionsDirty \in BOOLEAN /\ selectedDirty \in BOOLEAN

(***************************************************************************)
(* Properties.                                                             *)
(***************************************************************************)

\* Whenever the control has settled, the rows-per-page value persisted in
\* localStorage is one of the options the settings store offers (across
\* remounts with a stale stored value, custom values, and deletes).
PersistedOffered == mounted /\ Quiet => stored \in Offered(storeOptions)

\* Every option the settings store holds is a default or a custom value
\* within [MinRows, MaxRows]: the text field's error disables Apply.
CustomOptionsInRange ==
  storeOptions # Null =>
    \A o \in Offered(storeOptions) \ Defaults : MinRows <= o /\ o <= MaxRows
====
