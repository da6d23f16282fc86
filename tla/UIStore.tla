------------------------------ MODULE UIStore ------------------------------
(***************************************************************************)
(* The `ui` slice of the Redux store (src/frontend/src/redux/reducers/     *)
(* ui.tsx), the sidebar toggle of the TopBar (TopBar.tsx) and the         *)
(* localStorage "sidebar" preference they share.                          *)
(*                                                                         *)
(* The reducer copies the state shallowly (`{ ...state }`), so the nested *)
(* `views` object (details.headerActions, details.pluginAppendedDetail-   *)
(* Views, appBar.actions) is shared between consecutive states and is     *)
(* written in place.  The model therefore keeps `views` in a heap: a      *)
(* state holds a reference, heap[ref] holds the object.  Ref 0 is the     *)
(* views object of the module-level INITIAL_STATE.                        *)
(***************************************************************************)
EXTENDS Naturals, Sequences, SequencesExt

CONSTANTS
  Keys,         \* sidebar entry names, route paths, app bar action names
  Vals,         \* the entries, routes and app bar actions registered under them
  Ids,          \* ids of detail-view header actions
  Fns,          \* the functions they carry (each registration makes a new one)
  Sections,     \* section names of plugin detail views
  Themes,       \* theme names
  Null,         \* null / undefined
  MaxSections,  \* bound on appended detail views
  MaxRefs       \* bound on views objects allocated (one per reset)

Widths == {"mobile", "medium", "wide"}    \* < xs, xs..md, > md (960px)
HeaderAction == [id : Ids, fn : Fns]
Views == [headerActions : SUBSET HeaderAction,
          sections : Seq(Sections),
          appBarActions : [Keys -> Vals \cup {Null}]]
EmptyViews == [headerActions |-> {}, sections |-> <<>>,
               appBarActions |-> [k \in Keys |-> Null]]

VARIABLES
  ui,         \* the current UIState, with `views` a heap reference
  heap,       \* ref -> views object
  nextRef,    \* next free heap reference
  storage,    \* localStorage "sidebar": Null, or the open flag (!shrink)
  width,      \* window.innerWidth, as a breakpoint
  applied     \* the theme setTheme last applied and persisted

vars == <<ui, heap, nextRef, storage, width, applied>>

\* Mutant: the open state recomputed from the window only.
InitialSidebarOpenIgnoreStore(st, w) == w = "wide"

\* setInitialSidebarOpen(): the stored preference, else open iff wide.
InitialSidebarOpen(st, w) == IF st # Null THEN st ELSE w = "wide"

\* _.cloneDeep(INITIAL_STATE) with the sidebar recomputed, views at `ref`.
InitialState(ref, st, w) ==
  [selected |-> Null, isVisible |-> FALSE,
   isSidebarOpen |-> InitialSidebarOpen(st, w), isSidebarOpenUserSelected |-> Null,
   entries |-> [k \in Keys |-> Null], routes |-> [k \in Keys |-> Null],
   views |-> ref, theme |-> Null]

TypeOK ==
  /\ ui.selected \in Keys \cup {Null}
  /\ ui.isVisible \in BOOLEAN /\ ui.isSidebarOpen \in BOOLEAN
  /\ ui.isSidebarOpenUserSelected \in BOOLEAN \cup {Null}
  /\ ui.entries \in [Keys -> Vals \cup {Null}]
  /\ ui.routes \in [Keys -> Vals \cup {Null}]
  /\ ui.views \in 0..MaxRefs /\ ui.theme \in Themes \cup {Null}
  /\ heap \in [0..MaxRefs -> Views]
  /\ nextRef \in 1..MaxRefs + 1
  /\ storage \in BOOLEAN \cup {Null} /\ width \in Widths
  /\ applied \in Themes \cup {Null}

\* Mutant: the reducer's default state is INITIAL_STATE itself, not a clone.
InitNoClone ==
  /\ storage \in BOOLEAN \cup {Null}
  /\ width \in Widths
  /\ heap = [r \in 0..MaxRefs |-> EmptyViews]
  /\ nextRef = 1
  /\ ui = InitialState(0, storage, width)
  /\ applied = Null

\* Module load: INITIAL_STATE reads the stored preference and the window;
\* the reducer's first state is _.cloneDeep(INITIAL_STATE) (views at ref 1).
Init ==
  /\ storage \in BOOLEAN \cup {Null}
  /\ width \in Widths
  /\ heap = [r \in 0..MaxRefs |-> EmptyViews]
  /\ nextRef = 2
  /\ ui = InitialState(1, storage, width)
  /\ applied = Null

\* One reducer step publishes `new` in place of the current state.
Publish(new) == ui' = new

\* A case that only replaces top-level fields.
Step(new) == Publish(new) /\ UNCHANGED <<heap, nextRef, storage, width, applied>>

\* A case that writes the shared views object in place.
StepViews(field, val) ==
  /\ heap' = [heap EXCEPT ![ui.views][field] = val]
  /\ Publish(ui)
  /\ UNCHANGED <<nextRef, storage, width, applied>>

\* Mutant: `isVisible: action.selected` without the `!!`.
SidebarSetSelectedNoBang(n) == Step([ui EXCEPT !.selected = n, !.isVisible = n])

SidebarSetSelected(n) == Step([ui EXCEPT !.selected = n, !.isVisible = (n # Null)])
SidebarSetVisible(b)  == Step([ui EXCEPT !.isVisible = b])
SidebarSetItem(k, v)  == Step([ui EXCEPT !.entries[k] = v])
RouterSetRoute(k, v)  == Step([ui EXCEPT !.routes[k] = v])

\* headerActions.set(action.action, action.action): keyed by the action.
DetailsViewSetHeaderAction(a) ==
  StepViews("headerActions", heap[ui.views].headerActions \cup {a})

SetDetailsView(s) ==
  /\ Len(heap[ui.views].sections) < MaxSections
  /\ StepViews("sections", Append(heap[ui.views].sections, s))

AppBarSetAction(k, v) ==
  StepViews("appBarActions", [heap[ui.views].appBarActions EXCEPT ![k] = v])

\* UI_THEME_SET, with setTheme(name) persisting and applying the theme.
ThemeSet(t) ==
  /\ Publish([ui EXCEPT !.theme = t])
  /\ applied' = t
  /\ UNCHANGED <<heap, nextRef, storage, width>>

\* UI_RESET_PLUGIN_VIEWS: a fresh clone of INITIAL_STATE, sidebar re-read.
ResetPluginViews ==
  /\ nextRef <= MaxRefs
  /\ heap' = [heap EXCEPT ![nextRef] = heap[0]]
  /\ nextRef' = nextRef + 1
  /\ Publish(InitialState(nextRef, storage, width))
  /\ UNCHANGED <<storage, width, applied>>

\* setWhetherSidebarOpen(open): store {shrink: !open}, then dispatch
\* UI_SIDEBAR_SET_EXPANDED with isSidebarOpenUserSelected = true.
SetWhetherSidebarOpen(open) ==
  /\ storage' = open
  /\ Publish([ui EXCEPT !.isSidebarOpen = open, !.isSidebarOpenUserSelected = TRUE])
  /\ UNCHANGED <<heap, nextRef, width, applied>>

\* What PureTopBar's HeadlampButton shows as open.
DisplayedOpen(s) == IF s.isSidebarOpenUserSelected = Null THEN FALSE ELSE s.isSidebarOpen

\* Mutant: onToggleOpen without the medium-width default.
ToggleOpenPlain ==
  /\ width = "mobile"
  /\ SetWhetherSidebarOpen(~ui.isSidebarOpen)

\* TopBar onToggleOpen; the HeadlampButton is only rendered when isMobile.
ToggleOpen ==
  LET isMedium == width \in {"mobile", "medium"}
      openSideBar == IF isMedium /\ ui.isSidebarOpenUserSelected = Null
                     THEN FALSE ELSE ui.isSidebarOpen
  IN /\ width = "mobile"
     /\ SetWhetherSidebarOpen(~openSideBar)

\* The window is resized.
Resize(w) ==
  /\ width' = w
  /\ UNCHANGED <<ui, heap, nextRef, storage, applied>>

Next ==
  \/ \E n \in Keys \cup {Null} : SidebarSetSelected(n)
  \/ \E b \in BOOLEAN : SidebarSetVisible(b) \/ SetWhetherSidebarOpen(b)
  \/ \E k \in Keys, v \in Vals :
       SidebarSetItem(k, v) \/ RouterSetRoute(k, v) \/ AppBarSetAction(k, v)
  \/ \E a \in HeaderAction : DetailsViewSetHeaderAction(a)
  \/ \E s \in Sections : SetDetailsView(s)
  \/ \E t \in Themes : ThemeSet(t)
  \/ ResetPluginViews
  \/ ToggleOpen
  \/ \E w \in Widths : Resize(w)

Spec == Init /\ [][Next]_vars

(***************************************************************************)
(* Properties.                                                             *)
(***************************************************************************)

NoRegistrations(s, h) ==
  /\ \A k \in Keys : s.entries[k] = Null /\ s.routes[k] = Null
  /\ h[s.views] = EmptyViews

\* Once a sidebar preference is stored, the store's isSidebarOpen agrees
\* with it: across module load, the toggle and plugin-view resets.
PersistedPreferenceRespected == storage # Null => ui.isSidebarOpen = storage

\* Every tap on the mobile HeadlampButton flips what the button shows.
ToggleFlipsDisplayed == [][ToggleOpen => DisplayedOpen(ui') = ~DisplayedOpen(ui)]_vars

\* After UI_RESET_PLUGIN_VIEWS no plugin registration is left, including
\* those written in place into earlier states' shared views object.
ResetClearsRegistries == [][ResetPluginViews => NoRegistrations(ui', heap')]_vars

\* UI_RESET_PLUGIN_VIEWS: "Keep the sidebar folding state in the current
\* one" (ui.tsx:176).  On a mobile-width window, where PureTopBar renders
\* the HeadlampButton, the open state it shows is the same after a reset
\* as before it.
ResetKeepsFolding ==
  [][ResetPluginViews /\ width = "mobile" => DisplayedOpen(ui') = DisplayedOpen(ui)]_vars

\* Spec 3: a published UIState is never mutated afterwards: no step changes
\* the views object of the state it supersedes.
SnapshotsImmutable == [][heap'[ui.views] = heap[ui.views]]_vars

\* Spec 3 and 4.4: detail header actions are keyed by their id.
HeaderActionKeyUnique ==
  \A a, b \in heap[ui.views].headerActions : a.id = b.id => a = b
=============================================================================
