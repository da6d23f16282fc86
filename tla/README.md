# TLA+ models of Headlamp's resource mirror, throttle, plugin pipelines and UI store

This directory holds TLA+ specifications of the stateful parts of the Headlamp
frontend under `src/`, with the TLC configurations that check them.
`PROJECT.json` lists every component, run, mutant, finding and hazard. It also
maps each definition to the source lines it translates.

## The system and how its parts interact

| Part | Source | What it does |
|---|---|---|
| WatchEventApplier | `lib/k8s/api/v2/KubeList.ts` | `KubeList.applyUpdate` folds one watch event (ADDED, MODIFIED, DELETED, ERROR, other) into a list of resources and its `resourceVersion` cursor. |
| ResourceCache | not under `src/` (spec 4.1, 6) | The subscription that feeds watch events to `applyUpdate`, one at a time, from a stream that may reorder or repeat them. |
| ThrottledProjector | `ResourceTable.tsx` `useThrottle` | Passes the list to the table at most about once per interval. It uses a `useEffect`, two refs and a `setTimeout`. |
| Column pipeline | `ResourceTable.tsx` `Table` | Runs the plugins' table-column processors in order, maps column names to columns, and picks the default sorting column. |
| App bar pipeline | `TopBar.tsx` `processAppBarActions`, `AppBarActions` | Runs the plugins' app-bar processors over the default actions and renders the result. |
| UIStateStore | `redux/reducers/ui.tsx` | The `ui` reducer holds the registries (sidebar entries, routes, header actions, detail views, app bar actions), the sidebar state and the theme. |
| Sidebar toggle | `TopBar.tsx` `onToggleOpen`, `PureTopBar` | The mobile Headlamp button. It dispatches `setWhetherSidebarOpen`, which stores the choice in localStorage. |
| TopBar menus | `TopBar.tsx` `PureTopBar`, `logout` | The user menu (log out, General Settings, version) and, on small windows, the mobile menu (cluster title, notifications, settings, user). Each is open while its anchor element is set. |
| Settings page | `App/Settings/index.tsx` | `SettingsButton` opens the General Settings page. The page keeps the selected timezone, and an effect writes it to the settings. It renders the rows-per-page control, whose two effects push its state into the Redux settings and localStorage. |
| Create / Apply button | `common/Resource/CreateButton.tsx` | Keeps the target cluster among the selected clusters with an effect, and launches an Activity dialog whose cluster Select is built from the clusters of that render. |

Data flows as follows:

- Watch events reach the cache through `applyUpdate`.
- `TableFromResourceClass` hands the cached list to `useThrottle`, and the throttled list goes to `Table`.
- `Table` runs the processors that plugins registered in the store.
- The TopBar reads the sidebar state from the `ui` store and writes it back through the reducer and localStorage.
- The TopBar's menus and its desktop `SettingsButton` lead to the Settings page; logging out clears the cluster's token and goes home.

## Modules

- **`KubeList`** is the pure reducer `ApplyUpdate` with its two branches, `UpsertItem` and `DeleteItem`.
  - An item is abstracted to its uid and resourceVersion.
  - `findIndex` becomes `SelectInSeq`, where 0 means not found.
- **`WatchCache`** composes `KubeList` (by `INSTANCE`) with an API server and a transport.
  - The server is the environment. `Create`, `Modify` and `Delete` bump one global revision. A uid is never reused. `WatchError` emits a Status object without uid or version. `Bookmark` is a type outside the switch.
  - The transport is a constant choice per behaviour, from `Transports`. An `ordered` transport delivers the oldest in-flight event. An `unreliable` one delivers any in-flight event and may keep it in flight after delivering it (a duplicate).
  - `Deliver` is one `applyUpdate` of a delivered event.
  - `applied` is a history variable (the order of delivered events), used only by the properties.
- **`Throttle`** models `useThrottle` on a discrete clock.
  - `NewValue` is a re-render with a new list.
  - `RunEffect` is the passive effect. It either emits, or replaces the timer (the previous cleanup's `clearTimeout` included).
  - `Fire` is the timer callback, with the `now` it captured.
  - `Unmount` runs the last cleanup. `Tick` advances the clock.
  - `lastEmit` and `emitCount` are history.
- **`UIStore`** covers every case of the `ui` reducer and `INITIAL_STATE`.
  - The shallow `{ ...state }` copy is made explicit. `views` is a reference into `heap`, and ref 0 is `INITIAL_STATE`'s own views object. The cases for header actions, detail views and app bar actions write that shared object in place (`StepViews`).
  - `ThemeSet` includes `setTheme`'s side effect (`applied`).
  - `ResetPluginViews` is a fresh deep clone with the sidebar recomputed.
  - `SetWhetherSidebarOpen` is the reducer case plus the localStorage write described in spec 5.
  - `ToggleOpen` is TopBar's handler, and `DisplayedOpen` is the button's `open`.
- **`Pipeline`** models processors abstracted to what they do to a list: identity, drop the first element, append a column, return nothing, or throw.
  - `ProcessColumns` and `ProcessAppBarActions` are RECURSIVE translations of the two loops.
  - `RenderTable` adds the column map (with its `throw` on an unknown name), the sort column and the chooser column.
  - `RenderTopBar` adds the `.map` over the processed actions.
  - `OpenChooser` and `CloseChooser` are the column chooser's anchor. A table render that throws unmounts the table, and the open chooser with it.
- **`RowsPerPage`** models `NumberOfRowsForTablesInputComponent`.
  - `Mount` computes the `useMemo` values from the store and localStorage.
  - `OptionsEffect` and `SelectedEffect` are the two passive effects.
  - Every event handler is its own action: menu open/close/change, the delete icon in the menu, the custom field, Apply, and the delete icon beside the field.
  - Because React flushes passive effects before a discrete event, every user action starts with no effect pending (`Quiet`).
- **`SettingsPage`** composes `RowsPerPage` (by `INSTANCE`, over the same variables) with the page around it.
  - `Open` is `SettingsButton`'s navigation. The page renders, `selectedTimezone` starts from the stored timezone or the browser's (`InitialTimezone`), and the rows control mounts (`RowsPerPage`'s `Mount`).
  - `TimezoneEffect` is the effect on `[selectedTimezone]`, and `ChooseTimezone` is `TimezoneSelect`'s `onChange`.
  - `OpenVersionDialog` is the header's version button. `Leave` is navigating away, after React has flushed the page's effects.
  - The rows control's user events also find the timezone effect flushed.
  - `setAppSettings` is not under `src/`. It is taken to merge the key it is given, so the two rows write independent keys.
- **`TopBarMenus`** composes `SettingsPage` (by `INSTANCE`, over the same variables) with `PureTopBar`'s two menus.
  - `anchorEl` is the user menu's anchor (none, the desktop USER button, or the mobile menu's USER item), and `mobileOpen` is `mobileMoreAnchorEl` being set. `UserMenuShown` and `MobileMenuShown` are the render conditions (a cluster's context, a small window).
  - Every handler that sets or clears an anchor is an action: `OpenUserMenu`, `OpenMobileMenu`, `MobileUserClick`, `CloseUserMenu`, `CloseMobileMenu`, `MobileItemClick`, `DesktopClusterTitle`. `HandleMenuClose` is `handleMenuClose`.
  - `LogOut` is the Log out item with `logout` (token cleared, `history.push('/')`). `UserMenuSettings`, `MobileSettings` and `DesktopSettings` navigate to the page (`GoToSettings`, which mounts it through `SettingsPage`'s `Open`). `UserMenuVersion` raises the version dialog.
  - An open Menu is modal, so other clicks require that no menu is shown. The window width (`Resize`), other navigation (`Navigate`, which unmounts the page) and setting a token are the environment. The menus' items are shown whatever the plugins' processors do; the processors are modelled in `Pipeline`.

- **`CreateButton`** models `targetCluster`, its effect on `[clusters]`, and `openActivity`.
  - `OpenActivity` captures the options and value of that render in the launched dialog.
  - `ChooseTarget` is the Select's `onChange`. Whether the re-render brings a new `clusters` array, and so re-runs the effect, depends on `useSelectedClusters`, which is not under `src/`. It is a nondeterministic choice.
  - `SelectClusters` is a new selection, and `CloseActivity` is the dialog's `onClose`. User actions start `Quiet`, as in RowsPerPage.

Each `MC_*` module instantiates one of these with model values and small sets.

## Runs

| Run | Expect | What it shows |
|---|---|---|
| WatchTransports | pass | Over an ordered and an unreliable transport in one run. On the ordered one, after k events its items are the server's objects after k events, at their versions and in creation order (`MirrorsServer`). On both, `UidsUnique` and `CompleteWhenDrained` hold, and applying any received event a second time changes nothing (`ApplyIdempotent`, spec 8). |
| WatchErrorCursor | violation | An ERROR event erases the cursor (`KubeList.ts:59`). |
| ThrottleCore | pass | `EventuallyFresh` and `NeverStale` hold. `FirstDataImmediate`: the loading value and the first real data reach the table as soon as their effect runs, although mount puts `lastEffected` an interval in the future (the `numEffected < 2` boundary). |
| ThrottleSpacing | violation | Two emissions can be less than an interval apart, because the callback uses the stale `now` (`ResourceTable.tsx:73`). |
| UIStoreCore | pass | The stored sidebar preference is respected at load, toggle and reset. Every tap flips the button. A reset leaves no registration, including ones written into shared objects. |
| UISnapshotAliasing | violation | A registration mutates the superseded snapshot's views (`ui.tsx:153`). |
| UIHeaderActionKey | violation | Header actions are keyed by object, not by id (`ui.tsx:152`). |
| UISidebarReset | violation | After the user opens the sidebar on a mobile-width window, a plugin-view reset drops `isSidebarOpenUserSelected`, so the HeadlampButton shows the sidebar closed while it is open (`ui.tsx:177`, against the comment at `ui.tsx:176`). |
| PipelineCore | pass | Every table render is a list of known columns with a sort column inside it, or a throw (`TypeOK`). The run also exercises every registration, render and chooser action that `PipelineFailOpen` relies on. |
| PipelineFailOpen | violation | A throwing or empty processor breaks the render (`ResourceTable.tsx:115`, `TopBar.tsx:54`). |
| TopBarSettings | pass | Over the top bar's menus, window resizes, logout and the page being opened from either menu or the desktop bar, used, left and opened again, the persisted rows-per-page value is always an offered option, and custom options are within [5, 1000]. |
| CreateButtonTarget | violation | The launched dialog keeps offering the clusters of its launch. After the selection changes, a cluster that is no longer selected can be chosen as the target, and nothing resets it (`CreateButton.tsx:86`). |

Every property of a passing run has a mutant in `PROJECT.json`. A mutant is a plausible slip in the code it maps, and TLC finds it violating that property. Examples: dropping the `index !== -1` guard, keeping an old timer, skipping the deep clone of `INITIAL_STATE`, an off-by-one in `numEffected < 2`.

## Bounds and why they suffice

- **WatchCache** uses two uids and 4 server events. That is enough for one object to be created, modified and deleted while another is created, and for errors and bookmarks in between. Deliveries are capped at 4, so the unreliable transport can deliver a duplicate only by leaving a later event undelivered. No symmetry is used: the state space is small enough without it.
- **CreateButton** uses the selections none, `c1`, `c2` and both. The dialog offers a Select only when more than one cluster is selected, so the two-cluster selection is needed for the stale choice.
- **Throttle** uses interval 2, a clock of 8 and 4 values. That covers the two unthrottled emissions, a deferred emission, a timer superseded by a newer value, an emission right after a trailing one, and unmount with a timer pending. `NewValue` stops one interval before the clock's end, so every timer can still fire.
- **UIStore** uses one key per registry, one header-action id with two functions (a re-registration), one section, one theme, every width and stored preference, and room for one reset.
- **Pipeline** allows up to two processors per pipeline, drawn from every kind. The appended columns include `age`, a column object and an unknown name.
- **TopBarSettings** starts in a cluster or at home, with either window width and with or without a token, so both menus, logout and all three ways to the page are reachable. The page uses two timezones, the browser's and another, with the stored timezone unset or either. Its rows control uses two default options. The typed values are 4, 5, 20, 1001 and a default (15), plus text that is not a number. The initial store and localStorage values include a stale value that is not offered.

## Fairness and deadlock

- **WatchCache** has weak fairness on delivery: the cache processes what the transport delivers.
- **Throttle** has weak fairness on `RunEffect`, `Fire` and `Tick`: React runs passive effects, timers fire, and time passes.
- **TopBarMenus**, through **SettingsPage** (its three effects), and **CreateButton** have weak fairness on their effects: React runs passive effects after every commit.
- The other modules check only safety.
- `CHECK_DEADLOCK FALSE` appears only where a bound makes the system stop: the server's event budget in WatchCache, and the clock in Throttle. Once that budget is spent, a quiet cache or idle component is correct.

## Not modelled

- The Activity dialog itself. It is not under `src/`, so the model keeps only what `openActivity` hands it.
- A menu anchored on an element that is no longer in the document. `TopBarMenus` reaches it: the mobile menu's open state outlives its unmount when the window widens, so it reopens on a detached anchor when the window narrows, possibly together with the user menu. The rule this breaks is Material-UI's, not a statement of this program, so no run asserts it; it is recorded as a hazard.
- Cursor monotonicity under reordering. Spec 9 leaves it open whether the cursor should refuse to move back, so no run asserts it.
- The language and theme rows of Settings. They are `LocaleSelect` and `ThemeChangeButton`, which are not under `src/`.
- The data classes (`podDisruptionBudget.ts`, `limitRange.tsx`), the i18n tooling, tests and stories.
- Rendering, translation and styling.
- A Material-UI click that reaches both the delete icon and its menu item. Whether it does depends on that library's event handling, which is not in this repository.
- An abstract specification of the cache with a refinement check. Over the ordered transport `MirrorsServer` already compares every state with the server's collection, and the catch-up half would follow from the delivery fairness the model assumes, not from `applyUpdate`; so the refinement added nothing and was dropped.
- Stale events for one object (an ADDED delivered after its own DELETED). Spec 6 promises a feed ordered per resource, spec 4.1 prescribes appending without a version check, and spec 9 leaves stale-event rejection open, so no run asserts it.
- Properties that only restate one assignment: that nothing is emitted after unmount (the cleanup's `clearTimeout`), that the sort column is the first `age` column (its own definition), that the store holds the selected timezone (the effect's write), and that top-bar navigation closes the menus (each item calls `handleMenuClose`).

## Plan for later sittings

1. **Composition.** Feed `WatchCache`'s list through `Throttle` into `Pipeline`'s table. This only pays off if it finds an interaction that the separate runs miss: the throttle treats values as opaque versions, and the cache's snapshots are complete states of the server (`MirrorsServer`).
2. **Run budget.** Only 12 runs are allowed. New questions should replace or merge runs rather than add to them.
