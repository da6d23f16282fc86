------------------------------ MODULE TopBarMenus ------------------------------
(***************************************************************************)
(* PureTopBar's two menus (TopBar.tsx) and the pages they lead to.  The    *)
(* user menu is open while anchorEl is set and is rendered only in a       *)
(* cluster's context; the mobile menu is open while mobileMoreAnchorEl is  *)
(* set and is rendered only while the window is small.  Their items log   *)
(* out, open the General Settings page (SettingsPage, instanced over the  *)
(* same variables) and raise the version dialog, which the page's own     *)
(* version button raises too.                                             *)
(*                                                                         *)
(* An open Menu is modal: while one is shown, only its own items can be   *)
(* clicked.  The window width (useMediaQuery) and navigation by other      *)
(* means (the sidebar, the page's back link, the cluster chooser) are the  *)
(* environment.  The settings route is outside any cluster (lib/router,    *)
(* not under src/).  The menu items reach the screen through              *)
(* processAppBarActions, modelled in Pipeline; here they are all shown.    *)
(***************************************************************************)
EXTENDS Integers, Sequences, SequencesExt

CONSTANTS DefaultOptions, Typed, NaN, Null, Timezones, BrowserTz, NoTz

Routes == {"cluster", "home", "settings"}
Anchors == {"none", "desktop", "mobile"}   \* the element anchorEl holds

VARIABLES
  storeOptions, stored, mounted, options, selected, customValue, error,
  isSelectOpen, optionsDirty, selectedDirty, storeTz, selectedTz, tzDirty,
  versionDialog,   \* SettingsPage's
  route,           \* the current route
  isSmall,         \* useMediaQuery(theme.breakpoints.down('sm'))
  anchorEl,        \* the user menu's anchor
  mobileOpen,      \* mobileMoreAnchorEl # null
  hasToken         \* a token is stored for the cluster

Page == INSTANCE SettingsPage

pageVars == <<storeOptions, stored, mounted, options, selected, customValue,
              error, isSelectOpen, optionsDirty, selectedDirty, storeTz,
              selectedTz, tzDirty, versionDialog>>
menuVars == <<anchorEl, mobileOpen>>
vars == <<pageVars, route, isSmall, menuVars, hasToken>>

TypeOK ==
  /\ Page!TypeOK
  /\ route \in Routes /\ isSmall \in BOOLEAN
  /\ anchorEl \in Anchors /\ mobileOpen \in BOOLEAN /\ hasToken \in BOOLEAN

\* The app starts on a page other than Settings, with no menu open.
Init ==
  /\ Page!Init
  /\ route \in {"cluster", "home"}
  /\ isSmall \in BOOLEAN
  /\ anchorEl = "none" /\ mobileOpen = FALSE
  /\ hasToken \in BOOLEAN

\* renderUserMenu = isClusterContext && <Menu open={Boolean(anchorEl)}>.
UserMenuShown == route = "cluster" /\ anchorEl # "none"

\* {isSmall && renderMobileMenu}, open={Boolean(mobileMoreAnchorEl)}.
MobileMenuShown == isSmall /\ mobileOpen

MenuShown == UserMenuShown \/ MobileMenuShown

\* handleMenuClose: setAnchorEl(null) and handleMobileMenuClose().
HandleMenuClose == anchorEl' = "none" /\ mobileOpen' = FALSE

\* history.push(settings): the page mounts, unless it is already shown.
GoToSettings ==
  /\ route' = "settings"
  /\ IF mounted THEN UNCHANGED pageVars ELSE Page!Open

\* Desktop bar (not small, no menu over it).
DesktopBar == ~isSmall /\ ~MenuShown

\* The desktop USER button (in a cluster): handleProfileMenuOpen.
OpenUserMenu ==
  /\ DesktopBar /\ route = "cluster"
  /\ anchorEl' = "desktop"
  /\ UNCHANGED <<pageVars, route, isSmall, mobileOpen, hasToken>>

\* The 'show more' button: handleMobileMenuOpen.
OpenMobileMenu ==
  /\ isSmall /\ ~MenuShown
  /\ mobileOpen' = TRUE
  /\ UNCHANGED <<pageVars, route, isSmall, anchorEl, hasToken>>

\* The mobile menu's USER item: handleMenuClose(); handleProfileMenuOpen().
MobileUserClick ==
  /\ MobileMenuShown /\ ~UserMenuShown /\ route = "cluster"
  /\ anchorEl' = "mobile" /\ mobileOpen' = FALSE
  /\ UNCHANGED <<pageVars, route, isSmall, hasToken>>

\* The user menu's onClose: handleMenuClose(); handleMobileMenuClose().
CloseUserMenu ==
  /\ UserMenuShown
  /\ HandleMenuClose
  /\ UNCHANGED <<pageVars, route, isSmall, hasToken>>

\* The mobile menu's onClose: handleMobileMenuClose.
CloseMobileMenu ==
  /\ MobileMenuShown /\ ~UserMenuShown
  /\ mobileOpen' = FALSE
  /\ UNCHANGED <<pageVars, route, isSmall, anchorEl, hasToken>>

\* The mobile menu's cluster title and notifications items: handleMenuClose.
MobileItemClick ==
  /\ MobileMenuShown /\ ~UserMenuShown
  /\ HandleMenuClose
  /\ UNCHANGED <<pageVars, route, isSmall, hasToken>>

\* The desktop cluster title: handleMobileMenuClose.
DesktopClusterTitle ==
  /\ DesktopBar
  /\ mobileOpen' = FALSE
  /\ UNCHANGED <<pageVars, route, isSmall, anchorEl, hasToken>>

\* logout(): setToken(cluster, null) in a cluster, then history.push('/').
logout == hasToken' = FALSE /\ route' = "home"

\* The user menu's "Log out" item (disabled without a token).
LogOut ==
  /\ UserMenuShown /\ hasToken
  /\ logout /\ HandleMenuClose
  /\ UNCHANGED <<pageVars, isSmall>>

\* The user menu's "General Settings" item.
UserMenuSettings ==
  /\ UserMenuShown
  /\ GoToSettings /\ HandleMenuClose
  /\ UNCHANGED <<isSmall, hasToken>>

\* The mobile menu's SettingsButton, onClickExtra = handleMenuClose.
MobileSettings ==
  /\ MobileMenuShown /\ ~UserMenuShown
  /\ GoToSettings /\ HandleMenuClose
  /\ UNCHANGED <<isSmall, hasToken>>

\* The desktop bar's SettingsButton, onClickExtra = handleMenuClose.
DesktopSettings ==
  /\ DesktopBar
  /\ GoToSettings /\ HandleMenuClose
  /\ UNCHANGED <<isSmall, hasToken>>

\* The user menu's version item: setVersionDialogOpen(true); handleMenuClose.
UserMenuVersion ==
  /\ UserMenuShown
  /\ versionDialog' = TRUE /\ HandleMenuClose
  /\ UNCHANGED <<storeOptions, stored, mounted, options, selected, customValue,
                 error, isSelectOpen, optionsDirty, selectedDirty, storeTz,
                 selectedTz, tzDirty, route, isSmall, hasToken>>

(***************************************************************************)
(* The environment and the page.                                          *)
(***************************************************************************)

\* The window crosses the 'sm' breakpoint.
Resize ==
  /\ isSmall' = ~isSmall
  /\ UNCHANGED <<pageVars, route, menuVars, hasToken>>

\* Navigation by the sidebar, the page's back link or the cluster chooser;
\* leaving Settings unmounts the page.
Navigate(r) ==
  /\ ~MenuShown /\ r # route
  /\ route' = r
  /\ IF mounted THEN Page!Leave ELSE UNCHANGED pageVars
  /\ UNCHANGED <<isSmall, menuVars, hasToken>>

\* A token is set up for the cluster (the login page, not under src/).
SetToken ==
  /\ route = "cluster" /\ ~hasToken /\ ~MenuShown
  /\ hasToken' = TRUE
  /\ UNCHANGED <<pageVars, route, isSmall, menuVars>>

\* The page's effects run whatever is shown; its controls take clicks only
\* when no menu covers them.
PageStep ==
  /\ \/ Page!RowsEffect \/ Page!TimezoneEffect \/ Page!CloseVersionDialog
     \/ ~MenuShown /\ \/ Page!RowsEvent \/ Page!OpenVersionDialog
                      \/ \E tz \in Timezones : Page!ChooseTimezone(tz)
  /\ UNCHANGED <<route, isSmall, menuVars, hasToken>>

Next ==
  \/ OpenUserMenu \/ OpenMobileMenu \/ MobileUserClick
  \/ CloseUserMenu \/ CloseMobileMenu \/ MobileItemClick \/ DesktopClusterTitle
  \/ LogOut \/ UserMenuSettings \/ MobileSettings \/ DesktopSettings
  \/ UserMenuVersion
  \/ Resize \/ \E r \in {"cluster", "home"} : Navigate(r)
  \/ SetToken \/ PageStep

Spec == Init /\ [][Next]_vars
          /\ WF_vars(Page!RowsEffect) /\ WF_vars(Page!TimezoneEffect)

(***************************************************************************)
(* Properties.                                                             *)
(***************************************************************************)

\* SettingsPage's properties, over the whole app bar.
\* The persisted rows-per-page value is offered once the control settles.
PersistedOffered == Page!PersistedOffered

\* Custom rows-per-page options are within [5, 1000].
CustomOptionsInRange == Page!CustomOptionsInRange

====
