\* The top bar's user and mobile menus over the cluster, home and General
\* Settings pages: the rows-per-page properties over every way to the page.
CONSTANTS
  DefaultOptions <- MC_DefaultOptions
  Typed <- MC_Typed
  NaN = NaN
  Null = Null
  Timezones = {tzBrowser, tzOther}
  BrowserTz = tzBrowser
  NoTz = NoTz
SPECIFICATION Spec
INVARIANT TypeOK
INVARIANT PersistedOffered
INVARIANT CustomOptionsInRange
