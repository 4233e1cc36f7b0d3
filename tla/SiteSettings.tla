---------------------------- MODULE SiteSettings ----------------------------
(***************************************************************************)
(* The settings of one site and the people who edit them                   *)
(* (SiteRegistry.update_settings, update_home_page).  A page loads all of  *)
(* them with two revisions: that of the settings, which votes (Social) and *)
(* Git (GitSource) raise as well, and that of the welcome text.            *)
(***************************************************************************)
EXTENDS Integers

CONSTANTS
    Editors,        \* open pages of the owner
    MaxRevisions,   \* bound: changes of the settings
    MaxTexts,       \* bound: welcome texts
    Unloaded        \* a page that shows nothing yet

Values == 0..2

Loaded == [rev: 1..MaxRevisions, welcome: 1..MaxTexts, look: Values, home: Values]

ASSUME SettingsAssumption ==
    /\ MaxRevisions \in Nat \ {0} /\ MaxTexts \in Nat \ {0}
    /\ Unloaded \notin Loaded

VARIABLES
    site,           \* sites, and the current revision of the welcome text
    texts,          \* welcome texts so far: ids are never reused
    git,            \* welcome_source is "git"
    supported,      \* someone is subscribed to the welcome text
    form            \* what each page has loaded

settings == <<site, texts, git, supported, form>>

SettingsOK ==
    /\ site \in Loaded /\ texts \in 1..MaxTexts
    /\ git \in BOOLEAN /\ supported \in BOOLEAN
    /\ form \in [Editors -> Loaded \cup {Unloaded}]

SettingsInit ==
    /\ site = [rev |-> 1, welcome |-> 1, look |-> 0, home |-> 0]
    /\ texts = 1 /\ git = FALSE /\ supported = FALSE
    /\ form = [e \in Editors |-> Unloaded]

Load(e) ==
    /\ form' = [form EXCEPT ![e] = site]
    /\ UNCHANGED <<site, texts, git, supported>>

(* expected_settings_revision and expected_welcome_revision. *)
Current(f) == f # Unloaded /\ f.rev = site.rev /\ f.welcome = site.welcome

(* The page gets the new state as the answer. *)
Saved(e, s) ==
    /\ site' = s
    /\ form' = [form EXCEPT ![e] = s]

(* Name and theme, and the welcome text unless it is as before. *)
UpdateSettings(e, look, edited) ==
    /\ Current(form[e]) /\ ~git
    /\ look # site.look \/ edited
    /\ edited => ~supported /\ texts < MaxTexts
    /\ site.rev < MaxRevisions
    /\ texts' = IF edited THEN texts + 1 ELSE texts
    /\ Saved(e, [site EXCEPT !.look = look, !.rev = @ + 1, !.welcome = texts'])
    /\ UNCHANGED <<git, supported>>

(* Fault: the home page does not count as one of the settings. *)
WithHomeUncounted(s, home) == [s EXCEPT !.home = home]

WithHome(s, home) == [s EXCEPT !.home = home, !.rev = @ + 1]

UpdateHomePage(e, home) ==
    /\ form[e] # Unloaded /\ form[e].rev = site.rev
    /\ home # site.home
    /\ site.rev < MaxRevisions
    /\ Saved(e, WithHome(site, home))
    /\ UNCHANGED <<texts, git, supported>>

(* A proposal is adopted. *)
Adopt ==
    /\ ~git /\ supported
    /\ texts < MaxTexts /\ site.rev < MaxRevisions
    /\ texts' = texts + 1
    /\ site' = [site EXCEPT !.welcome = texts', !.rev = @ + 1]
    /\ UNCHANGED <<git, supported, form>>

(* root_publish.apply: the source takes the welcome text over, replaces it or *)
(* brings other points of the site.                                           *)
Publish ==
    /\ texts < MaxTexts /\ site.rev < MaxRevisions
    /\ texts' \in IF git THEN {texts, texts + 1} ELSE {texts + 1}
    /\ site' = [site EXCEPT !.welcome = texts', !.rev = @ + 1]
    /\ git' = TRUE
    /\ UNCHANGED <<supported, form>>

Support ==
    /\ supported' = ~supported
    /\ UNCHANGED <<site, texts, git, form>>

SettingsNext ==
    \/ \E e \in Editors :
        \/ Load(e)
        \/ \E v \in Values :
            UpdateHomePage(e, v) \/ \E edited \in BOOLEAN : UpdateSettings(e, v, edited)
    \/ Adopt \/ Publish \/ Support

SettingsSpec == SettingsInit /\ [][SettingsNext]_settings
-----------------------------------------------------------------------------
(* A page replaces a look, a home page or a welcome text only if it shows  *)
(* the very one it replaces: no other page's, vote's or source's change is *)
(* lost (update_settings, update_home_page).                               *)
NothingOverwritten ==
    [][\A e \in Editors : form'[e] # form[e] /\ site' # site =>
          /\ site'.look # site.look => form[e].look = site.look
          /\ site'.home # site.home => form[e].home = site.home
          /\ site'.welcome # site.welcome => form[e].welcome = site.welcome]_settings
=============================================================================
