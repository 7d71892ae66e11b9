-------------------------- MODULE BootstrapServices --------------------------
(***************************************************************************)
(* The bootstraps of the services around the media apps: finance, photos,  *)
(* feeds, tools, books, sports, files, the dashboard.                      *)
(***************************************************************************)
EXTENDS Naturals, Sequences, BootstrapSteps

\* The admin: a user is created without a role ("bare") and patched; one that is
\* there and is not an enabled admin is patched.
ActualUser ==
    <<Read("user"), When("user", {"absent"}, IfIs("user", "absent", "bare")),
      When("user", Vals \ {"ok"}, IfDiffers("user"))>>

\* The bank link's setup token, stored while none is.
Simplefin == <<IfMissing("simplefin")>>

\* actual.rs: the server password is set, or it must let the program in; sign-in
\* by Keycloak is enabled when the first answer did not list it.
actual ==
    [fresh |-> [password |-> "absent", user |-> "absent", simplefin |-> "absent", openid |-> "absent"],
     steps |-> <<ReadAll({"password", "openid"}),
                 When("password", {"absent"}, Need("password", {"absent"})),
                 When("password", {"absent"}, IfMissing("password")),
                 Need("password", {"ok"})>>
                 \o ActualUser \o Simplefin \o <<When("openid", {"absent"}, EveryRun("openid"))>>,
     edits |-> {[password |-> "hand"], [user |-> "hand"], [simplefin |-> "hand"], [openid |-> "hand"]},
     goal  |-> [password |-> {"ok"}, user |-> {"ok"}, simplefin |-> Present, openid |-> Present],
     keep  |-> {"password", "simplefin", "openid"},
     stuck |-> [password |-> {"hand"}]]

\* The e2e admin's key: unless the stored one works, the user gets a new password
\* and signs in with it to make a key.
ImmichE2e ==
    <<Read("e2e_key"), When("e2e_key", Vals \ {"ok"}, EveryRun("e2e"))>> \o StoredToken("e2e_key")

\* immich.rs: sign up the admin (a refusal is fine when somebody else just has),
\* sign in, check what the server offers, keep two keys in Secrets.
immich ==
    [fresh |-> [admin |-> "absent", oauth |-> "ok", password_login |-> "ok", key |-> "absent",
                e2e |-> "absent", e2e_key |-> "absent"],
     steps |-> <<IfMissing("admin"), Need("admin", {"ok"}), Need("oauth", {"ok"}), Need("password_login", {"ok"})>>
                 \o StoredToken("key") \o ImmichE2e,
     edits |-> {[admin |-> "hand"], [oauth |-> "absent"], [key |-> "old"],
                [e2e |-> "absent", e2e_key |-> "old"]},
     goal  |-> [admin |-> {"ok"}, oauth |-> {"ok"}, key |-> {"ok"}, e2e_key |-> {"ok"}],
     keep  |-> {"admin"},
     stuck |-> [admin |-> {"hand"}, oauth |-> {"absent"}]]

\* ensure_fever: sign in to the web pages; unless Fever is on, post the whole
\* integrations form back with its fields changed; look again.
MinifluxFever == <<Need("user", {"ok"}), IfDiffers("fever"), Need("fever", {"ok"})>>

\* miniflux.rs: the user is linked to Keycloak when it is made, and only then: an
\* unlinked one ("hand") is an error, one that has lost its rights is put right.
miniflux ==
    [fresh |-> [server |-> "ok", keycloak |-> "ok", user |-> "absent", fever |-> "seed"],
     steps |-> <<Need("server", {"ok"}), Need("keycloak", {"ok"}), Read("user"),
                 When("user", {"absent"}, IfMissing("user")),
                 When("user", Present, Need("user", {"old", "ok"})),
                 When("user", {"old"}, IfDiffers("user"))>>
                 \o MinifluxFever,
     edits |-> {[user |-> "hand"], [user |-> "old"], [fever |-> "hand"], [user |-> "absent", fever |-> "seed"]},
     goal  |-> [user |-> {"ok"}, fever |-> {"ok"}],
     keep  |-> {"user"},
     stuck |-> [user |-> {"hand"}]]

\* virtual_server: every registered tool, resource and prompt, with OAuth.
VirtualServer == <<IfDiffers("vserver")>>
\* sso_provider: made by the server itself; trusted for API tokens.
SsoProvider == <<Need("provider", Present), IfDiffers("provider")>>
\* admin_user: created, or made an admin.
AdminUser == <<IfDiffers("user")>>

\* contextforge.rs: the gateway is told apart by its URL, and must then be enabled
\* and reachable (one somebody disabled is "off").
contextforge ==
    [fresh |-> [login |-> "ok", gateway |-> "absent", vserver |-> "absent", provider |-> "seed", user |-> "absent"],
     steps |-> <<Need("login", {"ok"}), Write("gateway", {"ok", "off"}, [gateway |-> "ok"]),
                 Need("gateway", {"ok"})>>
                 \o VirtualServer \o SsoProvider \o AdminUser,
     edits |-> {[gateway |-> "old"], [gateway |-> "off"], [vserver |-> "old"], [user |-> "hand"], [provider |-> "hand"]},
     goal  |-> [gateway |-> {"ok"}, vserver |-> {"ok"}, provider |-> {"ok"}, user |-> {"ok"}],
     keep  |-> {},
     stuck |-> [gateway |-> {"off"}]]

\* ensure_league: a league not in the library is added ("bare": not monitored, no
\* events) and settled; one that is there is left alone.
SportarrLeague ==
    <<Read("league"), When("league", {"absent"}, IfIs("league", "absent", "bare")),
      When("league", {"absent"}, IfIs("league", "bare", "ok"))>>

\* ensure_team: the team is followed; while none of its leagues is added, they
\* are added ("bare"), given a retention ("kept") and settled.
SportarrTeam ==
    <<IfIs("team", "absent", "followed"), Read("team")>>
      \o Under("team", {"followed"},
               <<IfIs("team", "followed", "bare"), IfIs("team", "bare", "kept"), IfIs("team", "kept", "ok")>>)

\* sportarr.rs: root folder, download client (its creation may fail), Prowlarr's
\* sync, leagues and teams.
sportarr ==
    [fresh |-> [server |-> "ok", root |-> "absent", client |-> "absent", prowlarr |-> "ok",
                application |-> "absent", profile |-> "ok", league |-> "absent", team |-> "absent"],
     steps |-> <<Need("server", {"ok"}), IfMissing("root"), Read("client"),
                 Soft(When("client", {"absent"}, EveryRun("client"))),
                 Need("prowlarr", {"ok"}), IfMissing("application"), Need("profile", {"ok"})>>
                 \o SportarrLeague \o SportarrTeam,
     edits |-> {[client |-> "hand"], [league |-> "hand"], [team |-> "hand"], [team |-> "followed"]},
     goal  |-> [root |-> Present, client |-> Present, application |-> Present, league |-> Present, team |-> Present],
     gap   |-> [league |-> {"bare"}, team |-> {"bare", "kept"}],
     keep  |-> {"client", "league", "team"},
     stuck |-> NoKeys]

\* audiobookshelf.rs: the server builds its OIDC client when the method is
\* enabled, so an active one with other settings is switched off ("off") first.
AudiobookshelfOidc ==
    <<Read("oidc"), When("oidc", {"hand", "old"}, Write("oidc", {}, [oidc |-> "off"])),
      When("oidc", Vals \ {"ok"}, EveryRun("oidc")), Need("oidc", {"ok"})>>

\* Root user, the libraries missing from one list, OIDC.
audiobookshelf ==
    [fresh |-> [root |-> "absent", books |-> "absent", podcasts |-> "absent", oidc |-> "absent"],
     steps |-> <<Read("root"), When("root", {"absent"}, IfMissing("root")), Need("root", {"ok"}),
                 ReadAll({"books", "podcasts"}),
                 When("books", {"absent"}, EveryRun("books")), When("podcasts", {"absent"}, EveryRun("podcasts"))>>
                 \o AudiobookshelfOidc,
     edits |-> {[root |-> "hand"], [books |-> "hand"], [podcasts |-> "absent"], [oidc |-> "old"], [oidc |-> "hand"]},
     goal  |-> [root |-> {"ok"}, books |-> Present, podcasts |-> Present, oidc |-> {"ok"}],
     keep  |-> {"root", "books"},
     stuck |-> [root |-> {"hand"}]]

\* restart_kavita: the sign-in handler is registered when the server starts, with
\* the settings of that moment; the pods are deleted when none is active.
KavitaHandler ==
    <<Stop("handler", {"ok", "old"}), Write("handler", {}, [handler |-> "ok"]), Need("handler", {"ok"})>>

\* apply_oidc: the sign-in settings, overlaid on the server's.  The server answers
\* with a mask for the secret and secret_matches compares its length: settings that
\* are "old" only in a secret that was rotated are taken for the right ones.
KavitaOidc == <<Write("settings", {"ok", "old"}, [settings |-> "ok"])>>

\* kavita.rs: the first admin, missing libraries, the OIDC settings, the handler.
kavita ==
    [fresh |-> [server |-> "ok", admin |-> "absent", library |-> "absent", settings |-> "seed", handler |-> "absent"],
     steps |-> <<Need("server", {"ok"}), IfMissing("admin"), Need("admin", {"ok"}), IfMissing("library")>>
                 \o KavitaOidc \o KavitaHandler,
     edits |-> {[admin |-> "hand"], [library |-> "hand", settings |-> "hand", handler |-> "old"],
                [settings |-> "old"], [handler |-> "absent"], [library |-> "hand"]},
     goal  |-> [admin |-> {"ok"}, library |-> Present, settings |-> {"ok"}, handler |-> {"ok"}],
     gap   |-> [settings |-> {"old"}, handler |-> {"old"}],
     keep  |-> {"admin", "library"},
     stuck |-> [admin |-> {"hand"}]]

\* ensure: an entry of the table is added, or patched when it does not cover what
\* is declared.
SyncthingEntry(k) == <<IfDiffers(k)>>

\* syncthing.rs: the hub must be the pinned one; a device or folder of the table
\* is added or patched; another folder at a wanted path is an error; a device that
\* is not in the table goes, found in the list from before.
syncthing ==
    [fresh |-> [identity |-> "ok", gui |-> "seed", device |-> "absent", stranger |-> "absent",
                path |-> "free", folder |-> "absent", restart |-> "no"],
     steps |-> <<Need("identity", {"ok"}), IfDiffers("gui"), Read("stranger")>> \o SyncthingEntry("device")
                 \o <<Need("path", {"free"})>> \o SyncthingEntry("folder")
                 \o <<When("stranger", {"hand"}, Write("stranger", {"absent"}, [stranger |-> "absent"])),
                 Write("restart", {"no"}, [restart |-> "no"])>>,
     edits |-> {[identity |-> "hand"], [gui |-> "hand"], [device |-> "old", restart |-> "pending"],
                [stranger |-> "hand"], [path |-> "hand"], [folder |-> "hand"]},
     goal  |-> [gui |-> {"ok"}, device |-> {"ok"}, stranger |-> {"absent"}, folder |-> {"ok"}, restart |-> {"no"}],
     keep  |-> {},
     stuck |-> [identity |-> {"hand"}, path |-> {"hand"}]]

\* Homarr's onboarding, one stage a call.  The claim cookie dies with the pod: a
\* run that finds a stage behind `user` signs in as the admin first.
Stages == {"start", "user", "group", "setup", "finish"}
Stage(at, eff) == Write("onboarding", Stages \ {at}, eff)
HomarrOnboarding ==
    <<Read("onboarding"), When("onboarding", {"group", "setup"}, Need("admin", {"ok"})),
      Stage("start", [onboarding |-> "user"]),
      Stage("user", [onboarding |-> "group", admin |-> "ok"]),
      Stage("group", [onboarding |-> "setup"]),
      Stage("setup", [onboarding |-> "finish", board |-> "ok", tile |-> "ok"]),
      Need("onboarding", {"finish"}), Need("admin", {"ok"})>>

\* The view group, its permission on the board unless it has one, its home board.
HomarrGroups == <<Need("board", Present), IfMissing("group"), IfMissing("permission"), IfDiffers("home")>>

\* The catalog: a missing app is created ("bare": in the library) and placed on
\* the board; one that differs is updated.
HomarrTiles ==
    <<Read("tile"), When("tile", {"absent"}, IfIs("tile", "absent", "bare")),
      When("tile", {"absent"}, IfIs("tile", "bare", "ok")),
      When("tile", Present, IfStale("tile"))>>

homarr ==
    [fresh |-> [onboarding |-> "start", admin |-> "absent", board |-> "absent", group |-> "absent",
                permission |-> "absent", home |-> "absent", tile |-> "absent"],
     steps |-> HomarrOnboarding \o HomarrGroups \o HomarrTiles,
     edits |-> {[onboarding |-> "finish", admin |-> "hand", board |-> "hand"], [permission |-> "hand"],
                [home |-> "hand"], [tile |-> "absent"], [tile |-> "old"]},
     goal  |-> [onboarding |-> {"finish"}, admin |-> {"ok"}, board |-> Present, group |-> Present,
                permission |-> Present, home |-> {"ok"}, tile |-> {"ok"}],
     gap   |-> [tile |-> {"bare"}],
     keep  |-> {"permission"},
     stuck |-> [admin |-> {"hand"}]]

AccountOnce ==                                                       \* mutant
    Under("account", {"absent"}, <<IfIs("account", "absent", "made"), IfIs("account", "made", "ok")>>)
\* ensure_account: the account (a conflict: it is there), then the setup's end.
CleanuparrAccount ==
    Under("account", {"absent", "made"}, <<IfIs("account", "absent", "made"), IfIs("account", "made", "ok")>>)

\* The queue cleaner, while it is off and has no rule ("seed"): a rule ("bare"),
\* then the switch.
CleanuparrQueue ==
    <<Read("cleaner")>>
      \o Under("cleaner", {"seed"}, <<IfIs("cleaner", "seed", "bare"), IfIs("cleaner", "bare", "ok")>>)

\* cleanuparr.rs: the account, trusted networks, what it connects to, three rule
\* sets while they are the factory's, a provider whose token comes back masked.
cleanuparr ==
    [fresh |-> [server |-> "ok", account |-> "absent", networks |-> "seed", instance |-> "absent", client |-> "absent",
                cleaner |-> "seed", blocker |-> "seed", seeker |-> "seed", ntfy |-> "absent"],
     steps |-> <<Need("server", {"ok"}), Read("account")>> \o CleanuparrAccount
                 \o <<Need("account", {"ok"}), IfDiffers("networks"), IfMissing("instance"), IfMissing("client")>>
                 \o CleanuparrQueue \o <<IfSeed("blocker"), IfSeed("seeker"), EveryRun("ntfy")>>,
     edits |-> {[account |-> "hand"], [networks |-> "hand"], [instance |-> "hand", seeker |-> "hand"],
                [cleaner |-> "hand"], [cleaner |-> "seed"], [ntfy |-> "old"]},
     goal  |-> [account |-> {"ok"}, networks |-> {"ok"}, instance |-> Present, client |-> Present,
                cleaner |-> {"hand", "ok"}, blocker |-> {"hand", "ok"}, seeker |-> {"hand", "ok"}, ntfy |-> {"ok"}],
     gap   |-> [cleaner |-> {"bare"}],
     keep  |-> {"account", "instance", "cleaner", "seeker"},
     stuck |-> [account |-> {"hand"}]]
=============================================================================
