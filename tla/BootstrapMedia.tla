--------------------------- MODULE BootstrapMedia ---------------------------
(***************************************************************************)
(* The bootstraps that wire the media apps to each other: Servarr apps,    *)
(* their clients, and what requests from them.                             *)
(***************************************************************************)
EXTENDS Naturals, Sequences, BootstrapSteps

\* kapowarr.rs: settings and root folder; the torrent client's absence is found
\* out by a call that must work, its creation may fail.
kapowarr ==
    [fresh |-> [server |-> "ok", settings |-> "seed", root |-> "absent", client |-> "absent"],
     steps |-> <<Need("server", {"ok"}), IfDiffers("settings"), IfMissing("root"),
                 Read("client"), Soft(When("client", {"absent"}, EveryRun("client")))>>,
     edits |-> {[settings |-> "old"], [client |-> "hand"], [root |-> "absent"]},
     goal  |-> [settings |-> {"ok"}, root |-> Present, client |-> Present],
     keep  |-> {"root", "client"},
     stuck |-> NoKeys]

\* lingarr.rs: onboarding (a conflict: it is done), then, in one call, the
\* schedule and the file age, each while it is the seeded default.
lingarr ==
    [fresh |-> [server |-> "ok", onboarding |-> "absent", schedule |-> "seed", age |-> "seed"],
     steps |-> <<Need("server", {"ok"}), IfMissing("onboarding"),
                 Read("schedule"), Read("age"),
                 When("schedule", {"seed"}, When("age", {"seed"},
                     Write("schedule", {}, [schedule |-> "ok", age |-> "ok"]))),
                 When("schedule", {"seed"}, When("age", {"hand", "ok"}, EveryRun("schedule"))),
                 When("schedule", {"hand", "ok"}, When("age", {"seed"}, EveryRun("age")))>>,
     edits |-> {[schedule |-> "hand"], [age |-> "hand"], [schedule |-> "seed", age |-> "hand"]},
     goal  |-> [onboarding |-> Present, schedule |-> {"ok", "hand"}, age |-> {"ok", "hand"}],
     keep  |-> {"schedule", "age"},
     stuck |-> NoKeys]

PutAction(f) == Write(f, Vals \ {"bare"}, f :> "ok")
\* A filter is created bare and gets its action from a second call;
\* one that exists is left alone, whichever of the two made it.
Filter(f) == <<When(f, {"absent"}, IfIs(f, "absent", "bare")), When(f, {"absent"}, PutAction(f))>>

\* autobrr.rs: clients and filters, each made when its name is not there.
autobrr ==
    [fresh |-> [login |-> "ok", qbittorrent |-> "absent", sonarr |-> "absent",
                tv |-> "absent", movies |-> "absent"],
     steps |-> <<Need("login", {"ok"}), IfMissing("qbittorrent"), IfMissing("sonarr"),
                 Read("tv"), Read("movies")>> \o Filter("tv") \o Filter("movies"),
     edits |-> {[sonarr |-> "hand"], [tv |-> "hand"], [movies |-> "absent"]},
     goal  |-> [qbittorrent |-> Present, sonarr |-> Present, tv |-> Present, movies |-> Present],
     gap   |-> [tv |-> {"bare"}, movies |-> {"bare"}],
     keep  |-> {"sonarr", "tv"},
     stuck |-> NoKeys]

\* arr.rs: the path qBittorrent saves to; it may be scaled down, which is printed.
SavePath == <<Soft(IfDiffers("qbittorrent"))>>

\* The notification is created with its access token; an existing one gets the
\* token on every run (it comes back masked).  Errors are printed.
Ntfy(ntfy, token) ==
    <<Soft(Read(ntfy)),
      When(ntfy, {"absent"}, Soft(Write(ntfy, Present, (ntfy :> "ok") @@ (token :> "ok")))),
      When(ntfy, Present, Soft(EveryRun(token)))>>

\* One Servarr app: the root folder; the download client, whose error is printed;
\* the notification.
ServarrApp(up, root, client, ntfy, token) ==
    <<Need(up, {"ok"}), IfMissing(root), Soft(IfMissing(client))>> \o Ntfy(ntfy, token)

\* import_existing_movies: a folder Radarr does not manage becomes an unmonitored
\* movie when exactly one film matches and Radarr does not have it.
ImportMovies(film) == <<Soft(IfIs(film, "absent", "ok"))>>

\* Prowlarr: the apps it syncs, its own client, the proxy with its tag.
Prowlarr ==
    <<Need("prowlarr", {"ok"}), IfMissing("application"), Soft(IfMissing("search")),
      IfMissing("tag"), IfMissing("proxy")>>

\* ensure_indexers: created, updated where it differs, or written on every run
\* when it has secrets (masked).
Indexers == <<IfMissing("tag"), IfDiffers("indexer"), EveryRun("private")>>

arr ==
    [fresh |-> [qbittorrent |-> "seed", radarr |-> "ok", root |-> "absent", client |-> "absent",
                ntfy |-> "absent", token |-> "absent", film |-> "absent", prowlarr |-> "ok",
                application |-> "absent", search |-> "absent", tag |-> "absent", proxy |-> "absent",
                indexer |-> "absent", private |-> "absent"],
     steps |-> SavePath \o ServarrApp("radarr", "root", "client", "ntfy", "token") \o ImportMovies("film")
                 \o Prowlarr \o Indexers,
     edits |-> {[client |-> "hand"], [ntfy |-> "hand", token |-> "absent"], [token |-> "old"],
                [film |-> "hand"], [indexer |-> "hand"], [private |-> "old", indexer |-> "old"]},
     goal  |-> [qbittorrent |-> {"ok"}, root |-> Present, client |-> Present, ntfy |-> Present,
                token |-> {"ok"}, film |-> Present, application |-> Present, search |-> Present,
                proxy |-> Present, indexer |-> {"ok"}, private |-> {"ok"}],
     keep  |-> {"client", "ntfy", "film"},
     stuck |-> NoKeys]

\* seerr.rs wire_arr: the app's root folder, its default server and, when it has
\* the profile, its 4K server; each made when missing and updated when it differs.
SeerrServer(up, root, profile4k, server, server4k) ==
    <<Need(up, {"ok"}), IfMissing(root), IfDiffers(server), Read(profile4k),
      When(profile4k, {"ok"}, IfDiffers(server4k))>>

\* reconcile_libraries: the wanted libraries on top of the ones that are on.
SeerrLibraries == Under("wizard", Present, <<Need("jellyfin", {"ok"}), IfDiffers("libraries")>>)

\* The wizard: the server is linked by the first login, every library enabled,
\* the wizard marked finished.
SeerrWizard ==
    Under("wizard", {"absent"},
          <<Need("jellyfin", {"ok"}), EveryRun("libraries"), IfMissing("wizard")>>)

seerr ==
    [fresh |-> [wizard |-> "absent", link |-> "absent", jellyfin |-> "ok", email |-> "hand",
                libraries |-> "absent", radarr |-> "ok", root |-> "absent", profile4k |-> "ok",
                server |-> "absent", server4k |-> "absent"],
     steps |-> <<Read("wizard"), When("wizard", {"absent"}, IfMissing("link")),
                 Need("link", Present), IfDiffers("email")>>
                 \o SeerrLibraries \o SeerrWizard
                 \o SeerrServer("radarr", "root", "profile4k", "server", "server4k"),
     edits |-> {[wizard |-> "hand", link |-> "hand", libraries |-> "hand"], [server |-> "old", server4k |-> "old"],
                [root |-> "hand"], [email |-> "hand"]},
     goal  |-> [wizard |-> Present, link |-> Present, email |-> {"ok"}, libraries |-> {"ok"},
                root |-> Present, server |-> {"ok"}, server4k |-> {"ok"}],
     keep  |-> {"wizard", "link", "root"},
     stuck |-> NoKeys]
=============================================================================
