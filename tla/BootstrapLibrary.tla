-------------------------- MODULE BootstrapLibrary --------------------------
(***************************************************************************)
(* The bootstraps around the media library itself: Jellyfin, Ryot, what    *)
(* cleans up, subtitles, requests.                                         *)
(***************************************************************************)
EXTENDS Naturals, Sequences, BootstrapSteps

\* ryot_wire.rs with_session: leftovers go, a one-use link is inserted and exchanged
\* for a session, the task runs, the session is logged out (its failure printed)
\* and the link deleted.  "extra" is this run's session beside one that an
\* interrupted run left.  A failed exchange goes straight to the link.
Session(task) ==
    LET exchange(s, n) == [s EXCEPT !.fails = "task", !.skip = n + Len(task) + 2]
    IN  <<Write("link", {"absent"}, [link |-> "absent"]), Write("link", {}, [link |-> "ok"]),
          exchange(IfIs("session", "open", "extra"), 1), exchange(IfIs("session", "none", "open"), 0)>>
          \o Task(task)
          \o <<Soft(IfIs("session", "open", "none")), Soft(IfIs("session", "extra", "open")),
               Write("link", {}, [link |-> "absent"]), Outcome>>

\* ensure_integration: created, or written again when the stored one is not a
\* superset of the declared one.
RyotIntegration(k) == <<IfDiffers(k)>>

\* abs_token, komga_key: the integration's key if it works; otherwise keys of that
\* name are deleted and one is made ("made"), which the integration is given.
RyotKey(t) ==
    LET lost == Vals \ {"ok", "off"}
    IN  <<Read(t), When(t, lost, Write(t, {"absent"}, t :> "absent")),
          When(t, lost, IfIs(t, "absent", "made"))>> \o RyotIntegration(t)

\* import_once: unless a report of that source did not fail.
ImportOnce == <<IfMissing("import")>>
\* The collection requests are read from, and the app's profile in the integration.
RyotArr == <<IfMissing("collection"), Need("radarr", {"ok"})>> \o RyotIntegration("push")
\* The integration Jellyfin's webhook posts to; it waits for the plugin.
RyotJellyfin == RyotIntegration("sink") \o <<Need("plugin", {"ok"}), IfDiffers("webhook")>>
\* wire: what the user's integrations are made of, in this order.
RyotWire == RyotKey("abs") \o ImportOnce \o RyotArr \o RyotJellyfin

\* ryot.rs: the user is registered linked to Keycloak; a user of that name who is
\* not linked ("hand") is an error.  Then, as that user, the integrations.
ryot ==
    [fresh |-> [keycloak |-> "ok", user |-> "absent", link |-> "absent", session |-> "none", abs |-> "absent",
                import |-> "absent", collection |-> "absent", radarr |-> "ok", push |-> "absent",
                sink |-> "absent", plugin |-> "absent", webhook |-> "absent"],
     steps |-> <<Need("keycloak", {"ok"}), Need("user", {"absent", "ok"}), IfMissing("user")>>
                 \o Session(RyotWire),
     edits |-> {[user |-> "hand"], [plugin |-> "ok"], [abs |-> "old"], [abs |-> "off"], [import |-> "absent"],
                [push |-> "hand", webhook |-> "old"]},
     goal  |-> [user |-> {"ok"}, link |-> {"absent"}, session |-> {"none"}, abs |-> {"ok"}, import |-> Present,
                collection |-> Present, push |-> {"ok"}, sink |-> {"ok"}, webhook |-> {"ok"}],
     gap   |-> [session |-> {"open"}],
     own   |-> {"link", "session"},
     keep  |-> {"user"},
     stuck |-> [user |-> {"hand"}, plugin |-> {"absent"}]]

\* ryot_trakt.rs sync: the import adds duplicates while it runs; they are removed
\* once its report is in, whatever it says.
TraktSync ==
    <<Write("import", {}, [import |-> "running", dups |-> "some"]), IfIs("import", "running", "ok"),
      Write("dups", {"none"}, [dups |-> "none"]), Need("import", {"ok"})>>

\* An import runs when one is due ("absent", "failed") and none is running.
ryot_trakt ==
    [fresh |-> [user |-> "ok", trakt |-> "ok", import |-> "absent", dups |-> "none", link |-> "absent", session |-> "none"],
     steps |-> <<Need("user", {"ok"}), Need("trakt", {"ok"}), Stop("import", {"running", "ok"})>> \o Session(TraktSync),
     edits |-> {[import |-> "absent"], [import |-> "failed"], [import |-> "ok", dups |-> "some"]},
     goal  |-> [import |-> {"ok"}, dups |-> {"none"}, link |-> {"absent"}, session |-> {"none"}],
     gap   |-> [import |-> {"running"}, dups |-> {"some"}, link |-> {"ok"}, session |-> {"open", "extra"}],
     own   |-> {"link", "session"},
     keep  |-> {},
     stuck |-> NoKeys]

\* maintainerr.rs: a connection is added when its URL is not there.  One that was
\* just added is tested, and the test's failure printed.
MaintainerrLink(k, up) ==
    <<Read(k), When(k, {"absent"}, EveryRun(k)), When(k, {"absent"}, Soft(Need(up, {"ok"})))>>
\* The request app's key is read from it first; Tracearr's token likewise.
MaintainerrKeyed(k, up) == <<Read(k), When(k, {"absent"}, Need(up, {"ok"})), When(k, {"absent"}, EveryRun(k))>>
\* download_client, ntfy: the client once; the provider on every run (its token comes
\* back masked), found again in the list.
MaintainerrClients == <<IfMissing("client"), EveryRun("ntfy"), Need("ntfy", {"ok"})>>
\* examples: without libraries there is nothing to do ("none"); a rule group by its name, then its
\* notification unless it is connected.
MaintainerrExamples == <<Stop("group", {"none"}), IfMissing("group"), IfDiffers("connection")>>

maintainerr ==
    [fresh |-> [server |-> "ok", radarr |-> "absent", seerr |-> "absent", seerr_up |-> "ok",
                sportarr |-> "absent", sportarr_up |-> "ok", client |-> "absent", ntfy |-> "absent",
                group |-> "none", connection |-> "none"],
     steps |-> <<Need("server", {"ok"}), IfMissing("radarr")>> \o MaintainerrKeyed("seerr", "seerr_up")
                 \o MaintainerrLink("sportarr", "sportarr_up")
                 \o MaintainerrClients \o MaintainerrExamples,
     edits |-> {[group |-> "absent", connection |-> "absent"], [seerr |-> "hand"], [sportarr_up |-> "absent"], [ntfy |-> "old"],
                [group |-> "hand", connection |-> "hand"]},
     goal  |-> [radarr |-> Present, seerr |-> Present, sportarr |-> Present, client |-> Present, ntfy |-> {"ok"},
                group |-> Present \cup {"none"}, connection |-> {"ok", "none"}],
     keep  |-> {"seerr", "group"},
     stuck |-> NoKeys]

\* bazarr.rs: languages, profile, links and providers go in one form, sent when one
\* of them is missing, with the defaults unless they are on and not on the profile
\* that this one replaces ("old").
BazarrSettings ==
    <<ReadAll({"profile", "defaults", "link"}),
      When("defaults", {"seed", "old"}, Write("defaults", {}, [profile |-> "ok", defaults |-> "ok", link |-> "ok"]))>>
      \o Under("defaults", {"hand", "ok"},
               <<When("profile", NotOk, Write("profile", {}, [profile |-> "ok", link |-> "ok"])),
                 When("profile", {"ok"}, IfDiffers("link"))>>)

\* What Sonarr brought before the default existed: without a profile, or on one that
\* is no more.  While Bazarr has not caught up it is left to the default.
BazarrSeries == <<Need("sonarr", {"ok"}), SoftBefore(Need("synced", {"ok"}), 1), Write("series", {"hand", "ok"}, [series |-> "ok"])>>

bazarr ==
    [fresh |-> [server |-> "ok", profile |-> "absent", defaults |-> "seed", link |-> "absent", sonarr |-> "ok",
                synced |-> "ok", series |-> "absent"],
     steps |-> <<Need("server", {"ok"})>> \o BazarrSettings \o BazarrSeries,
     edits |-> {[profile |-> "old", defaults |-> "old", series |-> "old"], [defaults |-> "hand", series |-> "hand"],
                [link |-> "old"], [synced |-> "absent", series |-> "absent"]},
     goal  |-> [profile |-> {"ok"}, defaults |-> {"hand", "ok"}, link |-> {"ok"}, series |-> {"hand", "ok"}],
     keep  |-> {"defaults", "series"},
     stuck |-> NoKeys]

\* ombi.rs: log in, else the first-run wizard, which refuses once there are users.
OmbiAdmin ==
    <<Read("admin"), When("admin", NotOk, Need("admin", {"absent"})), When("admin", NotOk, IfMissing("admin")),
      Need("admin", {"ok"})>>
\* Ombi's own settings, each read, overlaid and written when that changed something.
OmbiSettings == <<IfDiffers("api_key"), IfDiffers("header_login")>>
\* wire_jellyfin: a key named after Ombi; the server, with its libraries while none
\* is selected.
OmbiJellyfin ==
    JellyfinKey \o <<Need("jellyfin", {"ok"}), ReadAll({"server", "libraries"}),
                     When("libraries", {"absent"}, Write("libraries", {}, [server |-> "ok", libraries |-> "ok"])),
                     When("libraries", Present, IfDiffers("server"))>>
\* wire_arr, wire_ntfy: the app's root folder must be there.
OmbiArr == <<Need("root", {"ok"}), IfDiffers("arr"), IfDiffers("ntfy")>>

\* sync_users: an account per member of the groups, which must not both be empty;
\* whoever is in none is disabled ("off").  A privilege ("privileged") is not taken
\* away in place: the account is deleted, and made again if its owner has a role.
OmbiUsers ==
    <<Need("groups", {"ok"}), Need("roles", {"ok"}), ReadAll({"member", "leaver"}),
      When("member", {"privileged"}, IfIs("member", "privileged", "absent")),
      When("member", Vals \ {"ok"}, EveryRun("member")),
      When("leaver", {"privileged"}, IfIs("leaver", "privileged", "absent")),
      When("leaver", {"hand", "ok"}, Write("leaver", {}, [leaver |-> "off"]))>>

ombi ==
    [fresh |-> [up |-> "ok", admin |-> "absent", api_key |-> "seed", header_login |-> "seed", jellyfin |-> "ok",
                key |-> "absent", server |-> "absent", libraries |-> "absent", root |-> "ok", arr |-> "absent",
                ntfy |-> "seed", groups |-> "ok", roles |-> "ok", member |-> "absent", leaver |-> "absent"],
     steps |-> <<Need("up", {"ok"})>> \o OmbiAdmin \o OmbiSettings \o OmbiJellyfin \o OmbiArr \o OmbiUsers,
     edits |-> {[admin |-> "hand"], [libraries |-> "hand", server |-> "hand"], [member |-> "privileged"],
                [leaver |-> "privileged"], [leaver |-> "hand", member |-> "hand"], [groups |-> "absent"]},
     goal  |-> [admin |-> {"ok"}, api_key |-> {"ok"}, header_login |-> {"ok"}, server |-> {"ok"}, libraries |-> Present,
                arr |-> {"ok"}, ntfy |-> {"ok"}, member |-> {"ok"}, leaver |-> {"absent", "off"}],
     keep  |-> {"admin", "libraries"},
     stuck |-> [admin |-> {"hand"}, groups |-> {"absent"}]]

\* jellyfin-bootstrap: the wizard (its user, its end), a sign-in that must work, the
\* libraries missing from one list.
JellyfinWizard ==
    <<Read("wizard"), When("wizard", {"absent"}, EveryRun("admin")), When("wizard", {"absent"}, EveryRun("wizard")),
      Need("admin", {"ok"}), IfMissing("library")>>

\* The key of this generation is made when missing, Maintainerr given it, and only
\* then the older ones of the first list deleted.
JellyfinRotation ==
    <<ReadAll({"key", "old_key"}), When("key", {"absent"}, IfMissing("key")), Need("key", {"ok"}),
      IfDiffers("holds"), When("old_key", {"ok"}, Write("old_key", {"absent"}, [old_key |-> "absent"]))>>

\* A plugin that is not listed is installed ("pending") and Jellyfin restarted,
\* which loads whatever else is pending too.  One that is listed counts as there.
JellyfinPlugin(p, other) ==
    <<Read(p)>> \o
    Under(p, {"absent"},
          <<IfIs(p, "absent", "pending"), Read(other),
            When(other, {"pending"}, Write(p, {}, (p :> "ok") @@ (other :> "ok"))),
            When(other, {"absent", "ok"}, EveryRun(p)), Need(p, {"ok"})>>)

\* The declared provider, every field of it compared.
JellyfinProvider == <<IfDiffers("provider")>>
\* The provider's endpoint answers once the plugin is loaded; the login button and
\* its style; the settings that are declared.
JellyfinSso == <<IfDiffers("repository")>> \o JellyfinPlugin("sso", "plugin")
                 \o <<Need("sso", {"ok"})>> \o JellyfinProvider \o <<IfDiffers("button")>>
JellyfinSettings == <<IfDiffers("encoding"), IfDiffers("downloading")>>

\* A run killed between the installation and the restart leaves a plugin that no
\* later run loads, and with the SSO plugin no later run succeeds.
jellyfin ==
    [fresh |-> [up |-> "ok", wizard |-> "absent", admin |-> "absent", library |-> "absent", key |-> "absent",
                old_key |-> "absent", holds |-> "absent", plugin |-> "absent", repository |-> "absent",
                sso |-> "absent", provider |-> "absent", button |-> "seed", encoding |-> "seed", downloading |-> "seed"],
     steps |-> <<Need("up", {"ok"})>> \o JellyfinWizard \o JellyfinRotation \o JellyfinPlugin("plugin", "sso")
                 \o JellyfinSso \o JellyfinSettings,
     edits |-> {[admin |-> "hand", wizard |-> "ok"], [key |-> "absent", old_key |-> "ok", holds |-> "old"],
                [library |-> "hand"], [encoding |-> "old", downloading |-> "old"], [button |-> "hand"]},
     goal  |-> [wizard |-> Present, admin |-> {"ok"}, library |-> Present, key |-> {"ok"}, old_key |-> {"absent"},
                holds |-> {"ok"}, plugin |-> {"ok"}, sso |-> {"ok"}, provider |-> {"ok"}, button |-> {"ok"},
                encoding |-> {"ok"}, downloading |-> {"ok"}],
     gap   |-> [plugin |-> {"pending"}],
     never |-> {[holds |-> {"old"}, old_key |-> {"absent"}], [holds |-> {"ok"}, key |-> {"absent"}]},
     keep  |-> {"library"},
     stuck |-> [admin |-> {"hand"}, sso |-> {"pending"}]]
=============================================================================
