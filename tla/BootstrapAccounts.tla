-------------------------- MODULE BootstrapAccounts --------------------------
(***************************************************************************)
(* The bootstraps that sign in, or make the account they sign in with.     *)
(***************************************************************************)
EXTENDS Naturals, Sequences, BootstrapSteps

\* atuin.rs: log in, else register, which fails for a name that is taken.
atuin ==
    [fresh |-> [server |-> "ok", user |-> "absent"],
     steps |-> <<Need("server", {"ok"}), Stop("user", {"ok"}), Need("user", {"absent"}), IfMissing("user")>>,
     edits |-> {[user |-> "hand"]},
     goal  |-> [user |-> {"ok"}],
     keep  |-> {"user"},
     stuck |-> [user |-> {"hand"}]]

\* ggrequestz.rs: the admin's row is inserted when missing, else made admin.
ggrequestz ==
    [fresh |-> [schema |-> "ok", row |-> "absent"],
     steps |-> <<Need("schema", {"ok"}), IfMissing("row"), IfStale("row")>>,
     edits |-> {[row |-> "hand"]},
     goal  |-> [row |-> {"ok"}],
     keep  |-> {},
     stuck |-> NoKeys]

\* shoko.rs: the first-run wizard, then a login that must work.
shoko ==
    [fresh |-> [server |-> "waiting", user |-> "absent"],
     steps |-> <<Read("server"),
                 When("server", {"waiting"}, EveryRun("user")),
                 When("server", {"waiting"}, Write("server", {}, [server |-> "started"])),
                 Need("server", {"started"}), Need("user", {"ok"})>>,
     edits |-> {[server |-> "started", user |-> "hand"]},
     goal  |-> [server |-> {"started"}, user |-> {"ok"}],
     keep  |-> {},
     stuck |-> [user |-> {"hand"}]]

\* komga.rs: claim the server, check the login, create the missing libraries.
komga ==
    [fresh |-> [admin |-> "absent", comics |-> "absent", manga |-> "absent"],
     steps |-> <<IfMissing("admin"), Need("admin", {"ok"}), IfMissing("comics"), IfMissing("manga")>>,
     edits |-> {[admin |-> "hand"], [comics |-> "hand"], [manga |-> "absent"]},
     goal  |-> [admin |-> {"ok"}, comics |-> Present, manga |-> Present],
     keep  |-> {"admin", "comics", "manga"},
     stuck |-> [admin |-> {"hand"}]]

\* mealie.rs: the seeded admin is renamed, then gets the generated password;
\* each state a half-finished run leaves is tried.
mealie ==
    [fresh |-> [server |-> "ok", admin |-> "seed"],
     steps |-> <<Need("server", {"ok"}), Stop("admin", {"ok"}), Read("admin"), Need("admin", {"seed", "renamed"}),
                 When("admin", {"seed"}, Write("admin", {}, [admin |-> "renamed"])),
                 When("admin", {"seed", "renamed"}, EveryRun("admin")), Need("admin", {"ok"})>>,
     edits |-> {[admin |-> "hand"], [admin |-> "seed"]},
     goal  |-> [admin |-> {"ok"}],
     keep  |-> {"admin"},
     stuck |-> [admin |-> {"hand"}]]

\* forgejo.rs: the user, the repository, and a Secret holding a working token.
forgejo ==
    [fresh |-> [server |-> "ok", user |-> "absent", repo |-> "absent", token |-> "absent"],
     steps |-> <<Need("server", {"ok"}), IfMissing("user"), IfMissing("repo")>> \o StoredToken("token"),
     edits |-> {[user |-> "hand"], [token |-> "absent"], [token |-> "old"]},
     goal  |-> [user |-> Present, repo |-> Present, token |-> {"ok"}],
     keep  |-> {"user", "repo"},
     stuck |-> NoKeys]

\* romm.rs: the setup wizard's admin (a refusal is fine when somebody else has
\* just finished the wizard), its email, a client token, the first scan.
romm ==
    [fresh |-> [admin |-> "absent", email |-> "ok", token |-> "absent", scan |-> "absent"],
     steps |-> <<IfMissing("admin"), Need("admin", {"ok"}), IfDiffers("email")>>
                 \o StoredToken("token") \o <<IfMissing("scan")>>,
     edits |-> {[admin |-> "hand", email |-> "hand"], [email |-> "old"], [token |-> "old"]},
     goal  |-> [admin |-> {"ok"}, email |-> {"ok"}, token |-> {"ok"}, scan |-> Present],
     keep  |-> {"admin"},
     stuck |-> [admin |-> {"hand"}]]

\* openviking.rs: an account with an admin, a user for the agents, and the Secret
\* that holds its key ("ok") once the key has proved to work.  The key can be
\* read back, so it is not made again.
openviking ==
    [fresh |-> [server |-> "ok", account |-> "absent", admin |-> "absent", agent |-> "absent"],
     steps |-> <<Need("server", {"ok"}),
                 Write("account", Present, [account |-> "ok", admin |-> "ok"]),
                 Read("agent"), IfMissing("admin"),
                 When("agent", {"absent"}, IfIs("agent", "absent", "made")),
                 Need("agent", {"made", "ok"}), IfIs("agent", "made", "ok")>>,
     edits |-> {[agent |-> "absent"], [agent |-> "made"], [admin |-> "absent"],
                [account |-> "absent", admin |-> "absent", agent |-> "absent"]},
     goal  |-> [account |-> Present, admin |-> Present, agent |-> {"ok"}],
     keep  |-> {},
     stuck |-> NoKeys]

\* navidrome.rs: log in, else create the first admin and log in; then every
\* user's scrobble link, replaced on every run.
navidrome ==
    [fresh |-> [server |-> "ok", admin |-> "absent", user |-> "absent", link |-> "absent"],
     steps |-> <<Need("server", {"ok"}), Read("admin"),
                 When("admin", NotOk, Need("admin", {"absent"})),
                 When("admin", NotOk, IfMissing("admin")),
                 Need("admin", {"ok"}),
                 IfMissing("user"), EveryRun("link")>>,
     edits |-> {[admin |-> "hand"], [user |-> "hand", link |-> "hand"], [link |-> "old"]},
     goal  |-> [admin |-> {"ok"}, user |-> Present, link |-> {"ok"}],
     keep  |-> {"admin", "user"},
     stuck |-> [admin |-> {"hand"}]]

\* streamystats.rs: done when it knows the server, else a key and the server.
streamystats ==
    [fresh |-> [jellyfin |-> "ok", key |-> "absent", server |-> "absent"],
     steps |-> <<Stop("server", Present)>> \o JellyfinKey \o <<IfMissing("server")>>,
     edits |-> {[server |-> "hand"], [key |-> "hand"], [server |-> "absent"]},
     goal  |-> [server |-> Present],
     keep  |-> {"server", "key"},
     stuck |-> NoKeys]

\* tracearr.rs: the owner signs up or in; the Jellyfin server, member sign-in
\* and settings; a backup schedule while it is disabled.
tracearr ==
    [fresh |-> [owner |-> "absent", jellyfin |-> "ok", key |-> "absent", server |-> "absent",
                members |-> "absent", settings |-> "seed", schedule |-> "seed"],
     steps |-> <<IfMissing("owner"), Need("owner", {"ok"}), Read("server")>>
                 \o Under("server", {"absent"}, JellyfinKey \o <<IfMissing("server")>>)
                 \o <<Need("server", Present), IfDiffers("members"), IfDiffers("settings"), IfSeed("schedule")>>,
     edits |-> {[owner |-> "hand"], [server |-> "hand", members |-> "absent"], [settings |-> "old"],
                [schedule |-> "hand"], [schedule |-> "seed"]},
     goal  |-> [owner |-> {"ok"}, server |-> Present, members |-> {"ok"}, settings |-> {"ok"},
                schedule |-> {"ok", "hand", "old"}],
     keep  |-> {"owner", "server", "schedule"},
     stuck |-> [owner |-> {"hand"}]]

\* keycloak.rs invite: the set-your-password email to each member with neither a
\* password of their own ("hand") nor an entry in the ledger, which is read once
\* before the loop.  "sent" and "again" are emails the ledger does not know of,
\* "ok" and "twice" the same recorded.
Invite(m) ==
    LET unrecorded == {"absent", "hand", "sent", "again"}
    IN  <<When(m, unrecorded, IfIs(m, "sent", "again")), When(m, unrecorded, IfIs(m, "absent", "sent")),
          When(m, unrecorded, IfIs(m, "again", "twice")), When(m, unrecorded, IfIs(m, "sent", "ok"))>>

keycloak_invite ==
    [fresh |-> [keycloak |-> "ok", ann |-> "absent", bob |-> "absent"],
     steps |-> <<Need("keycloak", {"ok"}), Read("ann"), Read("bob")>> \o Invite("ann") \o Invite("bob"),
     edits |-> {[ann |-> "hand"], [bob |-> "absent"]},
     goal  |-> [ann |-> {"ok", "twice", "hand"}, bob |-> {"ok", "twice", "hand"}],
     keep  |-> {"ann", "bob"},
     stuck |-> NoKeys]
=============================================================================
