----------------------------- MODULE MCServices -----------------------------
(* The services of one node that share no variable: presence, the RTDB     *)
(* store, the search index, drafts, the blob sweep, the published site,    *)
(* DAV collections, QR logins, settings, uploads and the onboarding of a   *)
(* tenant.  Each is checked on its own: "part", chosen at the start, is    *)
(* the one that takes steps, and the others stay as they begin.            *)
EXTENDS Presence, RtdbStore, SearchIndex, Drafts, BlobGC, Sites, DavSync, QrLogin,
        Settings, Uploads, Onboarding

VARIABLE part  \* the part that takes steps

serviceVars == <<part, presenceVars, rtdbVars, searchVars, draftVars, gcVars,
                 siteVars, davVars, qrVars, settingVars, uploadVars, onboardingVars>>

Parts == {"presence", "rtdb", "search", "drafts", "gc", "site", "dav", "qr",
          "settings", "uploads", "onboarding"}

(* A part with several initial states has them only when it is chosen.     *)
ServicesInit ==
    /\ part \in Parts
    /\ PresenceInit /\ RtdbInit /\ SearchInit /\ DraftsInit /\ GcInit
    /\ SitesInit /\ DavInit /\ QrInit
    /\ SettingsInit /\ UploadsInit /\ OnboardingInit
    /\ part # "site" => siteNav = NoRecord
    /\ part # "dav" => revives
    /\ part # "settings" => wildcard
    /\ part # "uploads" => alike
    /\ part # "onboarding" => acme

Pausing(p, vars) == part # p => UNCHANGED vars
Taking(p, action) == part = p /\ action

ServicesNext ==
    /\ UNCHANGED part
    /\ Pausing("presence", presenceVars) /\ Pausing("rtdb", rtdbVars)
    /\ Pausing("search", searchVars) /\ Pausing("drafts", draftVars)
    /\ Pausing("gc", gcVars) /\ Pausing("site", siteVars)
    /\ Pausing("dav", davVars) /\ Pausing("qr", qrVars)
    /\ Pausing("settings", settingVars) /\ Pausing("uploads", uploadVars)
    /\ Pausing("onboarding", onboardingVars)
    /\ \/ Taking("presence", PresenceNext)
       \/ Taking("rtdb", RtdbNext)
       \/ Taking("search", SearchNext)
       \/ Taking("drafts", DraftsNext)
       \/ Taking("gc", GcNext)
       \/ Taking("site", SitesNext)
       \/ Taking("dav", DavNext)
       \/ Taking("qr", QrNext)
       \/ Taking("settings", SettingsNext)
       \/ Taking("uploads", UploadsNext)
       \/ Taking("onboarding", OnboardingNext)

ServicesSpec == ServicesInit /\ [][ServicesNext]_serviceVars

(* The variables of every part keep their types.                           *)
ServicesTypeOK ==
    /\ PresenceTypeOK /\ RtdbTypeOK /\ SearchTypeOK /\ DraftsTypeOK
    /\ GcTypeOK /\ SitesTypeOK /\ DavTypeOK /\ QrTypeOK
    /\ SettingsTypeOK /\ UploadsTypeOK /\ OnboardingTypeOK
=============================================================================
