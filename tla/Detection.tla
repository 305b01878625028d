----------------------------- MODULE Detection -----------------------------
(***************************************************************************)
(* The detectors of bot protection (internal/bypass/detection.go).  Of a   *)
(* response they look at the status and at its signs: what the Server      *)
(* header names, which headers there are, what the body contains.          *)
(***************************************************************************)
EXTENDS Naturals, SequencesExt

\* A detector acts on some statuses and needs all the signs of one of its sets.
detectCloudflare ==
  [source |-> "Cloudflare", on |-> {403, 503},
   signs |-> {{"Server: cloudflare"}, {"cf-browser-verification"}, {"cloudflare-nginx"},
              {"cf-turnstile"}, {"Attention Required! | Cloudflare"}}]

detectAkamai ==
  [source |-> "Akamai", on |-> {403},
   signs |-> {{"Server: akamai"}, {"Reference #", "Access Denied"}}]

detectDataDome ==
  [source |-> "DataDome", on |-> {403},
   signs |-> {{"Server: datadome"}, {"X-DataDome:"}, {"X-DataDome-Response:"},
              {"geo.captcha-delivery.com"}, {"datadome"}}]

detectPerimeterX ==
  [source |-> "PerimeterX", on |-> {403},
   signs |-> {{"X-Px-Captcha:"}, {"client.perimeterx.net"}, {"px-captcha"}, {"_pxBlock"}}]

DefaultDetectors == <<detectCloudflare, detectAkamai, detectDataDome, detectPerimeterX>>

Sign == UNION UNION {DefaultDetectors[i].signs : i \in DOMAIN DefaultDetectors}

\* The first detector that matches names the source; "" for not detected.
Analyze(status, signs, detectors) ==
  LET hits == {i \in DOMAIN detectors :
                 status \in detectors[i].on /\ \E needed \in detectors[i].signs : needed \subseteq signs}
  IN  IF hits = {} THEN "" ELSE detectors[CHOOSE i \in hits : \A j \in hits : i <= j].source

Source == {""} \cup {DefaultDetectors[i].source : i \in DOMAIN DefaultDetectors}
=============================================================================
