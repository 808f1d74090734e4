---------------------------- MODULE MCGlooxClient ----------------------------
(***************************************************************************)
(* Instances of GlooxClient for TLC.                                       *)
(***************************************************************************)
EXTENDS GlooxClient

MCSettings ==
    {s \in SettingsType : s.sasl /\ ~s.forceNonSasl}

MCOffers ==
    {[features |-> fs, digest |-> TRUE] : fs \in
        {{"starttls", "zlib", "DIGEST-MD5", "PLAIN", "bind", "session"},
         {"zlib", "PLAIN", "bind"},
         {"starttls", "iqAuth"},
         {"starttls", "ANONYMOUS", "bind", "session"},
         {"PLAIN"}}}

=============================================================================
