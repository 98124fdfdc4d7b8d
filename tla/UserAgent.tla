----------------------------- MODULE UserAgent -----------------------------
(* HeuristicParser.Parse: what is told of a browser from its User-Agent.

   A user agent is the set of the parser's needles that occur in it, in lower
   case; the empty header is None.  A list of rules is tried in order, and the
   first that has a needle in the agent decides. *)
EXTENDS Naturals, Sequences

CONSTANT None

\* What the columns device_type, browser and os of an event hold.
Answers == {"bot", "tablet", "mobile", "desktop", "edge", "opera", "firefox", "chrome", "safari",
            "windows", "macos", "android", "ios", "linux", "other", "unknown"}

Rule(needles, answer) == [needles |-> needles, answer |-> answer]

FirstOf(rules, ua, default) ==
  LET hits == {i \in DOMAIN rules : rules[i].needles \cap ua # {}} IN
  IF hits = {} THEN default ELSE rules[CHOOSE i \in hits : \A j \in hits : i <= j].answer

DeviceType(ua) ==
  FirstOf(<<Rule({"bot", "spider", "crawler", "curl", "wget", "postman"}, "bot"),
            Rule({"ipad", "tablet"}, "tablet"),
            Rule({"mobi", "android", "iphone"}, "mobile")>>, ua, "desktop")

Browser(ua) ==
  FirstOf(<<Rule({"edg/"}, "edge"),
            Rule({"opr/", "opera"}, "opera"),
            Rule({"firefox"}, "firefox"),
            Rule({"chrome", "crios"}, "chrome"),
            Rule({"safari"}, "safari")>>, ua, "other")

OS(ua) ==
  FirstOf(<<Rule({"windows"}, "windows"),
            Rule({"mac os", "macos"}, "macos"),
            Rule({"android"}, "android"),
            Rule({"iphone", "ipad", "ios"}, "ios"),
            Rule({"linux"}, "linux")>>, ua, "other")

Parse(ua) ==
  IF ua = None THEN [device |-> "unknown", browser |-> "unknown", os |-> "unknown"]
               ELSE [device |-> DeviceType(ua), browser |-> Browser(ua), os |-> OS(ua)]
=============================================================================
