SPECIFICATION Spec
CONSTANTS
  film = film
  fresh = fresh
  a = a
  b = b
  c = c
  d = d
  old = old
  new = new
  SecretKey = {old, new}
  NoConfig = NoConfig
  NoLink = NoLink
  Link <- PlainLinks
  Env <- BareEnv
  Request = {r1, r2}
  Key = {film, fresh}
  ValidKey = {"good"}
  Videos <- VideoLists
  Kino <- NoKinos
  Known = {film, fresh}
  Found <- NoFounds
  End <- DataOnly
  MaxProbe = 3
  YtTtl = 2
  YtNegTtl = 1
  YtCacheMax = 2
  ProbeConcurrency = 1
  HealthFailThreshold = 1
  MaxLookup = 1
SYMMETRY Symmetry
INVARIANT KeyIndependent
