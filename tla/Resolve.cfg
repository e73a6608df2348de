SPECIFICATION Spec
CONSTANTS
  film = film
  fresh = fresh
  a = a
  b = b
  c = c
  d = d
  old = old
  new = new
  SecretKey = {old, new}
  NoConfig = NoConfig
  NoLink = NoLink
  Link <- OldLinks
  Env <- Envs
  Request = {r1, r2}
  Key = {film, fresh}
  ValidKey = {"good"}
  Videos <- VideoLists
  Kino <- Kinos
  Known = {film, fresh}
  Found <- Founds
  End <- AllEnds
  MaxProbe = 3
  YtTtl = 2
  YtNegTtl = 1
  YtCacheMax = 1
  ProbeConcurrency = 1
  HealthFailThreshold = 1
  MaxLookup = 1
SYMMETRY Symmetry
INVARIANTS TypeOK AnswerAge RankedAnswer LinksHonoured
PROPERTY SweptBeforeGrowing
