SPECIFICATION MCSpec
CONSTANTS
  s1 = s1
  s2 = s2
  x1 = x1
  x2 = x2
  film = film
  clip = clip
  nsfw = nsfw
  ann = ann
  ben = ben
  cat = cat
  Nothing = Nothing
  Sweep = {s1, s2}
  Vote = {x1, x2}
  Video = {film, clip}
  Label = {nsfw}
  Author <- MCAuthor
  VideoOf <- MCVideoOf
  LabelOf <- MCLabelOf
  Divine = {ann, ben}
  Creator <- MCCreator
  SelfLabels <- MCSelfLabels
  Threshold = 1
  WarningCount = 1
  BatchLimit = 1
  MaxTime = 2
INVARIANTS
  NoVoteLeftBehind StrikesAccountedFor LabelledOnce WarnedOnce WarningsEarned
