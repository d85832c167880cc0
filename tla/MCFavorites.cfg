SPECIFICATION FavoritesFairSpec
CONSTANTS
  Games = {g1, g2}
  Comment = Comment
  w1 = w1
  w2 = w2
  Writers <- MCWriters
  OpenMayFail = TRUE
INVARIANTS
  FavoritesTypeOK
  OneWriter
  ActiveMeansBusy
  SavedWhenIdle
PROPERTIES
  ChangeIsSaved
