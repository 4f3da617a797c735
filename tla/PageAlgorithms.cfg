SPECIFICATION Spec
CONSTANTS
    Inferences <- MCInferences
    TallPages <- MCTallPages
    Units <- MCUnits
    Fallbacks <- MCFallbacks
    LinePairs <- MCLinePairs
    Bubbles <- MCBubbles
    BubbleLines <- MCBubbleLines
    Masks <- MCMasks
    PageBox <- MCPageBox
    WordLists <- MCWordLists
    Rooms <- MCRooms
    FuriganaTexts <- MCFuriganaTexts
    SourceSizes <- MCSourceSizes
    BookPages <- MCBookPages
    ColumnReadings <- MCColumnReadings
INVARIANTS CollectionIsAccepted EveryDetectionIsRead FallbackOnlyImproves LinesSurviveMerging ChunksTileTheColumn RubyBesideItsText TilesCoverTheMask RegionFitsItsBubble SizeIsLargestThatFits 
CHECK_DEADLOCK FALSE
